--------------------------- MODULE MCClientHandlers ---------------------------
(***************************************************************************)
(* The instance of ClientHandlers for TLC.  Descriptions are interchanged  *)
(* freely; objects are not, since the next free one is taken in order.     *)
(***************************************************************************)
EXTENDS ClientHandlers, TLC

CONSTANTS d1, d2, d3

MCObjects == 1..10
MCDescriptions == {d1, d2, d3}
MCSymmetry == Permutations(MCDescriptions)
=============================================================================
