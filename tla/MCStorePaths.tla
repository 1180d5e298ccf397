---------------------------- MODULE MCStorePaths ----------------------------
(***************************************************************************)
(* The instance of StorePaths for TLC: every operation with up to          *)
(* MaxPaths paths, and a failure at every step.                            *)
(***************************************************************************)
EXTENDS StorePaths
=============================================================================
