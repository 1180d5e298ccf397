------------------------------ MODULE MCFlakeNew ------------------------------
(***************************************************************************)
(* The instance of FlakeNew for TLC: every combination of options, closed  *)
(* resources and failing calls.                                            *)
(***************************************************************************)
EXTENDS FlakeNew
=============================================================================
