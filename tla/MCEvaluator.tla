----------------------------- MODULE MCEvaluator -----------------------------
(***************************************************************************)
(* Instances of Evaluator for TLC.  Values are interchangeable, and so are *)
(* Evaluators.                                                             *)
(***************************************************************************)
EXTENDS Evaluator, TLC

Symmetry == Permutations(Evaluators) \cup Permutations(Values)
=============================================================================
