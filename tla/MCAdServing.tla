---------------------------- MODULE MCAdServing ----------------------------
(* AdServing for TLC: the timer and /reload run the same code.             *)
EXTENDS AdServing, TLC

Symmetry == Permutations(Runs)
=============================================================================
