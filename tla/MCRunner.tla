------------------------------- MODULE MCRunner -------------------------------
(* Instances of Runner for TLC. *)
EXTENDS Runner, TLC

Symmetry == Permutations(Events) \cup Permutations(Workers) \cup Permutations(Operators)
=============================================================================
