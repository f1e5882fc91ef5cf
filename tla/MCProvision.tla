----------------------------- MODULE MCProvision -----------------------------
(* Instances of Provision for TLC.                                         *)
EXTENDS Provision, TLC

Symmetric == Permutations(Operator)
=============================================================================
