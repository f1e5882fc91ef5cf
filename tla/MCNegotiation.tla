--------------------------- MODULE MCNegotiation ---------------------------
(* Instances of Negotiation for TLC. *)
EXTENDS Negotiation, TLC

Symmetry == Permutations(Users) \cup Permutations(Workers)
=============================================================================
