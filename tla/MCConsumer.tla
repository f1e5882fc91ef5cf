------------------------------ MODULE MCConsumer ------------------------------
(* Instances of Consumer for TLC. *)
EXTENDS Consumer
=============================================================================
