----------------------------- MODULE MCBlockProver -----------------------------
(* Instances of BlockProver for TLC. *)
EXTENDS BlockProver
===============================================================================
