---------------------------- MODULE MCProverInput ----------------------------
(* Instances of ProverInput for TLC. *)
EXTENDS ProverInput

(* Consecutive blocks 5, 6, ... *)
MCConsecutive == [b \in Blocks |-> b + 4]

(* The proof of blocks 2 .. 4. *)
MCPrevious == [height |-> 4, first |-> 2]

===============================================================================
