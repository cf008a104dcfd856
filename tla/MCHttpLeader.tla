----------------------------- MODULE MCHttpLeader -----------------------------
(* Instances of HttpLeader for TLC. *)
EXTENDS HttpLeader, TLC

CONSTANTS r1, r2, r3

(* Two requests for block 1 and one for block 2. *)
MCBlockOf == r1 :> 1 @@ r2 :> 1 @@ r3 :> 2
===============================================================================
