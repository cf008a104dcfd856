------------------------------ MODULE BlockProofs ------------------------------
(***************************************************************************)
(* The input of ProverInput::prove (prover/src/lib.rs) and what a block    *)
(* proof is: the data shared by the abstract chain of proofs and by the    *)
(* code that builds it.                                                    *)
(***************************************************************************)
EXTENDS Naturals

CONSTANTS
  N,         \* number of blocks of the input
  Heights,   \* block number of every block of the input, in input order
  Previous,  \* the proof the first block extends, or NoProof
  NoProof    \* the absence of a proof

Blocks == 1 .. N

(***************************************************************************)
(* A block proof stands for a whole sequence of blocks: the ones numbered  *)
(* first .. height.                                                        *)
(***************************************************************************)
Proof == [height : Nat, first : Nat]

ASSUME NAssumption        == N \in Nat
ASSUME HeightsAssumption  == Heights \in [Blocks -> Nat]
ASSUME NoProofAssumption  == NoProof \notin Proof
ASSUME PreviousAssumption == Previous \in Proof \cup {NoProof}

(* A block extends a proof that ends at the block number before its own;   *)
(* without a proof it starts a sequence from the checkpoint state.         *)
Extends(prev, height) == prev # NoProof => prev.height + 1 = height

BlockProofOf(prev, height) ==
  [height |-> height,
   first  |-> IF prev = NoProof THEN height ELSE prev.first]

(* The proof block b extends, when the blocks of the input have `proofs'. *)
PreviousOf(proofs, b) == IF b = 1 THEN Previous ELSE proofs[b - 1]

===============================================================================
