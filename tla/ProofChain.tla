------------------------------ MODULE ProofChain ------------------------------
(***************************************************************************)
(* What ProverInput::prove (prover/src/lib.rs) promises its callers, with  *)
(* no channel, no future and no file: the blocks of the input are proved   *)
(* one after the other, each proof extending the one before it, and the    *)
(* call returns Ok only when every block is proved, and returns an error,  *)
(* or panics, only when some task of some block really failed.             *)
(***************************************************************************)
EXTENDS BlockProofs

VARIABLES
  proof,     \* proof[b]: the proof of block b, once it exists
  faulty,    \* the blocks one of whose own tasks failed
  result     \* "running", or what the call returned

vars == <<proof, faulty, result>>

Init ==
  /\ proof  = [b \in Blocks |-> NoProof]
  /\ faulty = {}
  /\ result = IF N = 0 THEN "ok" ELSE "running"

(* The call may return at the same instant as anything else happens. *)
Return ==
  \/ result' = "running"
  \/ result' = "ok"  /\ \A b \in Blocks : proof'[b] # NoProof
  \/ result' \in {"err", "panic"} /\ faulty' # {}

Prove(b) ==
  /\ proof[b] = NoProof
  /\ b > 1 => proof[b - 1] # NoProof
  /\ Extends(PreviousOf(proof, b), Heights[b])
  /\ proof' = [proof EXCEPT ![b] = BlockProofOf(PreviousOf(proof, b), Heights[b])]
  /\ faulty' \in {faulty, faulty \cup {b}}

TaskFails(b) ==
  /\ faulty' = faulty \cup {b}
  /\ UNCHANGED proof

ReturnOnly == UNCHANGED <<proof, faulty>>

Next ==
  /\ result = "running"
  /\ \/ \E b \in Blocks : Prove(b) \/ TaskFails(b)
     \/ ReturnOnly
  /\ Return

(* The call returns. *)
Spec == Init /\ [][Next]_vars /\ <>(result # "running")

===============================================================================
