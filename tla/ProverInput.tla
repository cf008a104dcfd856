------------------------------ MODULE ProverInput ------------------------------
(***************************************************************************)
(* ProverInput::prove and BlockProverInput::prove (prover/src/lib.rs): one *)
(* future per block, all of them polled concurrently by one task, chained  *)
(* by oneshot channels.  Block b + 1 receives the proof of block b on      *)
(* channel b; the results are collected in input order.                    *)
(*                                                                         *)
(* An action is what a future does between two awaits.  What the awaits    *)
(* wait for (the paladin runtime and its workers, the file system) answers *)
(* at any time, with success or with an error.                             *)
(*                                                                         *)
(* An operator Mut_X is a mistake that X could contain: the properties     *)
(* below are tested against it.                                            *)
(***************************************************************************)
EXTENDS BlockProofs

CONSTANTS
  TestOnly,   \* built with the feature test_only
  OutputDir   \* proof_output_dir is given: proofs are written to disk

ASSUME ModesAssumption == TestOnly \in BOOLEAN /\ OutputDir \in BOOLEAN

(* A future is awaiting nothing yet ("ir"), the transaction proofs and     *)
(* their aggregation ("txns"), the previous proof, the block proof, one of *)
(* the three steps of write_proof, or it has completed.                    *)
PC == {"ir", "txns", "prev", "block", "mkdir", "create", "write", "ok", "err"}

(* Errors of a block's own work, before and after it has taken the         *)
(* previous proof, and the two that come from a neighbour: RecvError and   *)
(* "Failed to send proof".  A panic ends the whole program.                *)
EarlyErrors == {"ir", "panic", "txns", "not_agg", "overflow"}
LateErrors  == {"block", "serialize", "mkdir", "create", "write"}
TaskErrors  == EarlyErrors \cup LateErrors \cup {"dummy"}
Errors      == TaskErrors \cup {"recv", "send"}

VARIABLES
  pc,      \* what the future of each block awaits
  err,     \* the error it completed with, or "none"
  chan,    \* the oneshot channel whose sender is block b
  proof,   \* the proof of block b, once generated
  file     \* the file of block b's proof

vars == <<pc, err, chan, proof, file>>

(* A channel is open, holds the proof, has delivered it, lost its sender   *)
(* ("closed") or lost its receiver ("unheard").                            *)
ChanState == {"open", "sent", "received", "closed", "unheard"}

(* A proof's bytes are "queued" once tokio's File has taken them: a        *)
(* background thread writes them later, or fails to ("lost").              *)
FileState == {"absent", "empty", "queued", "full", "lost"}

TypeOK ==
  /\ pc    \in [Blocks -> PC]
  /\ err   \in [Blocks -> Errors \cup {"none"}]
  /\ chan  \in [Blocks -> ChanState]
  /\ proof \in [Blocks -> Proof \cup {NoProof}]
  /\ file  \in [Blocks -> FileState]

Init ==
  /\ pc    = [b \in Blocks |-> "ir"]
  /\ err   = [b \in Blocks |-> "none"]
  /\ chan  = [b \in Blocks |-> "open"]
  /\ proof = [b \in Blocks |-> NoProof]
  /\ file  = [b \in Blocks |-> "absent"]

-------------------------------------------------------------------------------
(* The result of FuturesOrdered::try_collect: results are taken in input   *)
(* order, the first error in that order ends the call.  The futures that   *)
(* have not completed by then are dropped: no action below is enabled.     *)

FirstError(b) == pc[b] = "err" /\ \A a \in 1 .. b - 1 : pc[a] = "ok"

Outcome ==
  IF \E b \in Blocks : err[b] = "panic" THEN "panic"
  ELSE IF \A b \in Blocks : pc[b] = "ok" THEN "ok"
  ELSE IF \E b \in Blocks : FirstError(b) THEN "err"
  ELSE "running"

(* Completing prove() drops the receiver it owns, whether it used it or not. *)
Mut_DropReceiver(b) ==
  [c \in Blocks \cup {b - 1} |-> IF c = b - 1 THEN "unheard" ELSE chan[c]]

DropReceiver(b) ==
  [c \in Blocks |-> IF c = b - 1 /\ chan[c] = "open" THEN "unheard" ELSE chan[c]]

(* A future that fails drops its receiver, and its sender unused. *)
Drop(b) ==
  [c \in Blocks |-> IF c = b /\ chan[c] = "open" THEN "closed" ELSE DropReceiver(b)[c]]

Mut_Fail(b, e) ==
  /\ pc'   = [pc EXCEPT ![b] = "ok"]
  /\ chan' = [chan EXCEPT ![b] = "sent"]
  /\ UNCHANGED err

Fail(b, e) ==
  /\ pc'   = [pc EXCEPT ![b] = "err"]
  /\ err'  = [err EXCEPT ![b] = e]
  /\ chan' = Drop(b)

(* tx.send(proof): it fails when the successor's future is gone. *)
Mut_SendNothing(b) ==
  /\ pc'   = [pc EXCEPT ![b] = "ok"]
  /\ chan' = DropReceiver(b)
  /\ UNCHANGED err

Mut_SendLast(b) ==
  IF b < N /\ chan[b] = "open"
  THEN /\ pc'   = [pc EXCEPT ![b] = "ok"]
       /\ chan' = [DropReceiver(b) EXCEPT ![b] = "sent"]
       /\ UNCHANGED err
  ELSE Fail(b, "send")

Send(b) ==
  \/ /\ chan[b] = "open"
     /\ pc'   = [pc EXCEPT ![b] = "ok"]
     /\ chan' = [DropReceiver(b) EXCEPT ![b] = "sent"]
     /\ UNCHANGED err
  \/ /\ chan[b] # "open"
     /\ Fail(b, "send")

(* What follows prove(): write the proof to disk, if a directory is given, *)
(* then hand it to the next block.                                         *)
Mut_Proved(b, p) ==
  /\ proof' = [proof EXCEPT ![b] = p]
  /\ pc'    = [pc EXCEPT ![b] = "mkdir"]
  /\ chan'  = [DropReceiver(b) EXCEPT ![b] = "sent"]
  /\ UNCHANGED <<err, file>>

Proved(b, p) ==
  /\ proof' = [proof EXCEPT ![b] = p]
  /\ \/ OutputDir /\ Fail(b, "serialize")
     \/ /\ OutputDir
        /\ pc'   = [pc EXCEPT ![b] = "mkdir"]
        /\ chan' = DropReceiver(b)
        /\ UNCHANGED err
     \/ ~OutputDir /\ Send(b)
  /\ UNCHANGED file

-------------------------------------------------------------------------------
(* BlockProverInput::prove *)

(* into_txn_proof_gen_ir, then the transactions are handed to the runtime. *)
(* It panics when a trace names contract code only by its hash:            *)
(* resolve_code_hash_fn is a todo!().                                      *)
GenerateIr(b) ==
  /\ pc[b] = "ir"
  /\ \/ pc' = [pc EXCEPT ![b] = "txns"] /\ UNCHANGED <<err, chan>>
     \/ \E e \in {"ir", "panic"} : Fail(b, e)
  /\ UNCHANGED <<proof, file>>

(* The runtime has folded the transaction proofs: into one aggregation     *)
(* proof, into the proof of a lone transaction, or with an error.          *)
AggregateDone(b) ==
  /\ ~TestOnly
  /\ pc[b] = "txns"
  /\ \/ /\ pc' = [pc EXCEPT ![b] = IF b = 1 /\ Previous = NoProof THEN "block" ELSE "prev"]
        /\ UNCHANGED <<err, chan>>
     \/ \E e \in {"txns", "not_agg", "overflow"} : Fail(b, e)
  /\ UNCHANGED <<proof, file>>

(* previous.await: the proof given by the caller, or the predecessor's. *)
Mut_ReceivePrevious(b) ==
  /\ pc[b] = "prev"
  /\ pc' = [pc EXCEPT ![b] = "block"]
  /\ UNCHANGED <<err, chan, proof, file>>

ReceivePrevious(b) ==
  /\ pc[b] = "prev"
  /\ \/ /\ b = 1
        /\ pc' = [pc EXCEPT ![b] = "block"]
        /\ UNCHANGED <<err, chan>>
     \/ /\ b > 1 /\ chan[b - 1] = "sent"
        /\ pc'   = [pc EXCEPT ![b] = "block"]
        /\ chan' = [chan EXCEPT ![b - 1] = "received"]
        /\ UNCHANGED err
     \/ /\ b > 1 /\ chan[b - 1] = "closed"
        /\ Fail(b, "recv")
  /\ UNCHANGED <<proof, file>>

(* The runtime has proved the block on top of the previous proof, or       *)
(* failed; it always fails on a proof that does not end just before it.    *)
BlockDone(b) ==
  /\ pc[b] = "block"
  /\ LET prev == PreviousOf(proof, b) IN
     \/ /\ Extends(prev, Heights[b])
        /\ Proved(b, BlockProofOf(prev, Heights[b]))
     \/ /\ Fail(b, "block")
        /\ UNCHANGED <<proof, file>>

(* In the test_only build only the witnesses of the transactions are       *)
(* generated; the previous proof is never awaited and the proof is a dummy. *)
SimulationDone(b) ==
  /\ TestOnly
  /\ pc[b] = "txns"
  /\ \/ Proved(b, BlockProofOf(NoProof, Heights[b]))
     \/ /\ \E e \in {"txns", "dummy", "panic"} : Fail(b, e)
        /\ UNCHANGED <<proof, file>>

(* ProverInput::write_proof *)

MakeDir(b) ==
  /\ pc[b] = "mkdir"
  /\ \/ pc' = [pc EXCEPT ![b] = "create"] /\ UNCHANGED <<err, chan>>
     \/ Fail(b, "mkdir")
  /\ UNCHANGED <<proof, file>>

CreateFile(b) ==
  /\ pc[b] = "create"
  /\ \/ /\ pc'   = [pc EXCEPT ![b] = "write"]
        /\ file' = [file EXCEPT ![b] = "empty"]
        /\ UNCHANGED <<err, chan>>
     \/ Fail(b, "create") /\ UNCHANGED file
  /\ UNCHANGED proof

Mut_WriteAll(b) ==
  /\ pc[b] = "write"
  /\ Send(b)
  /\ UNCHANGED <<proof, file>>

WriteAll(b) ==
  /\ pc[b] = "write"
  /\ \/ file' = [file EXCEPT ![b] = "queued"] /\ Send(b)
     \/ Fail(b, "write") /\ UNCHANGED file
  /\ UNCHANGED proof

(* tokio's background write.  The File is dropped without a flush: nobody  *)
(* waits for it and its error reaches nobody.                              *)
BackgroundWrite(b) ==
  /\ file[b] = "queued"
  /\ \E s \in {"full", "lost"} : file' = [file EXCEPT ![b] = s]
  /\ UNCHANGED <<pc, err, chan, proof>>

-------------------------------------------------------------------------------
Step(b) ==
  \/ GenerateIr(b) \/ AggregateDone(b) \/ ReceivePrevious(b) \/ BlockDone(b)
  \/ SimulationDone(b) \/ MakeDir(b) \/ CreateFile(b) \/ WriteAll(b)

(* The call has returned and no background write is left. *)
Returned ==
  /\ Outcome # "running"
  /\ \A b \in Blocks : file[b] # "queued"
  /\ UNCHANGED vars

Next ==
  \/ \E b \in Blocks : Outcome = "running" /\ Step(b)
  \/ \E b \in Blocks : BackgroundWrite(b)
  \/ Returned

(* The executor polls every future that was woken, the runtime and the     *)
(* file system answer every request.                                       *)
Fairness == \A b \in Blocks : WF_vars(Outcome = "running" /\ Step(b))

Spec == Init /\ [][Next]_vars /\ Fairness

-------------------------------------------------------------------------------
(* Properties *)

Stored == {"queued", "full", "lost"}

(* Every generated proof covers the whole sequence from the checkpoint, or *)
(* from the start of the given previous proof, to its own block, without a *)
(* gap: the last one is enough to verify all (leader/src/client.rs:55-57). *)
(* Block proofs are computed in order although the blocks race.            *)
ProofsCoverSequence ==
  \A b \in Blocks : proof[b] # NoProof =>
    /\ proof[b].height = Heights[b]
    /\ proof[b].first = IF Previous = NoProof THEN Heights[1] ELSE Previous.first
    /\ Previous # NoProof => Heights[1] = Previous.height + 1
    /\ \A a \in 2 .. b : Heights[a] = Heights[a - 1] + 1

(* The files of a run, whenever it stops, are those of its first blocks:   *)
(* no file exists before the bytes of all earlier proofs were handed to    *)
(* the file system.  The last of them may still be empty, or lost.         *)
FilesFormPrefix ==
  \A b \in Blocks : file[b] # "absent" => \A a \in 1 .. b - 1 : file[a] \in Stored

(* prove() returns Ok only with every block proved and, with a directory,  *)
(* every proof handed to the file system.                                  *)
OkMeansAllProved ==
  Outcome = "ok" =>
    \A b \in Blocks : proof[b] # NoProof /\ (OutputDir => file[b] \in Stored)

(* The error a caller sees is never the RecvError of a block that waited   *)
(* for a failed one; it is a failure of the block's own work, or "Failed   *)
(* to send proof", which stands for the next block's failure to get as far *)
(* as taking the previous proof.                                           *)
ErrorHasRootCause ==
  Outcome = "err" =>
    \A b \in Blocks : FirstError(b) =>
      \/ err[b] \in TaskErrors
      \/ err[b] = "send" /\ b < N /\ err[b + 1] \in EarlyErrors

(* In the test_only build the error is a failure of the block's own work,  *)
(* or the next block was done with its transactions before it: simulated,  *)
(* or ended by a failure.  A run that fails names the first block that did *)
(* not get through, and every block before it did.                         *)
FailedOrOvertaken ==
  Outcome = "err" =>
    \A b \in Blocks : FirstError(b) =>
      \/ err[b] \in TaskErrors
      \/ err[b] = "send" /\ b < N /\ pc[b + 1] \notin {"ir", "txns"}

(* A proof prove() reports as saved is on disk, or still being written:    *)
(* its write has not failed (prover/src/lib.rs:187 and 204).               *)
SavedProofsAreOnDisk ==
  Outcome = "ok" => \A b \in Blocks : file[b] # "lost"

(* No block waits for ever: neither for a proof whose future has failed,   *)
(* nor for a neighbour that waits for it.                                  *)
Returns == <>(Outcome # "running")

(* The normal build keeps the promise of ProofChain. *)
Chain == INSTANCE ProofChain WITH
  faulty <- {b \in Blocks : err[b] \in TaskErrors},
  result <- Outcome

ImplementsProofChain == Chain!Spec

===============================================================================
