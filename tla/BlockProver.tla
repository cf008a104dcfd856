------------------------------ MODULE BlockProver ------------------------------
(***************************************************************************)
(* One block in the workers: the operations of ops/src/lib.rs, which the   *)
(* runtime executes for BlockProverInput::prove (prover/src/lib.rs).  The  *)
(* proofs of the transactions are made in parallel and folded pairwise, in *)
(* whatever order they come, into one aggregation proof, and that into the *)
(* block's proof.  An operation that fails may save its inputs in the      *)
(* debug folder first (common/src/debug_utils.rs), several at once.        *)
(*                                                                         *)
(* This is what ProverInput takes for one step of the stages "txns" and    *)
(* "block".  An operator Mut_X is a mistake that X could contain.          *)
(***************************************************************************)
EXTENDS Naturals, FiniteSets

CONSTANTS
  T,            \* bound: the most transactions a block has, padding included
  MaxFaults,    \* bound: operations that fail
  MaxIoErrors   \* bound: file operations that fail

ASSUME TAssumption      == T \in Nat \ {0}
ASSUME BoundsAssumption == MaxFaults \in Nat /\ MaxIoErrors \in Nat

(* A proof of a run of transactions, and an operation that makes one: from *)
(* a single transaction, or from the proofs of lo .. mid and mid + 1 .. hi. *)
Txns    == 1 .. T
Spans   == {s \in Txns \X Txns : s[1] <= s[2]}
TxnOp(t) == <<t, t, t>>
TxnOps  == {TxnOp(t) : t \in Txns}
AggOps  == {o \in Txns \X Txns \X Txns : o[1] <= o[2] /\ o[2] < o[3]}
BlockOp == <<0, 0, 0>>
Ops     == TxnOps \cup AggOps \cup {BlockOp}

(* The log of a transaction is named after it, those of an aggregation and *)
(* of a block after the block alone.                                       *)
LogOf(o) == IF o \in TxnOps THEN o ELSE IF o = BlockOp THEN BlockOp ELSE <<0, 0, 1>>
Logs     == {LogOf(o) : o \in Ops}

(* The state of the chain after the first transactions of the block. *)
States == 0 .. T

VARIABLES
  n,        \* the transactions of the block
  testOnly, \* built with the feature test_only
  save,     \* save_inputs_on_error
  stage,    \* what each operation is doing
  proofs,   \* the spans whose proofs wait to be combined
  values,   \* the public values of the proof of a span: the states before and after
  folder,   \* the debug folder exists
  log,      \* the operations that have written to a log since it was truncated
  result,   \* "running", or what prove() returned
  faults, ioErrors

call == <<n, testOnly, save>>
vars == <<call, stage, proofs, values, folder, log, result, faults, ioErrors>>

(* An operation is executed; one that failed looks for the folder, creates *)
(* it, creates the log, writes it, and then returns its error.             *)
Saving == {"stat", "mkdir", "create", "write"}
Stages == {"idle", "run", "done", "failed"} \cup Saving

TypeOK ==
  /\ n \in Txns /\ testOnly \in BOOLEAN /\ save \in BOOLEAN
  /\ stage  \in [Ops -> Stages]
  /\ proofs \subseteq Spans
  /\ values \in [Spans -> States \X States]
  /\ folder \in BOOLEAN
  /\ log    \in [Logs -> SUBSET Ops]
  /\ result \in {"running", "ok", "not_agg", "err"}
  /\ faults \in 0 .. MaxFaults /\ ioErrors \in 0 .. MaxIoErrors

Mine == {TxnOp(t) : t \in 1 .. n}

Init ==
  /\ n \in Txns /\ testOnly \in BOOLEAN /\ save \in BOOLEAN
  /\ stage  = [o \in Ops |-> IF o \in Mine THEN "run" ELSE "idle"]
  /\ proofs = {}
  /\ values = [s \in Spans |-> <<0, 0>>]
  /\ folder \in BOOLEAN
  /\ log    = [l \in Logs |-> {}]
  /\ result = "running"
  /\ faults = 0 /\ ioErrors = 0

Goto(o, s) == stage' = [stage EXCEPT ![o] = s]

-------------------------------------------------------------------------------
(* TxProof, AggProof, BlockProof *)

(* The proofs that an aggregation is given as lhs and rhs, and what makes  *)
(* of them: the values of the first up to its beginning, of the second     *)
(* from its end on.                                                        *)
Mut_Operands(o) == <<<<o[2] + 1, o[3]>>, <<o[1], o[2]>>>>

Operands(o) == <<<<o[1], o[2]>>, <<o[2] + 1, o[3]>>>>

Inputs(o) == <<values[Operands(o)[1]], values[Operands(o)[2]]>>

Made(o) ==
  IF o \in TxnOps THEN <<o[1] - 1, o[1]>> ELSE <<Inputs(o)[1][1], Inputs(o)[2][2]>>

(* Two proofs are aggregated if the second begins in the state the first   *)
(* ends in, and a block is proved from a proof that begins in the state    *)
(* the previous block has left.                                            *)
Fits(o) == Inputs(o)[1][2] = Inputs(o)[2][1]
Whole   == values[<<1, n>>][1] = 0

Feasible(o) == (o \in AggOps => Fits(o)) /\ (o = BlockOp => Whole)

Mut_Succeed(o) ==
  /\ stage[o] = "run"
  /\ Goto(o, "done")
  /\ proofs' = proofs \cup {<<o[1], o[3]>>}
  /\ UNCHANGED <<call, values, folder, log, result, faults, ioErrors>>

(* The operation succeeds; a block proof is the end of it. *)
Succeed(o) ==
  /\ stage[o] = "run"
  /\ Feasible(o)
  /\ Goto(o, "done")
  /\ IF o = BlockOp THEN UNCHANGED <<proofs, values>>
     ELSE /\ proofs' = proofs \cup {<<o[1], o[3]>>}
          /\ values' = [values EXCEPT ![<<o[1], o[3]>>] = Made(o)]
  /\ UNCHANGED <<call, folder, log, result, faults, ioErrors>>

(* It fails; the error is always fatal to the call. *)
Mut_Ignore(o) == Goto(o, "idle")

Mut_Swallow(o) == Goto(o, IF save THEN "done" ELSE "failed")

Error(o) == Goto(o, IF save THEN "stat" ELSE "failed")

FailOp(o) ==
  /\ stage[o] = "run"
  /\ Feasible(o) => faults < MaxFaults
  /\ faults' = IF Feasible(o) THEN faults + 1 ELSE faults
  /\ Error(o)
  /\ UNCHANGED <<call, proofs, values, folder, log, result, ioErrors>>

-------------------------------------------------------------------------------
(* save_inputs_to_disk.  Its own failure is logged, and the error of the   *)
(* operation is returned all the same.                                     *)
Mut_CheckFolder(o) ==
  /\ stage[o] = "stat"
  /\ Goto(o, "mkdir")
  /\ UNCHANGED <<call, proofs, values, folder, log, result, faults, ioErrors>>

CheckFolder(o) ==
  /\ stage[o] = "stat"
  /\ Goto(o, IF folder THEN "create" ELSE "mkdir")
  /\ UNCHANGED <<call, proofs, values, folder, log, result, faults, ioErrors>>

(* create_dir fails on a folder that exists by now. *)
CreateFolder(o) ==
  /\ stage[o] = "mkdir"
  /\ folder' = TRUE
  /\ Goto(o, IF folder THEN "failed" ELSE "create")
  /\ UNCHANGED <<call, proofs, values, log, result, faults, ioErrors>>

CreateLog(o) ==
  /\ stage[o] = "create"
  /\ log' = [log EXCEPT ![LogOf(o)] = {}]
  /\ Goto(o, "write")
  /\ UNCHANGED <<call, proofs, values, folder, result, faults, ioErrors>>

WriteLog(o) ==
  /\ stage[o] = "write"
  /\ log' = [log EXCEPT ![LogOf(o)] = @ \cup {o}]
  /\ Goto(o, "failed")
  /\ UNCHANGED <<call, proofs, values, folder, result, faults, ioErrors>>

SaveFails(o) ==
  /\ stage[o] \in Saving
  /\ ioErrors < MaxIoErrors /\ ioErrors' = ioErrors + 1
  /\ Goto(o, "failed")
  /\ UNCHANGED <<call, proofs, values, folder, log, result, faults>>

-------------------------------------------------------------------------------
(* The fold: the runtime, which knows where in the block a proof belongs,  *)
(* hands two adjacent ones to AggProof::combine.                           *)
Combine(o) ==
  /\ result = "running" /\ ~testOnly
  /\ o \in AggOps
  /\ {<<o[1], o[2]>>, <<o[2] + 1, o[3]>>} \subseteq proofs
  /\ proofs' = proofs \ {<<o[1], o[2]>>, <<o[2] + 1, o[3]>>}
  /\ Goto(o, "run")
  /\ UNCHANGED <<call, values, folder, log, result, faults, ioErrors>>

(* All transactions are folded into one proof.  That of a lone transaction *)
(* is not an aggregation proof; any other is turned into a block proof, as *)
(* soon as the previous one is there.                                      *)
Folded ==
  /\ result = "running" /\ ~testOnly
  /\ proofs = {<<1, n>>} /\ stage[BlockOp] = "idle"
  /\ \/ n = 1 /\ result' = "not_agg" /\ UNCHANGED stage
     \/ n > 1 /\ Goto(BlockOp, "run") /\ UNCHANGED result
  /\ UNCHANGED <<call, proofs, values, folder, log, faults, ioErrors>>

(* The call returns: the block is proved, or in the test_only build every  *)
(* transaction simulated, or an operation has failed.  Operations that are *)
(* running go on, their results are dropped.                               *)
Return ==
  /\ result = "running"
  /\ \/ /\ stage[BlockOp] = "done" \/ (testOnly /\ \A o \in Mine : stage[o] = "done")
        /\ result' = "ok"
     \/ /\ \E o \in Ops : stage[o] = "failed"
        /\ result' = "err"
  /\ UNCHANGED <<call, stage, proofs, values, folder, log, faults, ioErrors>>

-------------------------------------------------------------------------------
Work(o) ==
  \/ Succeed(o) \/ FailOp(o)
  \/ CheckFolder(o) \/ CreateFolder(o) \/ CreateLog(o) \/ WriteLog(o)

Next ==
  \/ \E o \in Ops : Work(o) \/ SaveFails(o) \/ Combine(o)
  \/ Folded \/ Return

(* The workers execute what they are given, the runtime folds what it has. *)
Spec ==
  /\ Init /\ [][Next]_vars
  /\ \A o \in Ops : WF_vars(Work(o))
  /\ WF_vars(\E o \in Ops : Combine(o)) /\ WF_vars(Folded) /\ WF_vars(Return)

-------------------------------------------------------------------------------
(* Properties *)

(* prove() fails only if an operation did: in whatever order the proofs    *)
(* come in and are combined, the public values of the two that combine is  *)
(* given, made by earlier combinations, fit together, and those of the     *)
(* last one fit the block (ops/src/lib.rs:162-187, 202-223).               *)
OnlyFaultsFail == result = "err" => faults > 0

(* A failed operation is never taken for a success, whatever happens while *)
(* its inputs are being saved.                                             *)
ErrorsAreNotMasked == result = "ok" => faults = 0

(* prove() returns. *)
Returns == <>(result # "running")

(* When prove() has failed, some failed operation has saved its inputs, or *)
(* is about to: failures that race for the folder do not all lose.         *)
SomeInputsAreSaved ==
  result = "err" /\ save /\ ioErrors = 0 =>
    \/ \E l \in Logs : log[l] # {}
    \/ \E o \in Ops : stage[o] \in {"create", "write"}

===============================================================================
