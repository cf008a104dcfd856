-------------------------- MODULE ProverInput_proofs --------------------------
(***************************************************************************)
(* Proofs about ProverInput, for every number of blocks.  Inv says what    *)
(* the state of a channel tells about the two futures at its ends; every   *)
(* other result follows from it.                                           *)
(***************************************************************************)
EXTENDS ProverInput, WellFoundedInduction, TLAPS

(* pc and err agree; the first block has nobody to receive from. *)
InvError ==
  \A b \in Blocks :
    /\ pc[b] = "err" <=> err[b] # "none"
    /\ err[b] = "recv" => b > 1

(* What each state of channel b says of its sender, block b, and of its    *)
(* receiver, block b + 1.                                                  *)
InvChannel ==
  \A b \in Blocks :
    /\ pc[b] = "ok" <=> chan[b] \in {"sent", "received"}
    /\ chan[b] = "closed" => pc[b] = "err" /\ err[b] # "send"
    /\ err[b] = "send" => chan[b] = "unheard"
    /\ ~TestOnly /\ chan[b] = "unheard" =>
         b < N /\ pc[b + 1] = "err" /\ err[b + 1] \in EarlyErrors

(* A block past the previous proof has received it, and so had its         *)
(* predecessors; one that failed to receive it lost its predecessor.       *)
AfterPrevious(b) ==
  \/ pc[b] \in {"block", "mkdir", "create", "write", "ok"}
  \/ err[b] \in LateErrors \cup {"send"}

InvReceived ==
  \A b \in Blocks : b > 1 =>
    /\ ~TestOnly /\ AfterPrevious(b) => \A a \in 1 .. b - 1 : chan[a] = "received"
    /\ err[b] = "recv" => chan[b - 1] = "closed"

(* The proof of a block exists once its future is past the block proof,    *)
(* and not before.                                                         *)
InvProof ==
  \A b \in Blocks :
    /\ pc[b] \in {"mkdir", "create", "write", "ok"} => proof[b] # NoProof
    /\ pc[b] \in {"ir", "txns", "prev", "block"} => proof[b] = NoProof

(* The file of a block, as far as its future has got. *)
InvFile ==
  \A b \in Blocks :
    /\ pc[b] \in {"mkdir", "create", "write"} => OutputDir
    /\ file[b] # "absent" => OutputDir /\ AfterPrevious(b)
    /\ OutputDir /\ pc[b] = "ok" => file[b] \in Stored

Links == InvError /\ InvChannel /\ InvReceived

Inv ==
  /\ TypeOK
  /\ Links
  /\ InvProof
  /\ InvFile

-------------------------------------------------------------------------------
(* The proofs a future generates are proofs. *)
LEMMA BlockProofTyped ==
  ASSUME TypeOK, NEW b \in Blocks
  PROVE  /\ BlockProofOf(PreviousOf(proof, b), Heights[b]) \in Proof
         /\ BlockProofOf(NoProof, Heights[b]) \in Proof
<1>1. PreviousOf(proof, b) \in Proof \cup {NoProof}
  BY PreviousAssumption, NAssumption DEF PreviousOf, Blocks, TypeOK
<1> QED
  BY <1>1, HeightsAssumption DEF BlockProofOf, Proof

(* Every value prove() keeps has the type TypeOK gives it. *)
THEOREM TypeCorrect == Spec => []TypeOK
<1>1. Init => TypeOK
  BY DEF Init, TypeOK, PC, Errors, ChanState, FileState
<1>2. TypeOK /\ [Next]_vars => TypeOK'
  <2> SUFFICES ASSUME TypeOK, [Next]_vars PROVE TypeOK'
    OBVIOUS
  <2> USE DEF TypeOK, PC, ChanState, FileState
  <2>1. ASSUME NEW b \in Blocks, NEW e \in Errors, Fail(b, e)
        PROVE  /\ pc' \in [Blocks -> PC]
               /\ err' \in [Blocks -> Errors \cup {"none"}]
               /\ chan' \in [Blocks -> ChanState]
    BY <2>1 DEF Fail, Drop, DropReceiver
  <2>2. ASSUME NEW b \in Blocks, Send(b)
        PROVE  /\ pc' \in [Blocks -> PC]
               /\ err' \in [Blocks -> Errors \cup {"none"}]
               /\ chan' \in [Blocks -> ChanState]
    BY <2>1, <2>2 DEF Send, DropReceiver, Errors
  <2>3. ASSUME NEW b \in Blocks, NEW p \in Proof, Proved(b, p)
        PROVE  TypeOK'
    BY <2>1, <2>2, <2>3 DEF Proved, DropReceiver, Errors, TaskErrors, LateErrors
  <2>7. CASE UNCHANGED vars
    BY <2>7 DEF vars
  <2>8. CASE Returned
    BY <2>8 DEF Returned, vars
  <2>9. ASSUME NEW b \in Blocks, BackgroundWrite(b) PROVE TypeOK'
    BY <2>9 DEF BackgroundWrite
  <2>10. ASSUME NEW b \in Blocks, Step(b) PROVE TypeOK'
    <3>1. CASE GenerateIr(b)
      BY <3>1, <2>1 DEF GenerateIr, Errors, TaskErrors, EarlyErrors
    <3>2. CASE AggregateDone(b)
      BY <3>2, <2>1 DEF AggregateDone, Errors, TaskErrors, EarlyErrors
    <3>3. CASE ReceivePrevious(b)
      BY <3>3, <2>1 DEF ReceivePrevious, Errors
    <3>4. CASE BlockDone(b)
      BY <3>4, <2>1, <2>3, BlockProofTyped DEF BlockDone, Errors, TaskErrors, LateErrors
    <3>5. CASE SimulationDone(b)
      BY <3>5, <2>1, <2>3, BlockProofTyped DEF SimulationDone, Errors, TaskErrors, EarlyErrors
    <3>6. CASE MakeDir(b)
      BY <3>6, <2>1 DEF MakeDir, Errors, TaskErrors, LateErrors
    <3>7. CASE CreateFile(b)
      BY <3>7, <2>1 DEF CreateFile, Errors, TaskErrors, LateErrors
    <3>8. CASE WriteAll(b)
      BY <3>8, <2>1, <2>2 DEF WriteAll, Errors, TaskErrors, LateErrors
    <3> QED
      BY <2>10, <3>1, <3>2, <3>3, <3>4, <3>5, <3>6, <3>7, <3>8 DEF Step
  <2> QED
    BY <2>7, <2>8, <2>9, <2>10 DEF Next
<1> QED
  BY <1>1, <1>2, PTL DEF Spec

-------------------------------------------------------------------------------
(* The three ways a future moves keep what the channels say. *)

LEMMA FailKeepsLinks ==
  ASSUME TypeOK, Links, NEW b \in Blocks, NEW e \in Errors,
         pc[b] \notin {"ok", "err"}, Fail(b, e),
         e = "recv" => b > 1 /\ chan[b - 1] = "closed",
         e = "send" => chan[b] = "unheard",
         ~TestOnly => e \in EarlyErrors \cup {"recv"} \/ AfterPrevious(b)
  PROVE  Links'
<1> USE NAssumption DEF Blocks
<1>1. /\ pc'  = [pc EXCEPT ![b] = "err"]
      /\ err' = [err EXCEPT ![b] = e]
      /\ chan' = [c \in Blocks |->
           IF c = b /\ chan[c] = "open" THEN "closed"
           ELSE IF c = b - 1 /\ chan[c] = "open" THEN "unheard" ELSE chan[c]]
  BY DEF Fail, Drop, DropReceiver
<1>2. e # "none"
  BY DEF Errors, TaskErrors, EarlyErrors, LateErrors
<1>3. InvError'
  BY <1>1, <1>2 DEF Links, InvError, TypeOK
<1>4. ASSUME NEW c \in Blocks PROVE InvChannel!(c)'
  <2>1. CASE c = b
    BY <1>1, <2>1 DEF Links, InvChannel, InvError, TypeOK, ChanState
  <2>2. CASE c = b - 1
    BY <1>1, <2>2 DEF Links, InvChannel, InvReceived, InvError, TypeOK, ChanState, EarlyErrors
  <2>3. CASE c # b /\ c # b - 1
    <3>1. /\ chan'[c] = chan[c] /\ pc'[c] = pc[c] /\ err'[c] = err[c]
          /\ c < N => pc'[c + 1] = pc[c + 1] /\ err'[c + 1] = err[c + 1]
      BY <1>1, <2>3 DEF TypeOK
    <3> QED
      BY <3>1 DEF Links, InvChannel
  <2> QED
    BY <2>1, <2>2, <2>3
<1>5. ASSUME NEW c \in Blocks, c > 1 PROVE InvReceived!(c)!2'
  BY <1>1, <1>5 DEF Links, InvReceived, InvError, InvChannel, AfterPrevious, TypeOK,
     LateErrors, EarlyErrors
<1> QED
  BY <1>3, <1>4, <1>5 DEF Links, InvChannel, InvReceived

LEMMA SendKeepsLinks ==
  ASSUME TypeOK, Links, NEW b \in Blocks,
         pc[b] \notin {"ok", "err"}, Send(b),
         ~TestOnly => AfterPrevious(b)
  PROVE  Links'
<1> USE NAssumption DEF Blocks
<1>1. CASE chan[b] # "open"
  <2>1. chan[b] = "unheard"
    BY <1>1 DEF TypeOK, ChanState, Links, InvChannel
  <2>2. Fail(b, "send") /\ "send" \in Errors
    BY <1>1 DEF Send, Errors
  <2> QED
    BY <2>1, <2>2, FailKeepsLinks
<1>2. CASE chan[b] = "open"
  <2>1. /\ pc'   = [pc EXCEPT ![b] = "ok"]
        /\ err'  = err
        /\ chan' = [c \in Blocks |->
             IF c = b THEN "sent"
             ELSE IF c = b - 1 /\ chan[c] = "open" THEN "unheard" ELSE chan[c]]
    BY <1>2 DEF Send, DropReceiver
  <2>2. InvError'
    BY <2>1 DEF Links, InvError, TypeOK
  <2>3. ASSUME NEW c \in Blocks PROVE InvChannel!(c)'
    <3>1. CASE c = b
      BY <2>1, <3>1 DEF Links, InvChannel, InvError, TypeOK, ChanState
    <3>2. CASE c = b - 1
      BY <2>1, <3>2 DEF Links, InvChannel, InvReceived, InvError, TypeOK, ChanState, AfterPrevious
    <3>3. CASE c # b /\ c # b - 1
      BY <2>1, <3>3 DEF Links, InvChannel, TypeOK
    <3> QED
      BY <3>1, <3>2, <3>3
  <2>4. ASSUME NEW c \in Blocks, chan[c] \in {"received", "closed"} PROVE chan'[c] = chan[c]
    BY <1>2, <2>1, <2>4
  <2>5. ASSUME NEW c \in Blocks, c > 1 PROVE InvReceived!(c)!2'
    <3>1. c - 1 \in Blocks /\ \A a \in 1 .. c - 1 : a \in Blocks
      BY <2>5
    <3>2. err[c] = err'[c] /\ (~TestOnly /\ AfterPrevious(c)' => AfterPrevious(c))
      BY <2>1 DEF AfterPrevious, TypeOK
    <3> QED
      BY <2>4, <2>5, <3>1, <3>2 DEF Links, InvReceived
  <2> QED
    BY <2>2, <2>3, <2>5 DEF Links, InvChannel, InvReceived
<1> QED
  BY <1>1, <1>2

(* A future goes on to another await without touching a channel, or, in    *)
(* the test_only build, dropping its receiver.                             *)
LEMMA AdvanceKeepsLinks ==
  ASSUME TypeOK, Links, NEW b \in Blocks, NEW s \in PC \ {"ok", "err"},
         pc[b] \notin {"ok", "err"},
         pc' = [pc EXCEPT ![b] = s], err' = err,
         chan' = chan \/ (TestOnly /\ chan' = DropReceiver(b)),
         s \notin {"txns", "prev"} => TestOnly \/ AfterPrevious(b) \/ b = 1
  PROVE  Links'
<1> USE NAssumption DEF Blocks
<1>1. InvError'
  BY DEF Links, InvError, TypeOK, PC
<1>2. ASSUME NEW c \in Blocks
      PROVE  /\ pc'[c] \in {"ok", "err"} <=> pc[c] \in {"ok", "err"}
             /\ pc'[c] \in {"ok", "err"} => pc'[c] = pc[c]
             /\ err'[c] = err[c]
  BY DEF TypeOK, PC
<1>3. ASSUME NEW c \in Blocks
      PROVE  \/ chan'[c] = chan[c]
             \/ TestOnly /\ chan[c] = "open" /\ chan'[c] = "unheard"
  BY DEF DropReceiver, TypeOK
<1>4. ASSUME NEW c \in Blocks PROVE InvChannel!(c)'
  <2>1. c < N => c + 1 \in Blocks
    OBVIOUS
  <2> QED
    BY <1>2, <1>3, <2>1 DEF Links, InvChannel
<1>5. ASSUME NEW c \in Blocks, c > 1 PROVE InvReceived!(c)!2'
  <2>1. ~TestOnly => chan' = chan
    BY ModesAssumption
  <2>2. c - 1 \in Blocks /\ \A a \in 1 .. c - 1 : a \in Blocks
    BY <1>5
  <2>3. ~TestOnly /\ AfterPrevious(c)' => AfterPrevious(c)
    <3>1. CASE c = b
      BY <3>1, <1>5 DEF AfterPrevious, TypeOK, PC
    <3>2. CASE c # b
      BY <3>2 DEF AfterPrevious, TypeOK
    <3> QED
      BY <3>1, <3>2
  <2> QED
    BY <1>2, <1>3, <1>5, <2>1, <2>2, <2>3 DEF Links, InvReceived
<1> QED
  BY <1>1, <1>4, <1>5 DEF Links, InvChannel, InvReceived

LEMMA ReceiveKeepsLinks ==
  ASSUME TypeOK, Links, NEW b \in Blocks, ReceivePrevious(b)
  PROVE  Links'
<1> USE NAssumption DEF Blocks
<1>0. pc[b] = "prev"
  BY DEF ReceivePrevious
<1>1. CASE b = 1 /\ pc' = [pc EXCEPT ![b] = "block"] /\ UNCHANGED <<err, chan>>
  BY <1>0, <1>1, AdvanceKeepsLinks DEF PC
<1>2. CASE b > 1 /\ chan[b - 1] = "closed" /\ Fail(b, "recv")
  <2>1. "recv" \in Errors
    BY DEF Errors
  <2> QED
    BY <1>0, <1>2, <2>1, FailKeepsLinks
<1>3. CASE /\ b > 1 /\ chan[b - 1] = "sent"
           /\ pc'   = [pc EXCEPT ![b] = "block"]
           /\ chan' = [chan EXCEPT ![b - 1] = "received"]
           /\ err'  = err
  <2>1. pc[b - 1] = "ok" /\ AfterPrevious(b - 1)
    BY <1>3 DEF Links, InvChannel, AfterPrevious
  <2>2. ~TestOnly => \A a \in 1 .. b - 2 : chan[a] = "received"
    BY <1>3, <2>1 DEF Links, InvReceived
  <2>3. InvError'
    BY <1>0, <1>3 DEF Links, InvError, TypeOK
  <2>4. ASSUME NEW c \in Blocks PROVE InvChannel!(c)'
    BY <1>0, <1>3, <2>1 DEF Links, InvChannel, InvError, TypeOK
  <2>5. ASSUME NEW c \in Blocks, c > 1 PROVE InvReceived!(c)!2'
    <3>1. CASE c = b
      BY <1>0, <1>3, <2>2, <3>1 DEF Links, InvError, TypeOK
    <3>2. CASE c # b
      BY <1>0, <1>3, <2>5, <3>2 DEF Links, InvReceived, InvChannel, AfterPrevious, TypeOK
    <3> QED
      BY <3>1, <3>2
  <2> QED
    BY <2>3, <2>4, <2>5 DEF Links, InvChannel, InvReceived
<1> QED
  BY <1>1, <1>2, <1>3 DEF ReceivePrevious

-------------------------------------------------------------------------------
(* Inv is inductive. *)

LEMMA InitInv == Init => Inv
  BY NAssumption DEF Init, Inv, Links, InvError, InvChannel, InvReceived, InvProof, InvFile,
     AfterPrevious, TypeOK, PC, Errors, TaskErrors, EarlyErrors, LateErrors, ChanState, FileState

(* A proof just generated is kept, and the future goes on to write it or   *)
(* to send it.                                                             *)
LEMMA ProvedKeepsInv ==
  ASSUME Inv, TypeOK', NEW b \in Blocks, NEW p \in Proof, Proved(b, p),
         \/ pc[b] = "block"
         \/ TestOnly /\ pc[b] = "txns"
  PROVE  Inv'
<1> USE DEF Inv
<1>1. ~TestOnly => AfterPrevious(b)
  BY DEF AfterPrevious
<1>2. Links'
  <2>1. CASE Fail(b, "serialize")
    BY <1>1, <2>1, FailKeepsLinks DEF Errors, TaskErrors, LateErrors
  <2>2. CASE /\ pc'   = [pc EXCEPT ![b] = "mkdir"]
             /\ chan' = DropReceiver(b)
             /\ UNCHANGED err
    <3>1. ~TestOnly => DropReceiver(b) = chan
      BY <1>1, NAssumption DEF DropReceiver, Links, InvReceived, TypeOK, Blocks
    <3>2. chan' = chan \/ (TestOnly /\ chan' = DropReceiver(b))
      BY <2>2, <3>1, ModesAssumption
    <3>3. TestOnly \/ AfterPrevious(b)
      BY <1>1, ModesAssumption
    <3> QED
      BY <2>2, <3>2, <3>3, AdvanceKeepsLinks DEF PC
  <2>3. CASE Send(b)
    BY <1>1, <2>3, SendKeepsLinks
  <2> QED
    BY <2>1, <2>2, <2>3 DEF Proved
<1>3. /\ pc' \in {[pc EXCEPT ![b] = s] : s \in {"mkdir", "ok", "err"}}
      /\ pc'[b] = "mkdir" => OutputDir
      /\ pc'[b] = "ok" => ~OutputDir
      /\ pc'[b] = "err" => err'[b] \in {"serialize", "send"}
      /\ \A c \in Blocks \ {b} : err'[c] = err[c]
  BY DEF Proved, Send, Fail, TypeOK
<1>4. InvProof'
  BY <1>3, NoProofAssumption DEF Proved, InvProof, TypeOK
<1>5. InvFile'
  BY <1>3, <1>4 DEF Proved, InvFile, AfterPrevious, TypeOK, LateErrors
<1> QED
  BY <1>2, <1>4, <1>5

(* A future that fails at its own work, without a new proof or file. *)
LEMMA FailKeepsInv ==
  ASSUME Inv, TypeOK', NEW b \in Blocks, NEW e \in Errors \ {"send"}, Fail(b, e),
         UNCHANGED <<proof, file>>,
         pc[b] \notin {"ok", "err"},
         e = "recv" => b > 1 /\ chan[b - 1] = "closed",
         e \notin EarlyErrors \cup {"recv"} => TestOnly \/ AfterPrevious(b),
         AfterPrevious(b) => e \in LateErrors
  PROVE  Inv'
<1> USE DEF Inv
<1>1. Links'
  BY FailKeepsLinks, ModesAssumption
<1>2. pc' = [pc EXCEPT ![b] = "err"] /\ err' = [err EXCEPT ![b] = e]
  BY DEF Fail
<1>3. InvProof'
  BY <1>2 DEF InvProof, TypeOK
<1>4. InvFile'
  BY <1>2 DEF InvFile, AfterPrevious, TypeOK
<1> QED
  BY <1>1, <1>3, <1>4

(* Every action of a future keeps Inv. *)
LEMMA StepKeepsInv ==
  ASSUME Inv, TypeOK', NEW b \in Blocks, Step(b)
  PROVE  Inv'
<1> USE DEF Inv
<1> USE DEF Errors, TaskErrors, EarlyErrors, LateErrors
<1>a. pc[b] \notin {"ok", "err"} => err[b] = "none"
  BY DEF Links, InvError
<1>1. CASE GenerateIr(b)
  <2>1. ASSUME NEW e \in {"ir", "panic"}, Fail(b, e) PROVE Inv'
    BY <1>1, <2>1, <1>a, FailKeepsInv DEF GenerateIr, AfterPrevious
  <2>2. CASE pc' = [pc EXCEPT ![b] = "txns"] /\ UNCHANGED <<err, chan>>
    <3>1. Links'
      BY <1>1, <2>2, AdvanceKeepsLinks DEF GenerateIr, PC
    <3>2. InvProof' /\ InvFile'
      BY <1>1, <2>2 DEF GenerateIr, InvProof, InvFile, AfterPrevious, TypeOK
    <3> QED
      BY <3>1, <3>2
  <2> QED
    BY <1>1, <2>1, <2>2 DEF GenerateIr
<1>2. CASE AggregateDone(b)
  <2>1. ASSUME NEW e \in {"txns", "not_agg", "overflow"}, Fail(b, e) PROVE Inv'
    BY <1>2, <2>1, <1>a, FailKeepsInv DEF AggregateDone, AfterPrevious
  <2>2. CASE /\ pc' = [pc EXCEPT ![b] = IF b = 1 /\ Previous = NoProof THEN "block" ELSE "prev"]
             /\ UNCHANGED <<err, chan>>
    <3>1. Links'
      <4>1. CASE b = 1 /\ Previous = NoProof
        BY <1>2, <2>2, <4>1, AdvanceKeepsLinks DEF AggregateDone, PC
      <4>2. CASE ~(b = 1 /\ Previous = NoProof)
        BY <1>2, <2>2, <4>2, AdvanceKeepsLinks DEF AggregateDone, PC
      <4> QED
        BY <4>1, <4>2
    <3>2. InvProof' /\ InvFile'
      BY <1>2, <2>2 DEF AggregateDone, InvProof, InvFile, AfterPrevious, TypeOK
    <3> QED
      BY <3>1, <3>2
  <2> QED
    BY <1>2, <2>1, <2>2 DEF AggregateDone
<1>3. CASE ReceivePrevious(b)
  <2>1. Links'
    BY <1>3, ReceiveKeepsLinks
  <2>2. /\ pc[b] = "prev" /\ UNCHANGED <<proof, file>>
        /\ \/ pc' = [pc EXCEPT ![b] = "block"] /\ err' = err
           \/ pc' = [pc EXCEPT ![b] = "err"] /\ err' = [err EXCEPT ![b] = "recv"]
    BY <1>3 DEF ReceivePrevious, Fail
  <2>3. InvProof' /\ InvFile'
    BY <2>2, <1>a DEF InvProof, InvFile, AfterPrevious, TypeOK
  <2> QED
    BY <2>1, <2>3
<1>4. CASE BlockDone(b)
  <2>1. CASE Fail(b, "block") /\ UNCHANGED <<proof, file>>
    BY <1>4, <2>1, FailKeepsInv DEF BlockDone, AfterPrevious
  <2>2. CASE Proved(b, BlockProofOf(PreviousOf(proof, b), Heights[b]))
    <3>1. BlockProofOf(PreviousOf(proof, b), Heights[b]) \in Proof
      BY BlockProofTyped
    <3> QED
      BY <1>4, <2>2, <3>1, ProvedKeepsInv DEF BlockDone
  <2> QED
    BY <1>4, <2>1, <2>2 DEF BlockDone
<1>5. CASE SimulationDone(b)
  <2>1. ASSUME NEW e \in {"txns", "dummy", "panic"}, Fail(b, e), UNCHANGED <<proof, file>>
        PROVE  Inv'
    BY <1>5, <2>1, <1>a, FailKeepsInv DEF SimulationDone, AfterPrevious
  <2>2. CASE Proved(b, BlockProofOf(NoProof, Heights[b]))
    <3>1. BlockProofOf(NoProof, Heights[b]) \in Proof
      BY BlockProofTyped
    <3> QED
      BY <1>5, <2>2, <3>1, ProvedKeepsInv DEF SimulationDone
  <2> QED
    BY <1>5, <2>1, <2>2 DEF SimulationDone
<1>6. CASE MakeDir(b)
  <2>1. CASE Fail(b, "mkdir")
    BY <1>6, <2>1, FailKeepsInv DEF MakeDir, AfterPrevious
  <2>2. CASE pc' = [pc EXCEPT ![b] = "create"] /\ UNCHANGED <<err, chan>>
    <3>1. Links'
      BY <1>6, <2>2, AdvanceKeepsLinks DEF MakeDir, PC, AfterPrevious
    <3>2. InvProof' /\ InvFile'
      BY <1>6, <2>2 DEF MakeDir, InvProof, InvFile, AfterPrevious, TypeOK
    <3> QED
      BY <3>1, <3>2
  <2> QED
    BY <1>6, <2>1, <2>2 DEF MakeDir
<1>7. CASE CreateFile(b)
  <2>1. CASE Fail(b, "create") /\ UNCHANGED file
    BY <1>7, <2>1, FailKeepsInv DEF CreateFile, AfterPrevious
  <2>2. CASE /\ pc'   = [pc EXCEPT ![b] = "write"]
             /\ file' = [file EXCEPT ![b] = "empty"]
             /\ UNCHANGED <<err, chan>>
    <3>1. Links'
      BY <1>7, <2>2, AdvanceKeepsLinks DEF CreateFile, PC, AfterPrevious
    <3>2. InvProof' /\ InvFile'
      BY <1>7, <2>2 DEF CreateFile, InvProof, InvFile, AfterPrevious, TypeOK
    <3> QED
      BY <3>1, <3>2
  <2> QED
    BY <1>7, <2>1, <2>2 DEF CreateFile
<1>8. CASE WriteAll(b)
  <2>1. CASE Fail(b, "write") /\ UNCHANGED file
    BY <1>8, <2>1, FailKeepsInv DEF WriteAll, AfterPrevious
  <2>2. CASE file' = [file EXCEPT ![b] = "queued"] /\ Send(b)
    <3>1. Links'
      BY <1>8, <2>2, SendKeepsLinks DEF WriteAll, AfterPrevious
    <3>2. /\ pc' \in {[pc EXCEPT ![b] = s] : s \in {"ok", "err"}}
          /\ pc'[b] = "err" => err'[b] = "send"
          /\ \A c \in Blocks \ {b} : err'[c] = err[c]
      BY <2>2 DEF Send, Fail, TypeOK
    <3>3. pc[b] = "write" /\ UNCHANGED proof
      BY <1>8 DEF WriteAll
    <3>4. InvProof' /\ InvFile'
      BY <2>2, <3>2, <3>3 DEF InvProof, InvFile, AfterPrevious, Stored, TypeOK
    <3> QED
      BY <3>1, <3>4
  <2> QED
    BY <1>8, <2>1, <2>2 DEF WriteAll
<1> QED
  BY <1>1, <1>2, <1>3, <1>4, <1>5, <1>6, <1>7, <1>8 DEF Step

LEMMA NextKeepsInv ==
  ASSUME Inv, TypeOK', [Next]_vars
  PROVE  Inv'
<1>1. CASE UNCHANGED vars
  BY <1>1 DEF vars, Inv, Links, InvError, InvChannel, InvReceived, InvProof, InvFile,
     AfterPrevious
<1>2. CASE Returned
  BY <1>1, <1>2 DEF Returned
<1>3. ASSUME NEW b \in Blocks, BackgroundWrite(b) PROVE Inv'
  <2>1. Links' /\ InvProof'
    BY <1>3 DEF BackgroundWrite, Inv, Links, InvError, InvChannel, InvReceived, InvProof,
       AfterPrevious
  <2>2. InvFile'
    BY <1>3 DEF BackgroundWrite, Inv, InvFile, AfterPrevious, Stored, TypeOK
  <2> QED
    BY <2>1, <2>2 DEF Inv
<1>4. ASSUME NEW b \in Blocks, Step(b) PROVE Inv'
  BY <1>4, StepKeepsInv
<1> QED
  BY <1>1, <1>2, <1>3, <1>4 DEF Next

THEOREM Invariance == Spec => []Inv
<1>1. Spec => []TypeOK
  BY TypeCorrect
<1>2. Init => Inv
  BY InitInv
<1>3. Inv /\ TypeOK' /\ [Next]_vars => Inv'
  BY NextKeepsInv
<1> QED
  BY <1>1, <1>2, <1>3, PTL DEF Spec

-------------------------------------------------------------------------------
(* What Inv implies. *)

(* The first error is not that of a block that waited for a failed one. *)
LEMMA FirstIsNoRecv ==
  ASSUME Inv, NEW b \in Blocks, FirstError(b)
  PROVE  err[b] \in Errors /\ err[b] # "recv"
<1> USE DEF Inv, Links
<1>1. err[b] \in Errors
  BY DEF FirstError, InvError, TypeOK
<1>2. ASSUME err[b] = "recv" PROVE FALSE
  <2>1. b > 1 /\ b - 1 \in Blocks /\ pc[b - 1] = "ok"
    BY <1>2, NAssumption DEF FirstError, InvError, Blocks
  <2>2. chan[b - 1] = "closed"
    BY <1>2, <2>1 DEF InvReceived
  <2> QED
    BY <2>1, <2>2 DEF InvChannel
<1> QED
  BY <1>1, <1>2

(* In the normal build the error prove() returns is never a consequence of *)
(* another block's failure that it hides: it is that failure, or the       *)
(* "Failed to send proof" of the block just before it.                     *)
THEOREM RootCause == ~TestOnly => (Spec => []ErrorHasRootCause)
<1> SUFFICES ASSUME ~TestOnly PROVE Spec => []ErrorHasRootCause
  OBVIOUS
<1>1. Inv => ErrorHasRootCause
  <2> SUFFICES ASSUME Inv, NEW b \in Blocks, FirstError(b)
               PROVE  \/ err[b] \in TaskErrors
                      \/ err[b] = "send" /\ b < N /\ err[b + 1] \in EarlyErrors
    BY DEF ErrorHasRootCause
  <2> USE DEF Inv, Links
  <2>1. err[b] \in Errors /\ err[b] # "recv"
    BY FirstIsNoRecv
  <2>2. err[b] = "send" => b < N /\ err[b + 1] \in EarlyErrors
    BY DEF InvChannel
  <2> QED
    BY <2>1, <2>2 DEF Errors
<1> QED
  BY <1>1, Invariance, PTL

(* In the normal build prove() fails, or panics, only if the work of some  *)
(* block failed.                                                           *)
OnlyRealFailures ==
  Outcome \in {"err", "panic"} => \E b \in Blocks : err[b] \in TaskErrors

LEMMA RootsAreReal == ErrorHasRootCause => OnlyRealFailures
<1> USE DEF TaskErrors, EarlyErrors
<1>1. ASSUME ErrorHasRootCause, Outcome = "err"
      PROVE  \E b \in Blocks : err[b] \in TaskErrors
  <2>1. PICK b \in Blocks : FirstError(b)
    BY <1>1 DEF Outcome
  <2>2. b < N => b + 1 \in Blocks
    BY NAssumption DEF Blocks
  <2> QED
    BY <1>1, <2>1, <2>2 DEF ErrorHasRootCause
<1>2. ASSUME Outcome = "panic" PROVE \E b \in Blocks : err[b] \in TaskErrors
  BY <1>2 DEF Outcome
<1> QED
  BY <1>1, <1>2 DEF OnlyRealFailures

(* A channel loses its receiver only when the successor has got past its   *)
(* transactions: to be simulated, to be proved, or to fail.                *)
NotReached == {"ir", "txns"}

Overtaken ==
  \A b \in Blocks : chan[b] = "unheard" => b < N /\ pc[b + 1] \notin NotReached

(* A step moves one future, never back to its transactions, and cuts off   *)
(* at most the channel it receives from.                                   *)
Moves(b) ==
  /\ \A c \in Blocks : c # b => pc'[c] = pc[c]
  /\ pc'[b] \in NotReached => pc[b] \in NotReached
  /\ \A c \in Blocks :
       chan'[c] = "unheard" => chan[c] = "unheard" \/ (c = b - 1 /\ pc'[b] \notin NotReached)

LEMMA StepMoves ==
  ASSUME TypeOK, NEW b \in Blocks, Step(b)
  PROVE  Moves(b)
<1> USE DEF TypeOK, NotReached
<1>1. ASSUME NEW e, Fail(b, e) PROVE Moves(b)
  BY <1>1 DEF Fail, Drop, DropReceiver, Moves
<1>2. ASSUME Send(b) PROVE Moves(b)
  BY <1>1, <1>2 DEF Send, DropReceiver, Moves
<1>3. ASSUME NEW p, Proved(b, p) PROVE Moves(b)
  <2>1. CASE /\ pc' = [pc EXCEPT ![b] = "mkdir"]
             /\ chan' = DropReceiver(b)
    BY <2>1 DEF DropReceiver, Moves
  <2> QED
    BY <1>1, <1>2, <1>3, <2>1 DEF Proved
<1>4. ASSUME NEW p \in PC, p \notin NotReached \/ pc[b] \in NotReached,
             pc' = [pc EXCEPT ![b] = p],
             \A c \in Blocks : chan'[c] = chan[c] \/ chan'[c] = "received"
      PROVE  Moves(b)
  BY <1>4 DEF Moves
<1> USE DEF PC
<1>5. CASE GenerateIr(b)
  BY <1>1, <1>4, <1>5 DEF GenerateIr
<1>6. CASE AggregateDone(b)
  BY <1>1, <1>4, <1>6 DEF AggregateDone
<1>7. CASE ReceivePrevious(b)
  BY <1>1, <1>4, <1>7 DEF ReceivePrevious
<1>8. CASE BlockDone(b)
  BY <1>1, <1>3, <1>8 DEF BlockDone
<1>9. CASE SimulationDone(b)
  BY <1>1, <1>3, <1>9 DEF SimulationDone
<1>10. CASE MakeDir(b)
  BY <1>1, <1>4, <1>10 DEF MakeDir
<1>11. CASE CreateFile(b)
  BY <1>1, <1>4, <1>11 DEF CreateFile
<1>12. CASE WriteAll(b)
  BY <1>1, <1>2, <1>12 DEF WriteAll
<1> QED
  BY <1>5, <1>6, <1>7, <1>8, <1>9, <1>10, <1>11, <1>12 DEF Step

(* In the test_only build, too, the error is a failure of the block's own  *)
(* work, or "Failed to send proof" because the next block was faster: it   *)
(* is never the RecvError of a block that waited for a failed one.         *)
THEOREM NamesFirstFailure == Spec => []FailedOrOvertaken
<1>1. Init => Overtaken
  BY DEF Init, Overtaken
<1>2. TypeOK /\ Overtaken /\ [Next]_vars => Overtaken'
  <2> SUFFICES ASSUME TypeOK, Overtaken, [Next]_vars PROVE Overtaken'
    OBVIOUS
  <2>1. CASE UNCHANGED <<pc, chan>>
    BY <2>1 DEF Overtaken
  <2>2. ASSUME NEW a \in Blocks, Step(a) PROVE Overtaken'
    <3>1. Moves(a)
      BY <2>2, StepMoves
    <3> SUFFICES ASSUME NEW b \in Blocks, chan'[b] = "unheard"
                 PROVE  b < N /\ pc'[b + 1] \notin NotReached
      BY DEF Overtaken
    <3>2. CASE chan[b] = "unheard"
      <4>1. b < N /\ b + 1 \in Blocks /\ pc[b + 1] \notin NotReached
        BY <3>2, NAssumption DEF Overtaken, Blocks
      <4> QED
        BY <3>1, <4>1 DEF Moves
    <3>3. CASE b = a - 1 /\ pc'[a] \notin NotReached
      BY <3>3, NAssumption DEF Blocks
    <3> QED
      BY <3>1, <3>2, <3>3 DEF Moves
  <2> QED
    BY <2>1, <2>2 DEF Next, vars, Returned, BackgroundWrite
<1>3. Inv /\ Overtaken => FailedOrOvertaken
  <2> SUFFICES ASSUME Inv, Overtaken, NEW b \in Blocks, FirstError(b)
               PROVE  \/ err[b] \in TaskErrors
                      \/ err[b] = "send" /\ b < N /\ pc[b + 1] \notin {"ir", "txns"}
    BY DEF FailedOrOvertaken
  <2> USE DEF Inv, Links
  <2>1. err[b] \in Errors /\ err[b] # "recv"
    BY FirstIsNoRecv
  <2>2. err[b] = "send" => b < N /\ pc[b + 1] \notin {"ir", "txns"}
    BY DEF InvChannel, Overtaken, NotReached
  <2> QED
    BY <2>1, <2>2 DEF Errors
<1> QED
  BY <1>1, <1>2, <1>3, TypeCorrect, Invariance, PTL DEF Spec

(* prove() returns Ok only with every block proved and saved. *)
THEOREM OkIsComplete == Spec => []OkMeansAllProved
<1>1. Inv => OkMeansAllProved
  <2> SUFFICES ASSUME Inv, Outcome = "ok", NEW b \in Blocks
               PROVE  proof[b] # NoProof /\ (OutputDir => file[b] \in Stored)
    BY DEF OkMeansAllProved
  <2>1. pc[b] = "ok"
    BY DEF Outcome
  <2> QED
    BY <2>1 DEF Inv, InvProof, InvFile
<1> QED
  BY <1>1, Invariance, PTL

(* In the normal build the proof files on disk are those of the first      *)
(* blocks of the input.                                                    *)
THEOREM FilesArePrefix == ~TestOnly => (Spec => []FilesFormPrefix)
<1> SUFFICES ASSUME ~TestOnly PROVE Spec => []FilesFormPrefix
  OBVIOUS
<1>1. Inv => FilesFormPrefix
  <2> SUFFICES ASSUME Inv, NEW b \in Blocks, file[b] # "absent", NEW a \in 1 .. b - 1
               PROVE  file[a] \in Stored
    BY DEF FilesFormPrefix
  <2>1. AfterPrevious(b) /\ OutputDir
    BY DEF Inv, InvFile
  <2>2. a \in Blocks /\ chan[a] = "received"
    BY <2>1, NAssumption DEF Inv, Links, InvReceived, Blocks
  <2>3. pc[a] = "ok"
    BY <2>2 DEF Inv, Links, InvChannel
  <2> QED
    BY <2>1, <2>2, <2>3 DEF Inv, InvFile
<1> QED
  BY <1>1, Invariance, PTL

-------------------------------------------------------------------------------
(* The proof of one block. *)
Covers(b) ==
  /\ proof[b].height = Heights[b]
  /\ proof[b].first = IF Previous = NoProof THEN Heights[1] ELSE Previous.first
  /\ Previous # NoProof => Heights[1] = Previous.height + 1
  /\ \A a \in 2 .. b : Heights[a] = Heights[a - 1] + 1

(* What the block proof extends, in the normal build: the given proof or   *)
(* the predecessor's, which exists.                                        *)
LEMMA PreviousReady ==
  ASSUME Inv, ~TestOnly, NEW b \in Blocks, pc[b] = "block", b > 1
  PROVE  b - 1 \in Blocks /\ proof[b - 1] # NoProof
<1>1. b - 1 \in Blocks /\ chan[b - 1] = "received"
  BY NAssumption DEF Inv, Links, InvReceived, AfterPrevious, Blocks
<1> QED
  BY <1>1 DEF Inv, Links, InvChannel, InvProof

(* A step of the normal build generates at most one proof, on top of the   *)
(* previous one, and records at most one error.                            *)
StepProves(b) ==
  /\ pc[b] = "block"
  /\ Extends(PreviousOf(proof, b), Heights[b])
  /\ proof' = [proof EXCEPT ![b] = BlockProofOf(PreviousOf(proof, b), Heights[b])]

LEMMA OneProofAStep ==
  ASSUME ~TestOnly, NEW b \in Blocks, Step(b)
  PROVE  UNCHANGED proof \/ StepProves(b)
  BY DEF Step, GenerateIr, AggregateDone, ReceivePrevious, BlockDone, SimulationDone,
     MakeDir, CreateFile, WriteAll, Proved, StepProves

LEMMA OneErrorAStep ==
  ASSUME ~TestOnly, NEW b \in Blocks, Step(b)
  PROVE  /\ pc[b] \notin {"ok", "err"}
         /\ \/ UNCHANGED err
            \/ \E e \in Errors : err' = [err EXCEPT ![b] = e]
<1> USE DEF Fail, Send, Errors, TaskErrors, EarlyErrors, LateErrors
<1>1. CASE GenerateIr(b) \/ AggregateDone(b) \/ ReceivePrevious(b)
  BY <1>1 DEF GenerateIr, AggregateDone, ReceivePrevious
<1>2. CASE BlockDone(b)
  BY <1>2 DEF BlockDone, Proved
<1>3. CASE MakeDir(b) \/ CreateFile(b) \/ WriteAll(b)
  BY <1>3 DEF MakeDir, CreateFile, WriteAll
<1> QED
  BY <1>1, <1>2, <1>3 DEF Step, SimulationDone

(* In the normal build every proof covers the whole sequence of blocks     *)
(* before it, whatever the order in which the blocks race.                 *)
THEOREM Coverage == ~TestOnly => (Spec => []ProofsCoverSequence)
<1> SUFFICES ASSUME ~TestOnly PROVE Spec => []ProofsCoverSequence
  OBVIOUS
<1>1. Init => ProofsCoverSequence
  BY DEF Init, ProofsCoverSequence
<1>2. Inv /\ ProofsCoverSequence /\ [Next]_vars => ProofsCoverSequence'
  <2> SUFFICES ASSUME Inv, ProofsCoverSequence, [Next]_vars, ~UNCHANGED proof
               PROVE  ProofsCoverSequence'
    BY DEF ProofsCoverSequence
  <2> USE DEF Inv
  <2>1. PICK b \in Blocks :
          /\ pc[b] = "block"
          /\ Extends(PreviousOf(proof, b), Heights[b])
          /\ proof' = [proof EXCEPT ![b] = BlockProofOf(PreviousOf(proof, b), Heights[b])]
    BY OneProofAStep DEF StepProves, Next, vars, Returned, BackgroundWrite
  <2>2. \A c \in Blocks \ {b} : proof'[c] = proof[c]
    BY <2>1 DEF TypeOK
  <2>3. proof'[b] = BlockProofOf(PreviousOf(proof, b), Heights[b])
    BY <2>1 DEF TypeOK
  <2>4. Covers(b)'
    <3>1. CASE b = 1
      BY <2>1, <2>3, <3>1 DEF Covers, Extends, BlockProofOf, PreviousOf
    <3>2. CASE b > 1
      <4>1. b - 1 \in Blocks /\ proof[b - 1] # NoProof
        BY <2>1, <3>2, PreviousReady
      <4>2. Covers(b - 1)
        BY <4>1 DEF ProofsCoverSequence, Covers
      <4>3. PreviousOf(proof, b) = proof[b - 1]
        BY <3>2 DEF PreviousOf
      <4>4. Heights[b] = Heights[b - 1] + 1
        BY <2>1, <4>1, <4>2, <4>3 DEF Extends, Covers
      <4>5. \A a \in 2 .. b : a = b \/ a \in 2 .. b - 1
        BY NAssumption DEF Blocks
      <4> QED
        BY <2>3, <4>1, <4>2, <4>3, <4>4, <4>5 DEF Covers, BlockProofOf
    <3> QED
      BY <3>1, <3>2, NAssumption DEF Blocks
  <2> QED
    BY <2>2, <2>4 DEF ProofsCoverSequence, Covers
<1> QED
  BY <1>1, <1>2, Invariance, PTL DEF Spec

-------------------------------------------------------------------------------
(* The normal build implements ProofChain: its initial state is one of     *)
(* ProofChain's, and each step is a step of ProofChain or a stutter.       *)
THEOREM Implements == ~TestOnly => (Spec => Chain!Init /\ [][Chain!Next]_(Chain!vars))
<1> SUFFICES ASSUME ~TestOnly PROVE Spec => Chain!Init /\ [][Chain!Next]_(Chain!vars)
  OBVIOUS
<1> DEFINE Faulty == {b \in Blocks : err[b] \in TaskErrors}
<1>1. Init => Chain!Init
  <2> SUFFICES ASSUME Init PROVE Chain!Init
    OBVIOUS
  <2>1. Faulty = {}
    BY DEF Init, TaskErrors, EarlyErrors, LateErrors
  <2>2. Outcome = IF N = 0 THEN "ok" ELSE "running"
    <3>1. CASE N = 0
      BY <3>1 DEF Init, Outcome, Blocks
    <3>2. CASE N # 0
      BY <3>2, NAssumption DEF Init, Outcome, FirstError, Blocks
    <3> QED
      BY <3>1, <3>2
  <2> QED
    BY <2>1, <2>2 DEF Init, Chain!Init, Chain!Blocks, Blocks
<1>2. /\ Inv /\ Inv' /\ [Next]_vars
      /\ OnlyRealFailures' /\ OkMeansAllProved'
      => [Chain!Next]_(Chain!vars)
  <2> SUFFICES ASSUME Inv, Inv', [Next]_vars, OnlyRealFailures', OkMeansAllProved'
               PROVE  [Chain!Next]_(Chain!vars)
    OBVIOUS
  <2>1. CASE UNCHANGED <<proof, err, pc>>
    BY <2>1 DEF Chain!vars, Outcome, FirstError
  <2>2. ASSUME NEW b \in Blocks, Outcome = "running", Step(b)
        PROVE  Chain!Next
    <3>1. Chain!Return
      <4>1. Outcome' \in {"running", "ok", "err", "panic"}
        BY DEF Outcome
      <4> QED
        BY <4>1 DEF Chain!Return, OnlyRealFailures, OkMeansAllProved, Chain!Blocks, Blocks
    <3>2. \/ Faulty' = Faulty
          \/ Faulty' = Faulty \cup {b}
      <4>1. err[b] = "none"
        BY <2>2, OneErrorAStep DEF Inv, Links, InvError
      <4>2. "none" \notin TaskErrors
        BY DEF TaskErrors, EarlyErrors, LateErrors
      <4> QED
        BY <2>2, <4>1, <4>2, OneErrorAStep DEF Inv, TypeOK
    <3>3. CASE UNCHANGED proof
      BY <2>2, <3>1, <3>2, <3>3 DEF Chain!Next, Chain!TaskFails, Chain!ReturnOnly, Chain!Blocks, Blocks
    <3>4. CASE ~UNCHANGED proof
      <4>1. StepProves(b)
        BY <2>2, <3>4, OneProofAStep
      <4>2. proof[b] = NoProof
        BY <4>1 DEF Inv, InvProof, StepProves
      <4>3. b > 1 => proof[b - 1] # NoProof
        BY <4>1, PreviousReady DEF StepProves
      <4>4. Chain!Prove(b)
        BY <3>2, <4>1, <4>2, <4>3 DEF Chain!Prove, StepProves, Chain!Extends, Chain!PreviousOf,
           Chain!BlockProofOf, Extends, PreviousOf, BlockProofOf
      <4> QED
        BY <2>2, <3>1, <4>4 DEF Chain!Next, Chain!Blocks, Blocks
    <3> QED
      BY <3>3, <3>4
  <2> QED
    BY <2>1, <2>2 DEF Next, vars, Returned, BackgroundWrite
<1> QED
  BY <1>1, <1>2, Invariance, RootCause, RootsAreReal, OkIsComplete, PTL DEF Spec

-------------------------------------------------------------------------------
(* Nothing waits in vain: what is left of the liveness of a call when      *)
(* fairness is set aside.                                                  *)

(* What an await of block b waits for is at hand, or is answered whatever  *)
(* the others do.                                                          *)
CanStep(b) ==
  \/ pc[b] \in {"ir", "txns", "block", "mkdir", "create", "write"}
  \/ pc[b] = "prev" /\ (b = 1 \/ chan[b - 1] \in {"sent", "closed"})

SomeFutureCanStep == Outcome = "running" => \E b \in Blocks : CanStep(b)

(* CanStep is the guard of Step: a state after it is at hand.              *)
LEMMA CanStepSuffices ==
  ASSUME NEW b \in Blocks, CanStep(b), UNCHANGED <<proof, file>>,
         CASE pc[b] # "prev" -> Fail(b, pc[b])
           [] pc[b] = "prev" /\ b > 1 /\ chan[b - 1] = "closed" -> Fail(b, "recv")
           [] OTHER ->
                /\ pc' = [pc EXCEPT ![b] = "block"]
                /\ chan' = IF b = 1 THEN chan ELSE [chan EXCEPT ![b - 1] = "received"]
                /\ UNCHANGED err
  PROVE  Step(b)
<1>1. CASE pc[b] = "ir"
  BY <1>1 DEF Step, GenerateIr
<1>2. CASE pc[b] = "txns"
  BY <1>2, ModesAssumption DEF Step, AggregateDone, SimulationDone
<1>3. CASE pc[b] = "block"
  BY <1>3 DEF Step, BlockDone
<1>4. CASE pc[b] \in {"mkdir", "create", "write"}
  BY <1>4 DEF Step, MakeDir, CreateFile, WriteAll
<1>5. CASE pc[b] = "prev"
  <2>1. CASE b = 1
    BY <1>5, <2>1 DEF Step, ReceivePrevious
  <2>2. CASE b > 1 /\ chan[b - 1] = "closed"
    BY <1>5, <2>2 DEF Step, ReceivePrevious
  <2>3. CASE b > 1 /\ chan[b - 1] = "sent"
    BY <1>5, <2>3 DEF Step, ReceivePrevious
  <2> QED
    BY <1>5, <2>1, <2>2, <2>3 DEF CanStep, Blocks
<1> QED
  BY <1>1, <1>2, <1>3, <1>4, <1>5 DEF CanStep

(* A proof that was received is in the hands of the next block: no future  *)
(* waits on a channel that was emptied.                                    *)
Waiting == {"ir", "txns", "prev"}

Delivered == \A b \in Blocks : b > 1 /\ pc[b] \in Waiting => chan[b - 1] # "received"

(* A future only goes forward, through at most seven awaits.               *)
Order(s) ==
  CASE s = "ir" -> 0 [] s = "txns" -> 1 [] s = "prev" -> 2 [] s = "block" -> 3
    [] s = "mkdir" -> 4 [] s = "create" -> 5 [] s = "write" -> 6 [] OTHER -> 7

Forward(b) ==
  /\ \A c \in Blocks \ {b} : pc'[c] = pc[c]
  /\ Order(pc[b]) < Order(pc'[b])
  /\ \A c \in Blocks :
       chan'[c] = "received" => chan[c] = "received" \/ (c = b - 1 /\ pc'[b] \notin Waiting)

LEMMA StepGoesForward ==
  ASSUME TypeOK, NEW b \in Blocks, Step(b)
  PROVE  Forward(b)
<1> USE DEF TypeOK, Waiting
<1>1. ASSUME NEW e, Fail(b, e), pc[b] \notin {"ok", "err"} PROVE Forward(b)
  BY <1>1 DEF Fail, Drop, DropReceiver, Forward, Order, PC
<1>2. ASSUME Send(b), pc[b] \notin {"ok", "err"} PROVE Forward(b)
  <2>1. CASE Fail(b, "send")
    BY <1>1, <1>2, <2>1
  <2>2. CASE /\ pc' = [pc EXCEPT ![b] = "ok"]
             /\ chan' = [DropReceiver(b) EXCEPT ![b] = "sent"]
    <3>1. Order(pc[b]) < Order(pc'[b])
      BY <1>2, <2>2 DEF Order, PC
    <3>2. \A c \in Blocks : chan'[c] = "received" => chan[c] = "received"
      BY <2>2 DEF DropReceiver
    <3> QED
      BY <2>2, <3>1, <3>2 DEF Forward
  <2> QED
    BY <1>2, <2>1, <2>2 DEF Send
<1>3. ASSUME NEW p, Proved(b, p), pc[b] \in {"txns", "block"} PROVE Forward(b)
  <2>1. CASE /\ pc' = [pc EXCEPT ![b] = "mkdir"]
             /\ chan' = DropReceiver(b)
    BY <1>3, <2>1 DEF DropReceiver, Forward, Order
  <2> QED
    BY <1>1, <1>2, <1>3, <2>1 DEF Proved
<1>4. ASSUME NEW p \in PC, Order(pc[b]) < Order(p),
             pc' = [pc EXCEPT ![b] = p],
             \A c \in Blocks : chan'[c] = chan[c] \/ (c = b - 1 /\ p = "block")
      PROVE  Forward(b)
  BY <1>4 DEF Forward
<1>5. CASE GenerateIr(b)
  BY <1>1, <1>4, <1>5 DEF GenerateIr, Order, PC
<1>6. CASE AggregateDone(b)
  BY <1>1, <1>4, <1>6 DEF AggregateDone, Order, PC
<1>7. CASE ReceivePrevious(b)
  BY <1>1, <1>4, <1>7 DEF ReceivePrevious, Order, PC
<1>8. CASE BlockDone(b)
  BY <1>1, <1>3, <1>8 DEF BlockDone
<1>9. CASE SimulationDone(b)
  BY <1>1, <1>3, <1>9 DEF SimulationDone
<1>10. CASE MakeDir(b)
  BY <1>1, <1>4, <1>10 DEF MakeDir, Order, PC
<1>11. CASE CreateFile(b)
  BY <1>1, <1>4, <1>11 DEF CreateFile, Order, PC
<1>12. CASE WriteAll(b)
  BY <1>1, <1>2, <1>12 DEF WriteAll
<1> QED
  BY <1>5, <1>6, <1>7, <1>8, <1>9, <1>10, <1>11, <1>12 DEF Step

(* The call ends after finitely many steps of its futures: each is a step  *)
(* forward of one of them, and none goes back.                             *)
THEOREM FuturesGoForward ==
  Spec => [][\/ \E b \in Blocks : Step(b) /\ Forward(b)
             \/ UNCHANGED <<pc, err, chan, proof>>]_vars
<1>1. TypeOK /\ [Next]_vars => [\/ \E b \in Blocks : Step(b) /\ Forward(b)
                                \/ UNCHANGED <<pc, err, chan, proof>>]_vars
  BY StepGoesForward DEF Next, vars, Returned, BackgroundWrite
<1> QED
  BY <1>1, TypeCorrect, PTL DEF Spec

LEMMA LeastBlock ==
  ASSUME NEW S \in SUBSET Blocks, S # {}
  PROVE  \E b \in S : \A a \in S : b <= a
<1> DEFINE R == OpToRel(<, Nat)
<1>0. Blocks \subseteq Nat
  BY NAssumption DEF Blocks
<1>1. IsWellFoundedOn(R, Nat)
  BY NatLessThanWellFounded
<1>2. \A a, b \in Nat : a < b => <<a, b>> \in R
  BY DEF OpToRel
<1> HIDE DEF R
<1>3. S \in SUBSET Nat
  BY <1>0
<1>4. PICK b \in S : \A a \in S : ~(<<a, b>> \in R)
  BY <1>1, <1>3, WFMin
<1>5. \A a \in S : ~(a < b)
  BY <1>2, <1>3, <1>4
<1> QED
  BY <1>3, <1>4, <1>5

(* While a call runs, one of its futures can go on: the first block that   *)
(* has not ended never waits for a neighbour that is gone, or for a proof  *)
(* that was taken (prover/src/lib.rs:157-176).                             *)
THEOREM NothingWaitsInVain == Spec => []SomeFutureCanStep
<1>1. Init => Delivered
  BY NAssumption DEF Init, Delivered, Blocks
<1>2. TypeOK /\ Delivered /\ [Next]_vars => Delivered'
  <2> SUFFICES ASSUME TypeOK, Delivered, Next, ~UNCHANGED <<pc, chan>>
               PROVE  Delivered'
    BY DEF Delivered, vars
  <2>1. PICK b \in Blocks : Step(b)
    BY DEF Next, vars, Returned, BackgroundWrite
  <2>2. Forward(b) /\ Moves(b)
    BY <2>1, StepGoesForward, StepMoves
  <2> SUFFICES ASSUME NEW c \in Blocks, c > 1, pc'[c] \in Waiting, chan'[c - 1] = "received"
               PROVE  FALSE
    BY DEF Delivered
  <2>3. c - 1 \in Blocks /\ (c - 1 = b - 1 => c = b)
    BY NAssumption DEF Blocks
  <2>4. chan[c - 1] = "received"
    BY <2>2, <2>3 DEF Forward
  <2>5. pc[c] \in Waiting
    <3>1. CASE c = b
      BY <2>2, <3>1 DEF Forward, Order, Waiting, TypeOK, PC
    <3> QED
      BY <2>2, <3>1 DEF Forward
  <2> QED
    BY <2>4, <2>5 DEF Delivered
<1>3. Inv /\ Delivered => SomeFutureCanStep
  <2> SUFFICES ASSUME Inv, Delivered, Outcome = "running" PROVE \E b \in Blocks : CanStep(b)
    BY DEF SomeFutureCanStep
  <2> DEFINE Left == {b \in Blocks : pc[b] # "ok"}
  <2>1. /\ Left # {}
        /\ \A b \in Blocks : ~FirstError(b)
    BY DEF Outcome
  <2>2. PICK b \in Left : \A a \in Left : b <= a
    BY <2>1, LeastBlock
  <2>3. b \in Blocks /\ pc[b] # "ok" /\ \A a \in 1 .. b - 1 : a \in Blocks /\ pc[a] = "ok"
    BY <2>2, NAssumption DEF Blocks
  <2>4. pc[b] \in PC /\ pc[b] # "err"
    BY <2>1, <2>3 DEF FirstError, Inv, TypeOK
  <2>5. CASE pc[b] = "prev" /\ b # 1
    <3>1. b - 1 \in 1 .. b - 1 /\ b > 1
      BY <2>3, <2>5, NAssumption DEF Blocks
    <3>2. chan[b - 1] \in {"sent", "received"}
      BY <2>3, <3>1 DEF Inv, Links, InvChannel
    <3>3. chan[b - 1] # "received"
      BY <2>3, <2>5, <3>1 DEF Delivered, Waiting
    <3> QED
      BY <2>3, <2>5, <3>2, <3>3 DEF CanStep
  <2> QED
    BY <2>3, <2>4, <2>5 DEF CanStep, PC
<1> QED
  BY <1>1, <1>2, <1>3, TypeCorrect, Invariance, PTL DEF Spec

===============================================================================
