-------------------------- MODULE BlockProver_proofs --------------------------
(***************************************************************************)
(* Proofs about BlockProver, for blocks of any size and any number of      *)
(* failures.                                                               *)
(***************************************************************************)
EXTENDS BlockProver, TLAPS

(* The operations on transactions and their aggregations; the stages of an *)
(* operation that has failed, and of one whose proof is still missing.     *)
SpanOps == TxnOps \cup AggOps
Sick    == Saving \cup {"failed"}
Active  == Sick \cup {"run"}

SomeSick == \E o \in Ops : stage[o] \in Sick

(* What the failed operations leave behind: a log, or one in the making. *)
Someone ==
  \/ \E l \in Logs : log[l] # {}
  \/ \E o \in Ops : stage[o] \in {"create", "write"}

(* The active operations and the proofs that wait cover different          *)
(* transactions of the block, so that nothing is proved twice, and a       *)
(* failed operation leaves a gap that no fold can cross.                   *)
Within ==
  /\ \A o \in SpanOps : stage[o] \in Active => o[3] <= n
  /\ \A p \in proofs : p[2] <= n

Apart ==
  /\ \A o, q \in SpanOps : o # q /\ stage[o] \in Active /\ stage[q] \in Active
                             => o[3] < q[1] \/ q[3] < o[1]
  /\ \A o \in SpanOps, p \in proofs : stage[o] \in Active => o[3] < p[1] \/ p[2] < o[1]
  /\ \A p, q \in proofs : p # q => p[2] < q[1] \/ q[2] < p[1]

(* Failures are counted, and each stays visible in the stage of its        *)
(* operation.                                                              *)
Counted == SomeSick <=> faults > 0

(* The block is proved from one proof of all its transactions; test_only   *)
(* stops at the transactions.                                              *)
Top ==
  /\ stage[BlockOp] # "idle" => ~testOnly /\ proofs = {<<1, n>>}
  /\ testOnly => \A o \in Ops \ Mine : stage[o] = "idle"

Outcome ==
  /\ result = "ok" => \/ stage[BlockOp] = "done"
                      \/ testOnly /\ \A o \in Mine : stage[o] = "done"
  /\ result = "err" => \E o \in Ops : stage[o] = "failed"

(* As long as no file operation fails, an operation goes to "failed" past  *)
(* a log of its own, or past a folder that another one has just created.   *)
Saved ==
  save /\ ioErrors = 0 =>
    /\ (\E o \in Ops : stage[o] = "failed") => Someone
    /\ folder /\ (\E o \in Ops : stage[o] = "mkdir") => Someone

(* A proof that waits, or is being combined, has the public values of what *)
(* it proves.                                                              *)
Good(s) == values[s] = <<s[1] - 1, s[2]>>

Linked ==
  /\ \A p \in proofs : Good(p)
  /\ \A o \in AggOps : stage[o] = "run" => Good(<<o[1], o[2]>>) /\ Good(<<o[2] + 1, o[3]>>)

BlockInv ==
  TypeOK /\ Within /\ Apart /\ Counted /\ Top /\ Outcome /\ Saved /\ Linked

-------------------------------------------------------------------------------
(* What an operation is made of. *)
LEMMA OpShape ==
  /\ \A o \in SpanOps : /\ o[1] \in Nat /\ o[2] \in Nat /\ o[3] \in Nat
                        /\ 1 <= o[1] /\ o[1] <= o[2] /\ o[2] <= o[3] /\ o[1] <= o[3] /\ o[3] <= T
                        /\ <<o[1], o[3]>> \in Spans
                        /\ o \in Ops /\ o # BlockOp
  /\ BlockOp \in Ops
  /\ \A o \in Ops : o = BlockOp \/ o \in SpanOps
<1> USE TAssumption
<1>1. \A o \in TxnOps : /\ o[1] \in Nat /\ o[2] \in Nat /\ o[3] \in Nat
                        /\ 1 <= o[1] /\ o[1] <= o[2] /\ o[2] <= o[3] /\ o[1] <= o[3] /\ o[3] <= T
  BY DEF TxnOps, TxnOp, Txns
<1>2. \A o \in AggOps : /\ o[1] \in Nat /\ o[2] \in Nat /\ o[3] \in Nat
                        /\ 1 <= o[1] /\ o[1] <= o[2] /\ o[2] <= o[3] /\ o[1] <= o[3] /\ o[3] <= T
  BY DEF AggOps, Txns
<1>3. \A o \in SpanOps : /\ o[1] \in Nat /\ o[2] \in Nat /\ o[3] \in Nat
                         /\ 1 <= o[1] /\ o[1] <= o[2] /\ o[2] <= o[3] /\ o[1] <= o[3] /\ o[3] <= T
  BY <1>1, <1>2 DEF SpanOps
<1>4. \A o \in SpanOps : <<o[1], o[3]>> \in Spans
  BY <1>3 DEF Spans, Txns
<1>5. \A o \in SpanOps : o # BlockOp
  BY <1>3 DEF BlockOp
<1> QED
  BY <1>3, <1>4, <1>5 DEF Ops, SpanOps

LEMMA MineAreOps == n \in Txns => Mine \subseteq TxnOps /\ \A o \in Mine : o[3] <= n
  BY TAssumption DEF Mine, TxnOps, TxnOp, Txns

LEMMA SpanShape ==
  \A p \in Spans : p[1] \in Nat /\ p[2] \in Nat /\ 1 <= p[1] /\ p[1] <= p[2] /\ p = <<p[1], p[2]>>
  BY TAssumption DEF Spans, Txns

(* The two proofs of an aggregation, and what comes of them. *)
LEMMA AggShape ==
  ASSUME NEW o \in AggOps
  PROVE  /\ o[1] \in Nat /\ o[2] \in Nat /\ o[3] \in Nat /\ o[1] <= o[2] /\ o[2] < o[3]
         /\ o \in SpanOps /\ o \in Ops
         /\ o \notin TxnOps
         /\ <<o[1], o[2]>> \in Spans /\ <<o[2] + 1, o[3]>> \in Spans
<1>1. /\ o[1] \in Nat /\ o[2] \in Nat /\ o[3] \in Nat /\ 1 <= o[1] /\ o[3] <= T
      /\ o[1] <= o[2] /\ o[2] < o[3]
  BY TAssumption DEF AggOps, Txns
<1>2. o \notin TxnOps
  BY <1>1 DEF TxnOps, TxnOp
<1>3. <<o[1], o[2]>> \in Spans /\ <<o[2] + 1, o[3]>> \in Spans
  BY <1>1, TAssumption DEF Spans, Txns
<1> QED
  BY <1>1, <1>2, <1>3 DEF SpanOps, Ops

LEMMA Joined ==
  ASSUME Linked, NEW o \in AggOps, stage[o] = "run"
  PROVE  Fits(o) /\ Made(o) = <<o[1] - 1, o[3]>>
<1> DEFINE a == <<o[1], o[2]>>
           b == <<o[2] + 1, o[3]>>
<1>1. o[1] \in Nat /\ o[2] \in Nat /\ o[3] \in Nat /\ o \notin TxnOps
  BY AggShape
<1>2. values[a] = <<o[1] - 1, o[2]>> /\ values[b] = <<(o[2] + 1) - 1, o[3]>>
  BY DEF Linked, Good
<1>3. Inputs(o) = <<values[a], values[b]>>
  BY DEF Inputs, Operands
<1> QED
  BY <1>1, <1>2, <1>3 DEF Fits, Made

(* combine never gets two proofs that do not fit, nor BlockProof one that  *)
(* is not that of the block.                                               *)
LEMMA AlwaysFeasible ==
  ASSUME BlockInv, NEW o \in Ops, stage[o] = "run"
  PROVE  Feasible(o)
<1>1. o \in AggOps => Fits(o)
  BY Joined DEF BlockInv
<1>2. ASSUME o = BlockOp PROVE Whole
  <2>1. <<1, n>> \in proofs
    BY <1>2 DEF BlockInv, Top
  <2> QED
    BY <2>1 DEF BlockInv, Linked, Good, Whole
<1> QED
  BY <1>1, <1>2 DEF Feasible

(* What an operation makes has the values of its span. *)
LEMMA MadeIsGood ==
  ASSUME Linked, NEW o \in SpanOps, stage[o] = "run"
  PROVE  /\ Made(o) = <<o[1] - 1, o[3]>>
         /\ Made(o) \in States \X States
<1>1. o[1] \in Nat /\ o[3] \in Nat /\ 1 <= o[1] /\ o[1] <= o[3] /\ o[3] <= T
  BY OpShape
<1>2. Made(o) = <<o[1] - 1, o[3]>>
  <2>1. CASE o \in TxnOps
    BY <2>1 DEF Made, TxnOps, TxnOp
  <2>2. CASE o \in AggOps
    BY <2>2, Joined
  <2> QED
    BY <2>1, <2>2 DEF SpanOps
<1> QED
  BY <1>1, <1>2, TAssumption DEF States

LEMMA LogsOfOps == \A o \in Ops : LogOf(o) \in Logs
  BY DEF Logs

LEMMA BlockInitially == ASSUME Init PROVE BlockInv
<1> USE TAssumption, BoundsAssumption
<1>1. TypeOK
  <2>1. stage \in [Ops -> Stages] /\ log \in [Logs -> SUBSET Ops]
    BY DEF Init, Stages
  <2>2. proofs \subseteq Spans /\ result \in {"running", "ok", "not_agg", "err"}
    BY DEF Init
  <2>4. values \in [Spans -> States \X States]
    BY DEF Init, States
  <2>3. faults \in 0 .. MaxFaults /\ ioErrors \in 0 .. MaxIoErrors
    BY DEF Init
  <2> QED
    BY <2>1, <2>2, <2>3, <2>4, Zenon DEF Init, TypeOK
<1>2. \A o \in Ops : stage[o] \in {"run", "idle"} /\ (stage[o] = "run" <=> o \in Mine)
  BY DEF Init
<1>3. Mine \subseteq SpanOps /\ \A o \in Mine : o[3] <= n
  BY MineAreOps DEF Init, SpanOps
<1>4. Within
  BY <1>2, <1>3, OpShape DEF Within, Active, Sick, Saving, Init
<1>5. Apart
  <2>1. \A o, q \in Mine : o # q => o[3] < q[1] \/ q[3] < o[1]
    BY DEF Mine, TxnOp, Init, Txns
  <2> QED
    BY <2>1, <1>2, OpShape DEF Apart, Active, Sick, Saving, Init
<1>6. Counted
  BY <1>2 DEF Counted, SomeSick, Sick, Saving, Init
<1>7. Top
  BY <1>2, <1>3, OpShape DEF Top
<1>8. Outcome /\ Saved
  BY <1>2 DEF Outcome, Saved, Init
<1>9. Linked
  <2>1. \A o \in AggOps : o \notin Mine /\ o \in Ops
    BY AggShape, MineAreOps DEF Init
  <2> QED
    BY <1>2, <2>1 DEF Linked, Init
<1> QED
  BY <1>1, <1>4, <1>5, <1>6, <1>7, <1>8, <1>9 DEF BlockInv

-------------------------------------------------------------------------------
(* Types are kept by every step. *)
LEMMA BlockTypeStep == ASSUME TypeOK, Linked, [Next]_vars PROVE TypeOK'
<1> USE TAssumption, BoundsAssumption
<1>1. n' \in Txns /\ testOnly' \in BOOLEAN /\ save' \in BOOLEAN
  BY Zenon DEF TypeOK, Next, Work, Succeed, FailOp, CheckFolder, CreateFolder, CreateLog,
     WriteLog, SaveFails, Combine, Folded, Return, call, vars
<1>2. ASSUME NEW o \in Ops, NEW s \in Stages, Goto(o, s) PROVE stage' \in [Ops -> Stages]
  BY <1>2 DEF Goto, TypeOK
<1>3. ASSUME NEW o \in Ops, Succeed(o) PROVE TypeOK'
  <2>1. proofs' \subseteq Spans
    BY <1>3, OpShape DEF Succeed, TypeOK
  <2>2. values' \in [Spans -> States \X States]
    <3>1. CASE o = BlockOp
      BY <1>3, <3>1 DEF Succeed, TypeOK
    <3>2. CASE o # BlockOp
      <4>1. Made(o) \in States \X States
        BY <1>3, <3>2, OpShape, MadeIsGood DEF Succeed
      <4> HIDE DEF Made, States, Spans
      <4> QED
        BY <1>3, <3>2, <4>1 DEF Succeed, TypeOK
    <3> QED
      BY <3>1, <3>2
  <2>3. stage' \in [Ops -> Stages]
    BY <1>2, <1>3 DEF Succeed, Stages
  <2> QED
    BY <1>1, <1>3, <2>1, <2>2, <2>3 DEF Succeed, TypeOK
<1>4. ASSUME NEW o \in Ops, FailOp(o) PROVE TypeOK'
  <2>1. faults' \in 0 .. MaxFaults
    BY <1>4 DEF FailOp, TypeOK
  <2>2. stage' \in [Ops -> Stages]
    BY <1>2, <1>4 DEF FailOp, Error, Stages, Saving
  <2> QED
    BY <1>1, <1>4, <2>1, <2>2 DEF FailOp, TypeOK
<1>5. ASSUME NEW o \in Ops, CheckFolder(o) PROVE TypeOK'
  BY <1>1, <1>2, <1>5 DEF CheckFolder, TypeOK, Stages, Saving
<1>6. ASSUME NEW o \in Ops, CreateFolder(o) PROVE TypeOK'
  <2>1. stage' \in [Ops -> Stages]
    BY <1>2, <1>6 DEF CreateFolder, Stages, Saving
  <2> QED
    BY <1>1, <1>6, <2>1 DEF CreateFolder, TypeOK
<1>7. ASSUME NEW o \in Ops, CreateLog(o) \/ WriteLog(o) PROVE TypeOK'
  <2>1. stage' \in [Ops -> Stages]
    BY <1>2, <1>7 DEF CreateLog, WriteLog, Stages, Saving
  <2>2. log' \in [Logs -> SUBSET Ops]
    BY <1>7, LogsOfOps DEF CreateLog, WriteLog, TypeOK
  <2> QED
    BY <1>1, <1>7, <2>1, <2>2 DEF CreateLog, WriteLog, TypeOK
<1>8. ASSUME NEW o \in Ops, SaveFails(o) PROVE TypeOK'
  <2>1. stage' \in [Ops -> Stages]
    BY <1>2, <1>8 DEF SaveFails, Stages
  <2>2. ioErrors' \in 0 .. MaxIoErrors
    BY <1>8 DEF SaveFails, TypeOK
  <2> QED
    BY <1>1, <1>8, <2>1, <2>2 DEF SaveFails, TypeOK
<1>9. ASSUME NEW o \in Ops, Combine(o) PROVE TypeOK'
  <2>1. stage' \in [Ops -> Stages]
    BY <1>2, <1>9 DEF Combine, Stages
  <2> QED
    BY <1>1, <1>9, <2>1 DEF Combine, TypeOK
<1>10. CASE Folded
  <2>1. stage' \in [Ops -> Stages]
    BY <1>2, <1>10, OpShape DEF Folded, Stages, TypeOK
  <2> QED
    BY <1>1, <1>10, <2>1 DEF Folded, TypeOK
<1>11. CASE Return
  BY <1>1, <1>11 DEF Return, TypeOK
<1>12. CASE UNCHANGED vars
  BY <1>12 DEF vars, call, TypeOK
<1> QED
  BY <1>3, <1>4, <1>5, <1>6, <1>7, <1>8, <1>9, <1>10, <1>11, <1>12 DEF Next, Work

(* An operation that fails, or goes on failing, keeps its transactions     *)
(* from everybody else.                                                    *)
LEMMA Failing ==
  ASSUME BlockInv, TypeOK', NEW o \in Ops, NEW s \in Sick,
         stage[o] \in Active \ {"failed"}, Goto(o, s), faults' > 0,
         UNCHANGED <<call, proofs, values, result>>
  PROVE  Within' /\ Apart' /\ Counted' /\ Top' /\ Outcome' /\ Linked'
<1>1. stage' = [stage EXCEPT ![o] = s] /\ s \in Active /\ stage[o] \notin {"idle", "done", "failed"}
  BY DEF Goto, Active, Sick, Saving
<1>2. \A q \in Ops : /\ stage'[q] \in Active => stage[q] \in Active
                     /\ q # o => stage'[q] = stage[q]
  BY <1>1 DEF BlockInv, TypeOK
<1>3. Within' /\ Apart'
  BY <1>2, OpShape DEF BlockInv, Within, Apart, call
<1>4. Counted'
  BY <1>1 DEF Counted, SomeSick, BlockInv, TypeOK
<1>5. Top'
  <2>1. stage'[BlockOp] # "idle" => stage[BlockOp] # "idle"
    BY <1>1, <1>2, OpShape
  <2>2. testOnly => o \in Mine
    BY <1>1 DEF BlockInv, Top
  <2>3. Mine' = Mine
    BY DEF Mine, call
  <2> QED
    BY <1>2, <2>1, <2>2, <2>3 DEF BlockInv, Top, call
<1>6. Outcome'
  <2>1. Mine' = Mine /\ Mine \subseteq Ops
    BY MineAreOps DEF Mine, call, BlockInv, TypeOK, Ops
  <2>2. testOnly => o \in Mine
    BY <1>1 DEF BlockInv, Top
  <2> QED
    BY <1>1, <1>2, <2>1, <2>2, OpShape DEF BlockInv, Outcome, call
<1>7. Linked'
  <2>1. \A q \in AggOps : stage'[q] = "run" => stage[q] = "run"
    BY <1>1, <1>2, AggShape DEF BlockInv, TypeOK, Sick, Saving
  <2> QED
    BY <2>1 DEF BlockInv, Linked, Good
<1> QED
  BY <1>3, <1>4, <1>5, <1>6, <1>7

(* A failing operation has saved its inputs, or is still about to. *)
LEMMA SavingStep ==
  ASSUME BlockInv, TypeOK', NEW o \in Ops, UNCHANGED call,
         FailOp(o) \/ CheckFolder(o) \/ CreateFolder(o) \/ CreateLog(o)
           \/ WriteLog(o) \/ SaveFails(o)
  PROVE  Saved'
<1> USE DEF BlockInv, TypeOK
<1>1. CASE FailOp(o)
  <2>1. ASSUME save PROVE /\ stage' = [stage EXCEPT ![o] = "stat"] /\ stage[o] = "run"
                          /\ UNCHANGED <<folder, log, ioErrors>>
    BY <1>1, <2>1 DEF FailOp, Error, Goto
  <2>2. save /\ Someone => Someone'
    BY <2>1 DEF Someone
  <2> QED
    BY <2>1, <2>2 DEF Saved, call
<1>2. CASE CheckFolder(o)
  <2>1. /\ stage' = [stage EXCEPT ![o] = IF folder THEN "create" ELSE "mkdir"]
        /\ stage[o] = "stat" /\ UNCHANGED <<folder, log, ioErrors>>
    BY <1>2 DEF CheckFolder, Goto
  <2>2. Someone => Someone'
    BY <2>1 DEF Someone
  <2> QED
    BY <2>1, <2>2 DEF Saved, call
<1>3. CASE CreateFolder(o)
  <2>1. /\ stage' = [stage EXCEPT ![o] = IF folder THEN "failed" ELSE "create"]
        /\ stage[o] = "mkdir" /\ UNCHANGED <<log, ioErrors>>
    BY <1>3 DEF CreateFolder, Goto
  <2>2. Someone => Someone'
    BY <2>1 DEF Someone
  <2>3. ~folder => Someone'
    BY <2>1 DEF Someone
  <2> QED
    BY <2>1, <2>2, <2>3 DEF Saved, call
<1>4. CASE CreateLog(o)
  <2>1. stage'[o] = "write"
    BY <1>4 DEF CreateLog, Goto
  <2> QED
    BY <2>1 DEF Saved, Someone
<1>5. CASE WriteLog(o)
  <2>1. log'[LogOf(o)] # {}
    BY <1>5, LogsOfOps DEF WriteLog
  <2> QED
    BY <2>1, LogsOfOps DEF Saved, Someone
<1>6. CASE SaveFails(o)
  BY <1>6, BoundsAssumption DEF Saved, SaveFails
<1> QED
  BY <1>1, <1>2, <1>3, <1>4, <1>5, <1>6

(* Under the block's proof nothing is missing any more. *)
LEMMA NothingMissing ==
  ASSUME BlockInv, stage[BlockOp] # "idle", NEW o \in SpanOps, stage[o] \in Active
  PROVE  FALSE
<1>1. n \in Nat /\ proofs = {<<1, n>>}
  BY DEF BlockInv, Top, TypeOK, Txns
<1>2. o[3] < 1 \/ n < o[1]
  BY <1>1 DEF BlockInv, Apart
<1>3. o[3] <= n
  BY DEF BlockInv, Within
<1>4. o[1] \in Nat /\ o[3] \in Nat /\ 1 <= o[1] /\ o[1] <= o[3]
  BY OpShape
<1> QED
  BY <1>1, <1>2, <1>3, <1>4

LEMMA BlockStep == ASSUME BlockInv, [Next]_vars PROVE BlockInv'
<1> USE BoundsAssumption
<1>t. TypeOK /\ TypeOK'
  BY BlockTypeStep DEF BlockInv
<1>1. ASSUME NEW o \in Ops, Succeed(o) PROVE BlockInv'
  <2>1. /\ stage[o] = "run" /\ stage' = [stage EXCEPT ![o] = "done"]
        /\ proofs' = IF o = BlockOp THEN proofs ELSE proofs \cup {<<o[1], o[3]>>}
        /\ values' = IF o = BlockOp THEN values ELSE [values EXCEPT ![<<o[1], o[3]>>] = Made(o)]
        /\ UNCHANGED <<call, folder, log, result, faults, ioErrors>>
    BY <1>1 DEF Succeed, Goto
  <2>2. \A q \in Ops : stage'[q] = IF q = o THEN "done" ELSE stage[q]
    BY <2>1, <1>t DEF TypeOK
  <2>3. Within'
    BY <2>1, <2>2, OpShape DEF BlockInv, Within, Active, Sick, Saving, call
  <2>4. Apart'
    <3>1. CASE o = BlockOp
      BY <3>1, <2>1, <2>2, OpShape DEF BlockInv, Apart, Active, Sick, Saving
    <3>2. CASE o # BlockOp
      <4>1. o \in SpanOps /\ stage[o] \in Active
        BY <2>1, <3>2, OpShape DEF Active
      <4>2. \A q \in SpanOps : stage'[q] \in Active => stage[q] \in Active /\ q # o
        BY <2>2, OpShape DEF Active, Sick, Saving
      <4>3. \A p \in proofs' : p \in proofs \/ (p[1] = o[1] /\ p[2] = o[3])
        BY <2>1, <3>2
      <4>4. \A q \in SpanOps, p \in proofs' : stage'[q] \in Active => q[3] < p[1] \/ p[2] < q[1]
        BY <4>1, <4>2, <4>3 DEF BlockInv, Apart
      <4>5. \A p, q \in proofs' : p # q => p[2] < q[1] \/ q[2] < p[1]
        <5>1. \A p \in proofs : o[3] < p[1] \/ p[2] < o[1]
          BY <4>1 DEF BlockInv, Apart
        <5>2. \A p, q \in proofs : p # q => p[2] < q[1] \/ q[2] < p[1]
          BY DEF BlockInv, Apart
        <5>3. proofs' = proofs \cup {<<o[1], o[3]>>}
          BY <2>1, <3>2
        <5> QED
          BY <5>1, <5>2, <5>3
      <4> QED
        BY <4>2, <4>4, <4>5 DEF BlockInv, Apart
    <3> QED
      BY <3>1, <3>2
  <2>5. Counted'
    BY <2>1, <2>2 DEF BlockInv, Counted, SomeSick, Sick, Saving
  <2>6. Top'
    <3>1. Mine' = Mine
      BY <2>1 DEF Mine, call
    <3>2. testOnly => o \in Mine
      BY <2>1 DEF BlockInv, Top
    <3>3. CASE stage[BlockOp] = "idle"
      BY <2>1, <2>2, <3>1, <3>2, <3>3, OpShape DEF BlockInv, Top, call
    <3>4. CASE stage[BlockOp] # "idle"
      <4>1. proofs = {<<1, n>>} /\ ~testOnly
        BY <3>4 DEF BlockInv, Top
      <4>2. ASSUME o # BlockOp PROVE FALSE
        <5>1. o \in SpanOps /\ stage[o] \in Active
          BY <2>1, <4>2, OpShape DEF Active
        <5> QED
          BY <3>4, <5>1, NothingMissing
      <4> QED
        BY <2>1, <4>1, <4>2 DEF Top, call
    <3> QED
      BY <3>3, <3>4
  <2>7. Outcome'
    <3>1. Mine' = Mine /\ Mine \subseteq Ops
      BY <2>1, MineAreOps, <1>t DEF Mine, call, TypeOK, Ops
    <3> QED
      BY <2>1, <2>2, <3>1, OpShape DEF BlockInv, Outcome, call
  <2>8. Saved'
    <3>1. Someone => Someone'
      BY <2>1, <2>2 DEF Someone
    <3> QED
      BY <2>1, <2>2, <3>1 DEF BlockInv, Saved, call
  <2>9. Linked'
    <3>1. CASE o = BlockOp
      <4>1. \A q \in AggOps : stage'[q] = stage[q]
        BY <2>2, <3>1, AggShape, OpShape
      <4> QED
        BY <2>1, <3>1, <4>1 DEF BlockInv, Linked, Good
    <3>2. CASE o # BlockOp
      <4>1. /\ <<o[1], o[3]>> \in Spans /\ Made(o) = <<o[1] - 1, o[3]>>
        BY <2>1, <3>2, OpShape, MadeIsGood DEF BlockInv
      <4>2. \A s \in Spans : /\ s # <<o[1], o[3]>> => values'[s] = values[s]
                             /\ s = <<o[1], o[3]>> => Good(s)'
        BY <2>1, <3>2, <4>1, <1>t DEF TypeOK, Good
      <4>3. \A s \in Spans : Good(s) => Good(s)'
        BY <4>2 DEF Good
      <4>4. \A p \in proofs' : Good(p)'
        BY <2>1, <3>2, <4>1, <4>2, <4>3, <1>t DEF TypeOK, BlockInv, Linked
      <4>5. \A q \in AggOps : stage'[q] = "run" => stage[q] = "run"
        BY <2>2, AggShape
      <4> QED
        BY <4>3, <4>4, <4>5, AggShape DEF BlockInv, Linked
    <3> QED
      BY <3>1, <3>2
  <2> QED
    BY <1>t, <2>3, <2>4, <2>5, <2>6, <2>7, <2>8, <2>9 DEF BlockInv
<1>2. ASSUME NEW o \in Ops,
             FailOp(o) \/ CheckFolder(o) \/ CreateFolder(o) \/ CreateLog(o)
               \/ WriteLog(o) \/ SaveFails(o)
      PROVE  BlockInv'
  <2>1. /\ UNCHANGED <<call, proofs, values, result>> /\ stage[o] \in Active \ {"failed"}
        /\ \E s \in Sick : Goto(o, s)
    BY <1>2 DEF FailOp, Error, CheckFolder, CreateFolder, CreateLog, WriteLog, SaveFails,
       Active, Sick, Saving
  <2>2. faults' > 0
    <3>1. CASE FailOp(o)
      BY <3>1, <1>t, AlwaysFeasible DEF FailOp, TypeOK
    <3>2. CASE ~FailOp(o)
      <4>1. stage[o] \in Sick /\ faults' = faults
        BY <1>2, <3>2 DEF CheckFolder, CreateFolder, CreateLog, WriteLog, SaveFails, Sick, Saving
      <4> QED
        BY <4>1 DEF BlockInv, Counted, SomeSick
    <3> QED
      BY <3>1, <3>2
  <2> QED
    BY <1>2, <1>t, <2>1, <2>2, Failing, SavingStep DEF BlockInv
<1>3. ASSUME NEW o \in Ops, Combine(o) PROVE BlockInv'
  <2> DEFINE a == <<o[1], o[2]>>
             b == <<o[2] + 1, o[3]>>
  <2>1. /\ o \in SpanOps /\ ~testOnly /\ result = "running" /\ a \in proofs /\ b \in proofs
        /\ proofs' = proofs \ {a, b} /\ stage' = [stage EXCEPT ![o] = "run"]
        /\ UNCHANGED <<call, values, folder, log, result, faults, ioErrors>>
    BY <1>3 DEF Combine, Goto, SpanOps
  <2>2. \A q \in Ops : stage'[q] = IF q = o THEN "run" ELSE stage[q]
    BY <2>1, <1>t DEF TypeOK
  <2>3. /\ o[1] \in Nat /\ o[2] \in Nat /\ o[3] \in Nat /\ o[1] <= o[2] /\ o[2] <= o[3]
        /\ o \in Ops /\ o # BlockOp
    BY <2>1, OpShape
  <2>4. stage[o] \notin Active /\ o[3] <= n
    BY <2>1, <2>3 DEF BlockInv, Apart, Within
  <2>5. \A p \in proofs' : p \in proofs /\ (p[2] < o[1] \/ o[3] < p[1])
    <3> SUFFICES ASSUME NEW p \in proofs, p # a, p # b PROVE p[2] < o[1] \/ o[3] < p[1]
      BY <2>1
    <3>1. p[1] \in Nat /\ p[2] \in Nat /\ p[1] <= p[2]
      BY SpanShape, <1>t DEF TypeOK
    <3>2. (p[2] < o[1] \/ o[2] < p[1]) /\ (p[2] < o[2] + 1 \/ o[3] < p[1])
      BY <2>1 DEF BlockInv, Apart
    <3> QED
      BY <3>1, <3>2, <2>3
  <2>6. \A q \in SpanOps : stage[q] \in Active => q[3] < o[1] \/ o[3] < q[1]
    <3> SUFFICES ASSUME NEW q \in SpanOps, stage[q] \in Active PROVE q[3] < o[1] \/ o[3] < q[1]
      OBVIOUS
    <3>1. q[1] \in Nat /\ q[3] \in Nat /\ q[1] <= q[3]
      BY OpShape
    <3>2. (q[3] < o[1] \/ o[2] < q[1]) /\ (q[3] < o[2] + 1 \/ o[3] < q[1])
      BY <2>1 DEF BlockInv, Apart
    <3> QED
      BY <3>1, <3>2, <2>3
  <2>7. Within'
    BY <2>1, <2>2, <2>4, OpShape DEF BlockInv, Within, call
  <2>8. Apart'
    BY <2>1, <2>2, <2>5, <2>6, OpShape DEF BlockInv, Apart
  <2>9. Counted'
    BY <2>1, <2>2, <2>4 DEF BlockInv, Counted, SomeSick, Active, Sick, Saving
  <2>10. stage[BlockOp] = "idle"
    <3> SUFFICES ASSUME proofs = {<<1, n>>} PROVE FALSE
      BY DEF BlockInv, Top
    <3>1. a = <<1, n>> /\ b = <<1, n>>
      BY <2>1
    <3> QED
      BY <3>1, <2>3
  <2>11. Top' /\ Outcome'
    BY <2>1, <2>2, <2>3, <2>10, OpShape DEF BlockInv, Top, Outcome, call
  <2>12. Saved'
    <3>1. Someone => Someone'
      BY <2>1, <2>2, <2>4 DEF Someone, Active, Sick, Saving
    <3> QED
      BY <2>1, <2>2, <3>1 DEF BlockInv, Saved, call
  <2>13. Linked'
    BY <2>1, <2>2, AggShape DEF BlockInv, Linked, Good
  <2> QED
    BY <1>t, <2>7, <2>8, <2>9, <2>11, <2>12, <2>13 DEF BlockInv
<1>4. CASE Folded
  <2>1. /\ ~testOnly /\ proofs = {<<1, n>>} /\ stage[BlockOp] = "idle"
        /\ \/ stage' = stage /\ result' = "not_agg"
           \/ stage' = [stage EXCEPT ![BlockOp] = "run"] /\ result' = "running"
        /\ UNCHANGED <<call, proofs, values, folder, log, faults, ioErrors>>
    BY <1>4 DEF Folded, Goto
  <2>2. \A q \in Ops : stage'[q] = stage[q] \/ (q = BlockOp /\ stage'[q] = "run")
    BY <2>1, <1>t DEF TypeOK
  <2>3. Within' /\ Apart'
    BY <2>1, <2>2, OpShape DEF BlockInv, Within, Apart, call
  <2>4. Counted'
    BY <2>1, <2>2 DEF BlockInv, Counted, SomeSick, Sick, Saving
  <2>5. Top' /\ Outcome'
    BY <2>1 DEF BlockInv, Top, Outcome, call
  <2>6. Saved'
    <3>1. Someone => Someone'
      BY <2>1, <2>2 DEF Someone
    <3> QED
      BY <2>1, <2>2, <3>1 DEF BlockInv, Saved, call
  <2>7. Linked'
    BY <2>1, <2>2, AggShape, OpShape DEF BlockInv, Linked, Good
  <2> QED
    BY <1>t, <2>3, <2>4, <2>5, <2>6, <2>7 DEF BlockInv
<1>5. CASE Return
  BY <1>5, <1>t DEF Return, BlockInv, Within, Apart, Counted, SomeSick, Top, Outcome, Saved,
     Someone, Mine, Linked, Good, call
<1>6. CASE UNCHANGED vars
  BY <1>6, <1>t DEF vars, BlockInv, Within, Apart, Counted, SomeSick, Top, Outcome, Saved,
     Someone, Mine, Linked, Good, call
<1> QED
  BY <1>1, <1>2, <1>3, <1>4, <1>5, <1>6 DEF Next, Work

(* The inductive invariant: what is being proved, what waits and what has  *)
(* failed are different parts of the block.                                *)
THEOREM BlockInvariance == Spec => []BlockInv
  BY BlockInitially, BlockStep, PTL DEF Spec

(* Type correctness of BlockProver. *)
THEOREM BlockTypes == Spec => []TypeOK
  BY BlockInvariance, PTL DEF BlockInv

(* What the proof of a block is made from goes from the state before its   *)
(* first transaction to the state after its last one.                      *)
WholeBlock == stage[BlockOp] # "idle" => values[<<1, n>>] = <<0, n>>

(* However the fold went, the public values fitted at each combination:    *)
(* prove() fails only if an operation did, and a block is proved from a    *)
(* proof of all of it.                                                     *)
THEOREM FoldIsSound == Spec => [](OnlyFaultsFail /\ WholeBlock)
<1>1. BlockInv => OnlyFaultsFail
  BY DEF BlockInv, Outcome, Counted, SomeSick, Sick, OnlyFaultsFail
<1>2. BlockInv => WholeBlock
  BY DEF BlockInv, Top, Linked, Good, WholeBlock
<1> QED
  BY <1>1, <1>2, BlockInvariance, PTL

(* No block is proved, and no test_only run passes, over a failed          *)
(* operation: the transactions it leaves out cannot be folded over.        *)
THEOREM NoMaskedErrors == Spec => []ErrorsAreNotMasked
<1>1. ASSUME BlockInv, result = "ok" PROVE faults = 0
  <2>1. ASSUME NEW o \in Ops, stage[o] \in Sick PROVE FALSE
    <3>1. CASE testOnly
      BY <1>1, <2>1, <3>1 DEF BlockInv, Outcome, Top, Sick, Saving
    <3>2. CASE ~testOnly
      <4>1. stage[BlockOp] = "done" /\ proofs = {<<1, n>>}
        BY <1>1, <3>2 DEF BlockInv, Outcome, Top
      <4>2. o \in SpanOps /\ stage[o] \in Active
        BY <2>1, <4>1, OpShape DEF Sick, Saving, Active
      <4> QED
        BY <1>1, <4>1, <4>2, NothingMissing
    <3> QED
      BY <3>1, <3>2
  <2> QED
    BY <2>1, <1>1, BoundsAssumption DEF BlockInv, Counted, SomeSick, TypeOK
<1> QED
  BY <1>1, BlockInvariance, PTL DEF ErrorsAreNotMasked

(* Failures that race for the debug folder do not all lose. *)
THEOREM SomeSaved == Spec => []SomeInputsAreSaved
<1>1. BlockInv => SomeInputsAreSaved
  BY DEF BlockInv, Outcome, Saved, Someone, SomeInputsAreSaved
<1> QED
  BY <1>1, BlockInvariance, PTL

-------------------------------------------------------------------------------
(* The fold cannot stop: what is left of Returns when fairness is set      *)
(* aside.                                                                  *)

(* Where the proof of a finished operation went: it waits, or is inside of *)
(* a proof that waits or of an operation that is still active.             *)
Contained(o) ==
  \/ \E p \in proofs : p[1] <= o[1] /\ o[3] <= p[2]
  \/ \E q \in SpanOps : stage[q] \in Active /\ q[1] <= o[1] /\ o[3] <= q[3]

Progress ==
  /\ \A o \in Mine : stage[o] # "idle"
  /\ \A o \in SpanOps : stage[o] = "done" => Contained(o)

(* An operation goes through these, or some of them, once.                 *)
Order(s) ==
  CASE s = "idle" -> 0 [] s = "run" -> 1 [] s = "stat" -> 2 [] s = "mkdir" -> 3
    [] s = "create" -> 4 [] s = "write" -> 5 [] OTHER -> 6

(* What a step does to the fold.                                           *)
Fails(o) ==
  /\ \E s \in Sick : Goto(o, s) /\ Order(stage[o]) < Order(s)
  /\ stage[o] \in Active \ {"failed"}
  /\ UNCHANGED <<call, proofs>>

Idles == UNCHANGED <<call, stage, proofs>>

LEMMA KindsOfSteps ==
  ASSUME TypeOK, [Next]_vars
  PROVE  \/ \E o \in Ops : Fails(o) \/ Succeed(o) \/ Combine(o)
         \/ Folded \/ Idles
<1>1. ASSUME NEW o \in Ops, FailOp(o) PROVE Fails(o)
  BY <1>1 DEF FailOp, Error, Fails, Active, Sick, Saving, Order, call
<1>2. ASSUME NEW o \in Ops, CheckFolder(o) PROVE Fails(o)
  BY <1>2 DEF CheckFolder, Fails, Active, Sick, Saving, Order, call
<1>3. ASSUME NEW o \in Ops, CreateFolder(o) PROVE Fails(o)
  BY <1>3 DEF CreateFolder, Fails, Active, Sick, Saving, Order, call
<1>4. ASSUME NEW o \in Ops, CreateLog(o) \/ WriteLog(o) PROVE Fails(o)
  BY <1>4 DEF CreateLog, WriteLog, Fails, Active, Sick, Saving, Order, call
<1>5. ASSUME NEW o \in Ops, SaveFails(o) PROVE Fails(o)
  BY <1>5 DEF SaveFails, Fails, Active, Sick, Saving, Order, call
<1>6. Return \/ UNCHANGED vars => Idles
  BY DEF Return, Idles, vars, call
<1> QED
  BY <1>1, <1>2, <1>3, <1>4, <1>5, <1>6 DEF Next, Work

(* Nothing is combined that an earlier operation has combined.             *)
LEMMA NotAgain ==
  ASSUME BlockInv, Progress, NEW o \in Ops, Combine(o)
  PROVE  stage[o] = "idle"
<1> DEFINE a == <<o[1], o[2]>>
           b == <<o[2] + 1, o[3]>>
<1>1. /\ o \in AggOps /\ o \in SpanOps /\ a \in proofs /\ b \in proofs
  BY DEF Combine, SpanOps
<1>2. /\ o[1] \in Nat /\ o[2] \in Nat /\ o[3] \in Nat
      /\ o[1] <= o[2] /\ o[2] < o[3]
  BY <1>1, OpShape DEF AggOps, Txns
<1>3. stage[o] \notin Active
  <2>1. stage[o] \in Active => o[3] < o[1] \/ o[2] < o[1]
    BY <1>1, Zenon DEF BlockInv, Apart
  <2> QED
    BY <1>2, <2>1
<1>4. ASSUME NEW p \in proofs, p[1] <= o[1], o[3] <= p[2] PROVE FALSE
  <2>1. p[1] \in Nat /\ p[2] \in Nat
    BY SpanShape DEF BlockInv, TypeOK
  <2>2. p # a
    BY <1>2, <1>4
  <2>3. p[2] < o[1] \/ o[2] < p[1]
    BY <1>1, <2>2 DEF BlockInv, Apart
  <2> QED
    BY <1>2, <1>4, <2>1, <2>3
<1>5. ASSUME NEW q \in SpanOps, stage[q] \in Active, q[1] <= o[1], o[3] <= q[3] PROVE FALSE
  <2>1. q[1] \in Nat /\ q[3] \in Nat
    BY OpShape
  <2>2. q[3] < o[1] \/ o[2] < q[1]
    BY <1>1, <1>5 DEF BlockInv, Apart
  <2> QED
    BY <1>2, <1>5, <2>1, <2>2
<1>6. stage[o] # "done"
  BY <1>1, <1>4, <1>5 DEF Progress, Contained
<1>7. stage[o] \in Stages
  BY DEF BlockInv, TypeOK
<1> QED
  BY <1>3, <1>6, <1>7 DEF Stages, Active, Sick

LEMMA ProgressStep == ASSUME BlockInv, Progress, [Next]_vars PROVE Progress'
<1>t. TypeOK /\ TypeOK'
  BY BlockTypeStep DEF BlockInv
<1>1. UNCHANGED call => Mine' = Mine /\ Mine \subseteq Ops
  BY <1>t, MineAreOps DEF Mine, call, TypeOK, Ops
<1>2. ASSUME NEW o \in Ops, Fails(o) PROVE Progress'
  <2>1. PICK s \in Sick : stage' = [stage EXCEPT ![o] = s]
    BY <1>2 DEF Fails, Goto
  <2>2. /\ stage[o] \in Active /\ s \in Active /\ s \notin {"idle", "done"}
        /\ proofs' = proofs /\ UNCHANGED call
    BY <1>2, <2>1 DEF Fails, Active, Sick, Saving
  <2>3. \A q \in Ops : stage'[q] = IF q = o THEN s ELSE stage[q]
    BY <2>1, <1>t DEF TypeOK
  <2>4. \A q \in SpanOps : stage[q] \in Active => stage'[q] \in Active
    BY <2>2, <2>3, OpShape
  <2>5. \A q \in SpanOps : Contained(q) => Contained(q)'
    BY <2>2, <2>4 DEF Contained
  <2> QED
    BY <1>1, <2>2, <2>3, <2>5, OpShape DEF Progress
<1>3. ASSUME NEW o \in Ops, Succeed(o) PROVE Progress'
  <2>1. /\ stage[o] = "run" /\ stage' = [stage EXCEPT ![o] = "done"]
        /\ proofs' = IF o = BlockOp THEN proofs ELSE proofs \cup {<<o[1], o[3]>>}
        /\ UNCHANGED call
    BY <1>3 DEF Succeed, Goto, call
  <2>2. \A q \in Ops : stage'[q] = IF q = o THEN "done" ELSE stage[q]
    BY <2>1, <1>t DEF TypeOK
  <2>3. proofs \subseteq proofs'
    BY <2>1
  <2>4. o \in SpanOps => <<o[1], o[3]>> \in proofs' /\ o[1] <= o[1] /\ o[3] <= o[3]
    BY <2>1, OpShape
  <2>5. ASSUME NEW q \in SpanOps, Contained(q) PROVE Contained(q)'
    <3>1. CASE \E p \in proofs : p[1] <= q[1] /\ q[3] <= p[2]
      BY <2>3, <3>1 DEF Contained
    <3>2. ASSUME NEW r \in SpanOps, stage[r] \in Active, r[1] <= q[1], q[3] <= r[3]
          PROVE  Contained(q)'
      <4>1. CASE r = o
        <5>1. <<o[1], o[3]>> \in proofs' /\ <<o[1], o[3]>>[1] <= q[1] /\ q[3] <= <<o[1], o[3]>>[2]
          BY <2>4, <3>2, <4>1
        <5> QED
          BY <5>1 DEF Contained
      <4>2. CASE r # o
        BY <2>2, <3>2, <4>2, OpShape DEF Contained
      <4> QED
        BY <4>1, <4>2
    <3> QED
      BY <2>5, <3>1, <3>2 DEF Contained
  <2>6. o \in SpanOps => Contained(o)'
    <3>1. o \in SpanOps => /\ <<o[1], o[3]>> \in proofs'
                           /\ <<o[1], o[3]>>[1] <= o[1] /\ o[3] <= <<o[1], o[3]>>[2]
      BY <2>4
    <3> QED
      BY <3>1 DEF Contained
  <2> QED
    BY <1>1, <2>1, <2>2, <2>5, <2>6, OpShape DEF Progress
<1>4. ASSUME NEW o \in Ops, Combine(o) PROVE Progress'
  <2> DEFINE a == <<o[1], o[2]>>
             b == <<o[2] + 1, o[3]>>
  <2>1. /\ o \in SpanOps /\ proofs' = proofs \ {a, b} /\ stage' = [stage EXCEPT ![o] = "run"]
        /\ UNCHANGED call /\ stage[o] = "idle"
    BY <1>4, NotAgain DEF Combine, Goto, SpanOps, call
  <2>2. \A q \in Ops : stage'[q] = IF q = o THEN "run" ELSE stage[q]
    BY <2>1, <1>t DEF TypeOK
  <2>3. /\ o[1] \in Nat /\ o[2] \in Nat /\ o[3] \in Nat /\ o[1] <= o[2] /\ o[2] <= o[3]
    BY <2>1, OpShape
  <2>4. ASSUME NEW q \in SpanOps, Contained(q) PROVE Contained(q)'
    <3>1. q[1] \in Nat /\ q[3] \in Nat
      BY OpShape
    <3>2. ASSUME NEW p \in proofs, p[1] <= q[1], q[3] <= p[2] PROVE Contained(q)'
      <4>1. CASE p \in {a, b}
        <5>1. o[1] <= q[1] /\ q[3] <= o[3]
          BY <2>3, <3>1, <3>2, <4>1
        <5> QED
          BY <2>1, <2>2, <5>1, OpShape DEF Contained, Active
      <4> QED
        BY <2>1, <3>2, <4>1 DEF Contained
    <3>3. ASSUME NEW r \in SpanOps, stage[r] \in Active, r[1] <= q[1], q[3] <= r[3]
          PROVE  Contained(q)'
      <4>1. stage'[r] \in Active
        BY <2>2, <3>3, OpShape DEF Active
      <4> QED
        BY <3>3, <4>1 DEF Contained
    <3> QED
      BY <2>4, <3>2, <3>3 DEF Contained
  <2> QED
    BY <1>1, <2>1, <2>2, <2>4, OpShape DEF Progress
<1>5. CASE Folded
  <2>1. \A q \in SpanOps : stage'[q] = stage[q]
    BY <1>5, <1>t, OpShape DEF Folded, Goto, TypeOK
  <2>2. UNCHANGED <<call, proofs>>
    BY <1>5 DEF Folded
  <2>3. \A q \in SpanOps : Contained(q) => Contained(q)'
    BY <2>1, <2>2 DEF Contained
  <2>4. UNCHANGED call /\ Mine \subseteq SpanOps
    BY <1>t, <2>2, MineAreOps DEF TypeOK, SpanOps
  <2> QED
    BY <1>1, <2>1, <2>3, <2>4 DEF Progress
<1>6. CASE Idles
  BY <1>6 DEF Idles, Progress, Contained, Mine, call
<1> QED
  BY <1>t, <1>2, <1>3, <1>4, <1>5, <1>6, KindsOfSteps

LEMMA ProgressInitially == ASSUME Init PROVE Progress
<1>1. Mine \subseteq Ops
  BY MineAreOps DEF Init, Ops
<1>2. \A o \in Mine : stage[o] = "run"
  BY <1>1 DEF Init
<1>3. \A o \in SpanOps : stage[o] # "done"
  BY OpShape DEF Init
<1> QED
  BY <1>2, <1>3 DEF Progress

LEMMA ProgressInvariance == Spec => [](BlockInv /\ Progress)
  BY BlockInitially, BlockStep, ProgressInitially, ProgressStep, PTL DEF Spec

(* Every operation is executed at most once, and goes through its stages   *)
(* in their order: with Return that comes once, a call has finitely many   *)
(* steps, however its proofs arrive and combine.                           *)
THEOREM OperationsGoForward ==
  Spec => [][\A o \in Ops : stage'[o] # stage[o] => Order(stage[o]) < Order(stage'[o])]_vars
<1>1. BlockInv /\ Progress /\ [Next]_vars
        => \A o \in Ops : stage'[o] # stage[o] => Order(stage[o]) < Order(stage'[o])
  <2> SUFFICES ASSUME BlockInv, Progress, [Next]_vars, NEW o \in Ops, stage'[o] # stage[o]
               PROVE  Order(stage[o]) < Order(stage'[o])
    OBVIOUS
  <2>t. TypeOK
    BY DEF BlockInv
  <2>1. ASSUME NEW q \in Ops, Fails(q) PROVE Order(stage[o]) < Order(stage'[o])
    BY <2>1, <2>t DEF Fails, Goto, TypeOK
  <2>2. ASSUME NEW q \in Ops, Succeed(q) PROVE Order(stage[o]) < Order(stage'[o])
    BY <2>2, <2>t DEF Succeed, Goto, TypeOK, Order
  <2>3. ASSUME NEW q \in Ops, Combine(q) PROVE Order(stage[o]) < Order(stage'[o])
    <3>1. stage[q] = "idle"
      BY <2>3, NotAgain
    <3> QED
      BY <2>3, <2>t, <3>1 DEF Combine, Goto, TypeOK, Order
  <2>4. CASE Folded
    BY <2>4, <2>t DEF Folded, Goto, TypeOK, Order
  <2> QED
    BY <2>t, <2>1, <2>2, <2>3, <2>4, KindsOfSteps DEF Idles
<1> QED
  BY <1>1, ProgressInvariance, PTL DEF Spec

(* What a call can do next: an operation that is executed goes on, two     *)
(* proofs that adjoin are combined, the block is proved from the only one  *)
(* left, or the call returns (the guards of the actions).                  *)
CanGoOn ==
  \/ \E o \in Ops : stage[o] \in Saving \cup {"run"}
  \/ ~testOnly /\ \E o \in AggOps : {<<o[1], o[2]>>, <<o[2] + 1, o[3]>>} \subseteq proofs
  \/ ~testOnly /\ proofs = {<<1, n>>} /\ stage[BlockOp] = "idle"
  \/ stage[BlockOp] = "done"
  \/ testOnly /\ \A o \in Mine : stage[o] = "done"
  \/ \E o \in Ops : stage[o] = "failed"

(* The proofs that wait have no gap when no operation is left: two of them *)
(* adjoin, or one is the whole block.                                      *)
THEOREM FoldNeverStops == Spec => [](result = "running" => CanGoOn)
<1>1. ASSUME BlockInv, Progress, ~CanGoOn PROVE FALSE
  <2>t. TypeOK /\ n \in Nat /\ 1 <= n /\ n <= T
    BY <1>1, TAssumption DEF BlockInv, TypeOK, Txns
  <2>1. \A o \in Ops : stage[o] \notin Active
    BY <1>1 DEF CanGoOn, Active, Sick
  <2>2. \A o \in Ops : stage[o] \in {"idle", "done"}
    BY <2>1, <2>t DEF TypeOK, Stages, Active, Sick
  <2>3. Mine \subseteq SpanOps /\ Mine \subseteq Ops
    BY <2>t, MineAreOps DEF SpanOps, Ops, TypeOK
  <2>4. \A o \in Mine : stage[o] = "done"
    BY <1>1, <2>2, <2>3 DEF Progress
  <2>5. ~testOnly /\ stage[BlockOp] = "idle"
    BY <1>1, <2>2, <2>4, OpShape DEF CanGoOn
  <2>6. ASSUME NEW t \in 1 .. n PROVE \E p \in proofs : p[1] <= t /\ t <= p[2]
    <3>1. TxnOp(t) \in Mine
      BY DEF Mine
    <3>2. Contained(TxnOp(t))
      BY <1>1, <2>3, <2>4, <3>1 DEF Progress
    <3>3. \E p \in proofs : p[1] <= TxnOp(t)[1] /\ TxnOp(t)[3] <= p[2]
      BY <2>1, <3>2, OpShape DEF Contained
    <3> QED
      BY <3>3 DEF TxnOp
  <2>7. \A p \in proofs : /\ p[1] \in Nat /\ p[2] \in Nat /\ 1 <= p[1] /\ p[1] <= p[2]
                          /\ p[2] <= n /\ p = <<p[1], p[2]>>
    BY <1>1, <2>t, SpanShape DEF BlockInv, Within, TypeOK
  <2>8. \A p, q \in proofs : p # q => p[2] < q[1] \/ q[2] < p[1]
    BY <1>1 DEF BlockInv, Apart
  <2>9. PICK p \in proofs : p[1] <= 1 /\ 1 <= p[2]
    BY <2>6, <2>t
  <2>10. p[1] = 1 /\ p[2] \in Nat /\ 1 <= p[2] /\ p[2] <= n /\ p = <<1, p[2]>>
    BY <2>7, <2>9
  <2>11. CASE p[2] = n
    <3>1. \A q \in proofs : q = p
      BY <2>7, <2>8, <2>10, <2>11
    <3>2. proofs = {<<1, n>>}
      BY <2>9, <2>10, <2>11, <3>1
    <3> QED
      BY <1>1, <2>5, <3>2 DEF CanGoOn
  <2>12. CASE p[2] # n
    <3>1. p[2] + 1 \in 1 .. n
      BY <2>t, <2>10, <2>12
    <3>2. PICK q \in proofs : q[1] <= p[2] + 1 /\ p[2] + 1 <= q[2]
      BY <2>6, <3>1
    <3>3. /\ q[1] \in Nat /\ q[2] \in Nat /\ q[1] <= q[2] /\ q[2] <= n /\ 1 <= q[1]
          /\ q = <<q[1], q[2]>>
      BY <2>7, <3>2
    <3>4. q # p
      BY <2>10, <3>2
    <3>5. p[2] < q[1] \/ q[2] < p[1]
      BY <2>8, <3>4
    <3>6. q[1] = p[2] + 1 /\ p[2] < q[2] /\ q = <<p[2] + 1, q[2]>>
      BY <2>10, <3>2, <3>3, <3>5
    <3>7. 1 \in Txns /\ p[2] \in Txns /\ q[2] \in Txns
      BY <2>t, <2>10, <3>3, <3>6, TAssumption DEF Txns
    <3> DEFINE o == <<1, p[2], q[2]>>
    <3>8. o \in AggOps /\ o[1] = 1 /\ o[2] = p[2] /\ o[3] = q[2]
      BY <2>10, <3>6, <3>7 DEF AggOps
    <3>9. {<<o[1], o[2]>>, <<o[2] + 1, o[3]>>} \subseteq proofs
      BY <2>10, <3>2, <3>6, <3>8
    <3> QED
      BY <1>1, <2>5, <3>8, <3>9 DEF CanGoOn
  <2> QED
    BY <2>11, <2>12
<1> QED
  BY <1>1, ProgressInvariance, PTL

===============================================================================
