-------------------------- MODULE LeaderClient_proofs --------------------------
(***************************************************************************)
(* Proofs about LeaderClient, for any options, any number of blocks and    *)
(* runs and any number of failures and kills.                              *)
(***************************************************************************)
EXTENDS LeaderClient, TLAPS

Running == phase # "idle"

(* The phases in which the blocks of a run are known to continue from      *)
(* its start.                                                              *)
Based ==
  \/ phase \in {"fetch", "prove", "close", "report", "print", "cleanup"}
  \/ phase = "exit" /\ code = "ok"

(* A run only goes through the phases that its options ask for, and prints *)
(* nothing before its end.                                                 *)
Course ==
  /\ phase \notin {"idle", "exit"} => stdout = {} /\ code = "none"
  /\ phase = "exit" => code \in {"ok", "err"}
  /\ Running => 1 <= from /\ from <= to
  /\ Based => start <= from
  /\ phase = "previous" => 1 < from /\ start = from
  /\ opts.mode = "stdio" => ~opts.dir
  /\ phase = "cleanup" => opts.dir /\ ~opts.keep
  /\ phase = "print" => ~opts.dir
  /\ phase \in {"previous", "fetch"} => built = {} /\ writing = {} /\ pending = {}
  /\ phase = "close" /\ proved = "ok" => built = from .. to
  /\ phase \in {"report", "print"} => built = from .. to /\ proved = "ok"

(* What is written belongs to the run, and comes of a real or an asked-for *)
(* dummy proof.                                                            *)
Own ==
  /\ writing \subseteq from .. to /\ pending \subseteq from .. to
  /\ writing # {} \/ pending # {} => opts.dir /\ (~opts.testOnly => start # 0 /\ start <= from)
  /\ phase = "idle" => pending = {}

(* The file of a block is written, will be, or was lost. *)
Handed(h) == disk[h] = ProofFrom(start) \/ h \in pending \/ h \in lost

Written ==
  opts.dir /\ ~opts.testOnly =>
    /\ phase \in {"prove", "close", "report"} => \A h \in built : Handed(h)
    /\ phase = "cleanup" \/ (phase = "exit" /\ code = "ok") => Handed(to)

(* The files a run has created are no longer those of an earlier run. *)
Given ==
  Running /\ opts.dir =>
    \A f \in built \cup writing \cup pending : \A g \in BlockNumbers : kept[g] # f

ClientInv ==
  /\ TypeOK /\ Course /\ Own /\ Written /\ Given
  /\ NothingProvedIsLost /\ KeptProofCoversRun /\ OkMeansDelivered

-------------------------------------------------------------------------------
LEMMA ClientInitially == ASSUME Init PROVE ClientInv
<1> USE BoundsAssumption, OptionsAssumption
<1>1. disk \in [BlockNumbers -> Content]
  BY DEF Init, Absent, Content
<1>2. opts \in Option /\ (opts.mode = "stdio" => ~opts.dir)
  BY DEF Init
<1>3. TypeOK
  BY <1>1, <1>2 DEF Init, TypeOK, Absent, Phases
<1> QED
  BY <1>2, <1>3 DEF Init, ClientInv, Running, Based, Course, Own, Written, Given,
     NothingProvedIsLost, KeptProofCoversRun, OkMeansDelivered

LEMMA DiskWrites ==
  ASSUME disk \in [BlockNumbers -> Content],
         \A h \in BlockNumbers : disk[h].kind = "proof" => disk[h].first \in 1 .. h,
         NEW h \in BlockNumbers, NEW c \in Content,
         c.kind = "proof" => c.first \in 1 .. h,
         disk' = [disk EXCEPT ![h] = c]
  PROVE  /\ disk' \in [BlockNumbers -> Content]
         /\ \A g \in BlockNumbers : disk'[g].kind = "proof" => disk'[g].first \in 1 .. g
  OBVIOUS

LEMMA Contents ==
  /\ Absent \in Content /\ Absent.kind # "proof"
  /\ Cut \in Content /\ Cut.kind # "proof"
  /\ Dummy \in Content /\ Dummy.kind # "proof"
  /\ \A f \in BlockNumbers : ProofFrom(f) \in Content
  /\ \A f : ProofFrom(f).kind = "proof" /\ ProofFrom(f).first = f
  /\ \A c \in Content : c.first \in 0 .. Height /\ (c.kind = "dummy" => c.first = 0)
<1>1. \A f \in BlockNumbers : ProofFrom(f).first \in 0 .. Height
  BY BoundsAssumption DEF ProofFrom, BlockNumbers
<1>2. 0 \in 0 .. Height
  BY BoundsAssumption
<1>3. \A f : ProofFrom(f).kind = "proof" /\ ProofFrom(f).first = f
  BY DEF ProofFrom
<1>4. \A c \in Content : c.first \in 0 .. Height /\ (c.kind = "dummy" => c.first = 0)
  <2> SUFFICES ASSUME NEW c \in Content
               PROVE  c.first \in 0 .. Height /\ (c.kind = "dummy" => c.first = 0)
    OBVIOUS
  <2>1. CASE c \in {Absent, Cut, Dummy}
    BY <2>1, <1>2 DEF Absent, Cut, Dummy
  <2>2. ASSUME NEW f \in BlockNumbers, c = ProofFrom(f)
        PROVE  c.first \in 0 .. Height /\ (c.kind = "dummy" => c.first = 0)
    BY <2>2, <1>1, <1>3
  <2> QED
    BY <2>1, <2>2 DEF Content
<1>5. Absent.kind # "proof" /\ Cut.kind # "proof" /\ Dummy.kind # "proof"
  BY DEF Absent, Cut, Dummy
<1> QED
  BY <1>3, <1>4, <1>5 DEF Content

-------------------------------------------------------------------------------
(* Types are kept by every step. *)
LEMMA ClientTypeStep == ASSUME ClientInv, [Next]_vars PROVE TypeOK'
<1> USE BoundsAssumption
<1>t. TypeOK
  BY DEF ClientInv
<1>f. Fault => faults' \in 0 .. MaxFaults
  BY <1>t DEF Fault, TypeOK
<1>r. Running => from \in Nat /\ to \in Nat /\ 1 <= from /\ from .. to \subseteq BlockNumbers
  BY <1>t DEF ClientInv, Course, TypeOK, BlockNumbers
<1>1. ASSUME NEW f \in BlockNumbers, NEW t \in BlockNumbers, NEW o \in Options,
             NEW resume \in BOOLEAN, StartRun(f, t, o, resume)
      PROVE  TypeOK'
  BY <1>1, <1>t, OptionsAssumption DEF StartRun, TypeOK, BlockNumbers, Phases, files
<1>2. CASE ReadPrevious
  <2>1. CASE UNCHANGED start
    BY <1>2, <2>1, <1>t DEF ReadPrevious, Exit, TypeOK, Phases, files
  <2>2. CASE start' = disk[from - 1].first
    <3>1. from - 1 \in BlockNumbers
      BY <1>2, <1>t DEF ReadPrevious, ClientInv, Course, TypeOK, BlockNumbers
    <3>2. start' \in 0 .. Height
      BY <2>2, <3>1, <1>t, Contents DEF TypeOK
    <3> QED
      BY <1>2, <3>2, <1>t DEF ReadPrevious, Exit, TypeOK, Phases, files
  <2> QED
    BY <1>2, <2>1, <2>2 DEF ReadPrevious
<1>3. CASE Fetch
  BY <1>3, <1>t, <1>f DEF Fetch, Exit, TypeOK, Phases, run, files
<1>4. ASSUME NEW h \in BlockNumbers, CreateProofFile(h) PROVE TypeOK'
  <2>1. writing' \subseteq BlockNumbers /\ lost' \subseteq BlockNumbers
        /\ kept' \in [BlockNumbers -> 0 .. Height]
    BY <1>4, <1>t DEF CreateProofFile, TypeOK
  <2> QED
    BY <1>4, <2>1, <1>t, Contents, DiskWrites DEF CreateProofFile, TypeOK, run
<1>5. ASSUME NEW h \in BlockNumbers, WriteProofFile(h) PROVE TypeOK'
  <2>1. /\ built' \subseteq from .. to
        /\ writing' \subseteq BlockNumbers /\ pending' \subseteq BlockNumbers
    BY <1>5, <1>t DEF WriteProofFile, ClientInv, Own, TypeOK
  <2> QED
    BY <1>5, <2>1, <1>t DEF WriteProofFile, TypeOK, run
<1>6. ASSUME NEW h \in BlockNumbers, BackgroundWrite(h) PROVE TypeOK'
  <2> DEFINE c == IF opts.testOnly THEN Dummy ELSE ProofFrom(start)
  <2>1. c \in Content /\ (c.kind = "proof" => c.first \in 1 .. h)
    <3>1. h \in from .. to /\ (~opts.testOnly => start # 0 /\ start <= from)
      BY <1>6 DEF BackgroundWrite, ClientInv, Own
    <3>2. ~opts.testOnly => start \in 1 .. h /\ start \in BlockNumbers
      BY <3>1, <1>t DEF TypeOK, BlockNumbers
    <3> QED
      BY <3>2, Contents
  <2>2. /\ disk' \in [BlockNumbers -> Content]
        /\ \A g \in BlockNumbers : disk'[g].kind = "proof" => disk'[g].first \in 1 .. g
    <3>1. CASE disk' = disk
      BY <3>1, <1>t DEF TypeOK
    <3>2. CASE disk' = [disk EXCEPT ![h] = c]
      BY <3>2, <2>1, <1>t, DiskWrites DEF TypeOK
    <3> QED
      BY <1>6, <3>1, <3>2 DEF BackgroundWrite
  <2>3. pending' \subseteq BlockNumbers /\ lost' \subseteq BlockNumbers /\ faults' \in 0 .. MaxFaults
    BY <1>6, <1>f, <1>t DEF BackgroundWrite, TypeOK
  <2> QED
    BY <1>6, <2>2, <2>3, <1>t DEF BackgroundWrite, TypeOK, run
<1>7. ASSUME NEW h \in BlockNumbers, ProveBlock(h) PROVE TypeOK'
  BY <1>7, <1>t DEF ProveBlock, Unbuilt, TypeOK, run, files
<1>8. ASSUME NEW h \in BlockNumbers, Remove(h) PROVE TypeOK'
  <2>1. faults' \in 0 .. MaxFaults /\ pending' \subseteq BlockNumbers
    BY <1>8, <1>t, <1>f DEF Remove, TypeOK
  <2>2. /\ disk' \in [BlockNumbers -> Content]
        /\ \A g \in BlockNumbers : disk'[g].kind = "proof" => disk'[g].first \in 1 .. g
    BY <1>8, <1>t, Contents, DiskWrites DEF Remove, TypeOK
  <2> QED
    BY <1>8, <2>1, <2>2, <1>t DEF Remove, TypeOK, run
<1>9. CASE ProveReturns
  BY <1>9, <1>t, <1>f DEF ProveReturns, TypeOK, Phases, run, files
<1>10. CASE Close
  BY <1>10, <1>t, <1>f DEF Close, Exit, TypeOK, Phases, run, files
<1>11. CASE Report
  BY <1>11, <1>t DEF Report, Exit, TypeOK, Phases, run, files
<1>a. Running => Asked \subseteq BlockNumbers
  BY <1>r, <1>t DEF Asked, Last, TypeOK
<1>12. CASE PrintProofs
  <2>1. stdout' \subseteq BlockNumbers /\ faults' \in 0 .. MaxFaults
    BY <1>12, <1>a, <1>f, <1>t DEF PrintProofs, Running, TypeOK
  <2> QED
    BY <1>12, <2>1, <1>t DEF PrintProofs, Exit, TypeOK, Phases, run, files
<1>13. CASE CleanedUp
  BY <1>13, <1>t DEF CleanedUp, Exit, TypeOK, Phases, run, files
<1>14. CASE Terminate
  <2>1. kept' \in [BlockNumbers -> 0 .. Height]
    BY <1>14, <1>t DEF Terminate, TypeOK
  <2> QED
    BY <1>14, <2>1, <1>t DEF Terminate, TypeOK, Phases, run
<1>15. CASE Kill
  <2>1. stdout' \subseteq BlockNumbers /\ faults' \in 0 .. MaxFaults
    BY <1>15, <1>a, <1>f, <1>t DEF Kill, Running, TypeOK
  <2> QED
    BY <1>15, <2>1, <1>t DEF Kill, TypeOK, Phases, run
<1>16. CASE UNCHANGED vars
  BY <1>16, <1>t DEF vars, run, TypeOK
<1> QED
  BY <1>1, <1>2, <1>3, <1>4, <1>5, <1>6, <1>7, <1>8, <1>9, <1>10, <1>11, <1>12, <1>13, <1>14,
     <1>15, <1>16 DEF Next

-------------------------------------------------------------------------------
(* A step of a run that touches no file and prints nothing, and goes on to *)
(* a phase that its options and what it has built allow.                   *)
LEMMA Onward ==
  ASSUME ClientInv, TypeOK', Running', phase \notin {"idle", "exit"}, UNCHANGED <<from, to, opts, stdout, files>>,
         Course', Own', Written',
         built' \cup writing' = built \cup writing \/ ~opts.dir,
         code' # "ok" \/ opts.dir
  PROVE  ClientInv'
<1> USE DEF ClientInv, files
<1>1. Given'
  BY DEF Given, Own, Running
<1>2. NothingProvedIsLost'
  BY DEF NothingProvedIsLost, CoveredBy
<1>3. KeptProofCoversRun' /\ OkMeansDelivered'
  BY DEF KeptProofCoversRun, OkMeansDelivered, Running, Course
<1> QED
  BY <1>1, <1>2, <1>3

(* A step that touches no file but those of blocks the run has created.    *)
LEMMA OnlyItsFiles ==
  ASSUME ClientInv, Running, opts.dir, NEW h \in built \cup writing \cup pending,
         \A g \in BlockNumbers : g # h => disk'[g] = disk[g],
         UNCHANGED kept, lost \subseteq lost'
  PROVE  NothingProvedIsLost'
<1> SUFFICES ASSUME NEW g \in BlockNumbers, kept[g] # 0
             PROVE  CoveredBy(g, kept[g])' \/ kept[g] \in lost'
  BY DEF NothingProvedIsLost
<1>1. kept[g] # h /\ kept[g] \in BlockNumbers
  BY DEF ClientInv, Given, TypeOK, BlockNumbers
<1>2. disk'[kept[g]] = disk[kept[g]]
  BY <1>1
<1> QED
  BY <1>2 DEF ClientInv, NothingProvedIsLost, CoveredBy

(* What a run in progress promises about its end. *)
LEMMA NotYet ==
  ASSUME Running', code' = "none", stdout' = {} PROVE KeptProofCoversRun' /\ OkMeansDelivered'
  BY DEF KeptProofCoversRun, OkMeansDelivered, Running

LEMMA ClientStep == ASSUME ClientInv, [Next]_vars PROVE ClientInv'
<1> USE DEF Based
<1>t. TypeOK /\ TypeOK'
  BY ClientTypeStep DEF ClientInv
<1>r. Running => from \in Nat /\ to \in Nat /\ from <= to /\ from .. to \subseteq BlockNumbers
  BY <1>t, BoundsAssumption DEF ClientInv, Course, Running, TypeOK, BlockNumbers
<1>1. ASSUME NEW f \in BlockNumbers, NEW t \in BlockNumbers, NEW o \in Options,
             NEW resume \in BOOLEAN, StartRun(f, t, o, resume)
      PROVE  ClientInv'
  <2>1. /\ phase = "idle" /\ phase' \in {"previous", "fetch"} /\ (phase' = "previous" => f > 1)
        /\ from' = f /\ to' = t /\ opts' = o /\ start' = f /\ f <= t
        /\ built' = {} /\ writing' = {} /\ proved' = "none" /\ code' = "none" /\ stdout' = {}
        /\ UNCHANGED <<pending, disk, kept, lost>>
    BY <1>1 DEF StartRun, files
  <2>2. pending' = {}
    BY <2>1 DEF ClientInv, Own
  <2>3. Course'
    BY <2>1, <2>2, OptionsAssumption DEF Course, Running, BlockNumbers
  <2>4. Own' /\ Written' /\ Given'
    BY <2>1, <2>2 DEF Own, Written, Given
  <2>5. NothingProvedIsLost'
    BY <2>1 DEF ClientInv, NothingProvedIsLost, CoveredBy
  <2> QED
    BY <1>t, <2>1, <2>3, <2>4, <2>5, NotYet DEF ClientInv, Running
<1>2. CASE ReadPrevious
  <2>1. /\ phase = "previous"
        /\ UNCHANGED <<from, to, opts, built, writing, proved, stdout, files>>
    BY <1>2 DEF ReadPrevious
  <2>2. CASE Exit("err") /\ UNCHANGED start
    <3>1. Course' /\ Own' /\ Written'
      BY <2>1, <2>2 DEF ClientInv, Course, Own, Written, Running, Exit, files
    <3> QED
      BY <2>1, <2>2, <3>1, <1>t, Onward DEF Running, Exit
  <2>3. CASE start' = disk[from - 1].first /\ phase' = "fetch" /\ UNCHANGED code
    <3>1. disk[from - 1].kind \in {"proof", "dummy"}
      BY <1>2, <2>3 DEF ReadPrevious, Exit
    <3>2. from \in Nat /\ 1 < from /\ from - 1 \in BlockNumbers
      BY <2>1, <1>t, BoundsAssumption DEF ClientInv, Course, TypeOK, BlockNumbers
    <3>3. start' <= from
      <4>1. CASE disk[from - 1].kind = "proof"
        <5>1. disk[from - 1].first \in 1 .. (from - 1)
          BY <3>2, <4>1, <1>t DEF TypeOK
        <5> QED
          BY <2>3, <3>2, <5>1
      <4>2. CASE disk[from - 1].kind = "dummy"
        BY <2>3, <3>2, <4>2, <1>t, Contents DEF TypeOK
      <4> QED
        BY <3>1, <4>1, <4>2
    <3>4. Course' /\ Own' /\ Written'
      BY <2>1, <2>3, <3>3 DEF ClientInv, Course, Own, Written, Running, files
    <3> QED
      BY <2>1, <2>3, <3>4, <1>t, Onward DEF Running, ClientInv, Course
  <2> QED
    BY <1>2, <2>2, <2>3 DEF ReadPrevious
<1>3. CASE Fetch
  <2>1. /\ phase = "fetch" /\ UNCHANGED <<from, to, opts, start, built, writing, proved, stdout, files>>
        /\ \/ phase' = "prove" /\ code' = code
           \/ phase' = "exit" /\ code' = "err"
    BY <1>3 DEF Fetch, Exit, run
  <2>2. Course' /\ Own' /\ Written'
    BY <2>1 DEF ClientInv, Course, Own, Written, Running, files
  <2> QED
    BY <2>1, <2>2, <1>t, Onward DEF Running, ClientInv, Course
<1>4. ASSUME NEW h \in BlockNumbers, CreateProofFile(h) PROVE ClientInv'
  <2>1. /\ phase = "prove" /\ opts.dir /\ h \in (from .. to) \ built /\ h \notin writing
        /\ (~opts.testOnly => start # 0) /\ writing' = writing \cup {h}
        /\ disk' = [disk EXCEPT ![h] = Cut]
        /\ kept' = [g \in BlockNumbers |-> IF kept[g] = h THEN 0 ELSE kept[g]]
        /\ lost' = lost \ {h}
        /\ UNCHANGED <<phase, from, to, opts, start, built, pending, proved, code, stdout>>
    BY <1>4 DEF CreateProofFile, Unbuilt, Provable, run
  <2>2. Course' /\ Own'
    BY <2>1 DEF ClientInv, Course, Own, Running
  <2>3. \A g \in BlockNumbers : g # h => disk'[g] = disk[g]
    BY <2>1, <1>t DEF TypeOK
  <2>4. Written'
    <3>1. \A g \in built : g \in BlockNumbers /\ g # h
      BY <2>1, <1>r, <1>t DEF TypeOK, Running
    <3> QED
      BY <2>1, <2>3, <3>1 DEF ClientInv, Written, Handed
  <2>5. Given'
    <3>1. h # 0
      BY DEF BlockNumbers
    <3>2. 0 \notin built \cup writing \cup pending
      BY <2>1, <1>r, <1>t DEF ClientInv, Own, TypeOK, Running, BlockNumbers
    <3>3. \A f \in built \cup writing \cup pending : \A g \in BlockNumbers : kept[g] # f
      BY <2>1 DEF ClientInv, Given, Running
    <3> QED
      BY <2>1, <3>1, <3>2, <3>3 DEF Given
  <2>6. NothingProvedIsLost'
    <3> SUFFICES ASSUME NEW g \in BlockNumbers, kept'[g] # 0
                 PROVE  (CoveredBy(g, kept[g]) \/ kept[g] \in lost)'
      BY DEF NothingProvedIsLost
    <3>1. kept'[g] = kept[g] /\ kept[g] # h /\ kept[g] # 0
      BY <2>1
    <3>2. kept[g] \in BlockNumbers
      <4>1. kept[g] \in 0 .. Height
        BY <1>t DEF TypeOK
      <4> QED
        BY <3>1, <4>1, BoundsAssumption DEF BlockNumbers
    <3>3. disk'[kept[g]] = disk[kept[g]]
      BY <2>3, <3>1, <3>2
    <3> QED
      BY <2>1, <3>1, <3>3 DEF ClientInv, NothingProvedIsLost, CoveredBy
  <2>7. Running' /\ code' = "none" /\ stdout' = {}
    BY <2>1 DEF Running, ClientInv, Course
  <2> QED
    BY <1>t, <2>2, <2>4, <2>5, <2>6, <2>7, NotYet DEF ClientInv
<1>5. ASSUME NEW h \in BlockNumbers, WriteProofFile(h) PROVE ClientInv'
  <2>1. /\ phase = "prove" /\ h \in writing /\ writing' = writing \ {h}
        /\ built' = built \cup {h} /\ pending' = pending \cup {h}
        /\ UNCHANGED <<phase, from, to, opts, start, proved, code, stdout, disk, kept, lost>>
    BY <1>5 DEF WriteProofFile, run
  <2>2. Course' /\ Own'
    BY <2>1 DEF ClientInv, Course, Own, Running
  <2>3. Written' /\ Given'
    BY <2>1 DEF ClientInv, Written, Given, Handed, Running
  <2>4. NothingProvedIsLost'
    BY <2>1 DEF ClientInv, NothingProvedIsLost, CoveredBy
  <2>5. Running' /\ code' = "none" /\ stdout' = {}
    BY <2>1 DEF Running, ClientInv, Course
  <2> QED
    BY <1>t, <2>2, <2>3, <2>4, <2>5, NotYet DEF ClientInv
<1>6. ASSUME NEW h \in BlockNumbers, BackgroundWrite(h) PROVE ClientInv'
  <2>1. /\ h \in pending /\ pending' = pending \ {h}
        /\ \/ /\ disk' = [disk EXCEPT ![h] = IF opts.testOnly THEN Dummy ELSE ProofFrom(start)]
              /\ lost' = lost
           \/ disk' = disk /\ lost' = lost \cup {h}
        /\ UNCHANGED <<phase, from, to, opts, start, built, writing, proved, code, stdout, kept>>
    BY <1>6 DEF BackgroundWrite, run
  <2>2. opts.dir /\ Running
    BY <2>1 DEF ClientInv, Own, Running
  <2>3. Course' /\ Own' /\ Given'
    BY <2>1 DEF ClientInv, Course, Own, Given, Running
  <2>4. \A g \in BlockNumbers : g # h => disk'[g] = disk[g]
    BY <2>1, <1>t DEF TypeOK
  <2>5. ASSUME ~opts.testOnly, NEW g \in BlockNumbers, Handed(g) PROVE Handed(g)'
    <3>1. CASE g = h
      BY <2>1, <2>5, <3>1, <1>t DEF Handed, TypeOK
    <3>2. CASE g # h
      BY <2>1, <2>4, <2>5, <3>2 DEF Handed
    <3> QED
      BY <3>1, <3>2
  <2>6. Written'
    <3>1. to \in BlockNumbers /\ built \subseteq BlockNumbers
      BY <2>2, <1>r, <1>t DEF TypeOK
    <3> QED
      BY <2>1, <2>5, <3>1 DEF ClientInv, Written
  <2>7. NothingProvedIsLost'
    BY <2>1, <2>2, <2>4, OnlyItsFiles
  <2>8. KeptProofCoversRun' /\ OkMeansDelivered'
    BY <2>1, <2>2 DEF ClientInv, KeptProofCoversRun, OkMeansDelivered, Running
  <2> QED
    BY <1>t, <2>3, <2>6, <2>7, <2>8 DEF ClientInv
<1>7. ASSUME NEW h \in BlockNumbers, ProveBlock(h) PROVE ClientInv'
  <2>1. /\ phase = "prove" /\ ~opts.dir
        /\ UNCHANGED <<phase, from, to, opts, start, writing, code, stdout, files>>
    BY <1>7 DEF ProveBlock, run
  <2>2. Course' /\ Own' /\ Written'
    BY <2>1 DEF ClientInv, Course, Own, Running, Written, files
  <2> QED
    BY <2>1, <2>2, <1>t, Onward DEF Running, ClientInv, Course
<1>8. ASSUME NEW h \in BlockNumbers, Remove(h) PROVE ClientInv'
  <2>1. /\ phase = "cleanup" /\ h \in built \ {to}
        /\ \/ disk' = [disk EXCEPT ![h] = Absent] /\ pending' = pending \ {h}
           \/ UNCHANGED <<disk, pending>>
        /\ built' = built \ {h}
        /\ UNCHANGED <<phase, from, to, opts, start, writing, proved, code, stdout, kept, lost>>
    BY <1>8 DEF Remove, Intermediate, run
  <2>2. opts.dir /\ Running
    BY <2>1 DEF ClientInv, Course, Running
  <2>3. Course' /\ Own' /\ Given'
    BY <2>1 DEF ClientInv, Course, Own, Given, Running
  <2>4. \A g \in BlockNumbers : g # h => disk'[g] = disk[g]
    BY <2>1, <1>t DEF TypeOK
  <2>5. Written'
    <3>1. to \in BlockNumbers
      BY <2>2, <1>r
    <3> QED
      BY <2>1, <2>4, <3>1 DEF ClientInv, Written, Handed
  <2>6. NothingProvedIsLost'
    BY <2>1, <2>2, <2>4, OnlyItsFiles
  <2>7. Running' /\ code' = "none" /\ stdout' = {}
    BY <2>1 DEF Running, ClientInv, Course
  <2> QED
    BY <1>t, <2>3, <2>5, <2>6, <2>7, NotYet DEF ClientInv
<1>9. CASE ProveReturns
  <2>1. /\ phase = "prove" /\ phase' = "close"
        /\ proved' = "ok" => (from .. to) \ built = {}
        /\ UNCHANGED <<from, to, opts, start, built, writing, code, stdout, files>>
    BY <1>9 DEF ProveReturns, Unbuilt, run
  <2>2. Course' /\ Own' /\ Written'
    BY <2>1, <1>t DEF ClientInv, Course, Own, Running, Written, Handed, TypeOK, files
  <2> QED
    BY <2>1, <2>2, <1>t, Onward DEF Running, ClientInv, Course
<1>10. CASE Close
  <2>1. /\ phase = "close" /\ UNCHANGED <<from, to, opts, start, built, writing, proved, stdout, files>>
        /\ \/ proved = "ok" /\ phase' = "report" /\ code' = code
           \/ phase' = "exit" /\ code' = "err"
    BY <1>10 DEF Close, Exit, run
  <2>2. Course' /\ Own' /\ Written'
    BY <2>1 DEF ClientInv, Course, Own, Running, Written, Handed, files
  <2> QED
    BY <2>1, <2>2, <1>t, Onward DEF Running, ClientInv, Course
<1>11. CASE Report
  <2>1. /\ phase = "report" /\ UNCHANGED <<from, to, opts, start, built, writing, proved, stdout, files>>
        /\ \/ ~opts.dir /\ phase' = "print" /\ code' = code
           \/ opts.dir /\ ~opts.keep /\ phase' = "cleanup" /\ code' = code
           \/ opts.dir /\ opts.keep /\ phase' = "exit" /\ code' = "ok"
    BY <1>11 DEF Report, Exit, run
  <2>2. to \in built
    BY <2>1, <1>r DEF ClientInv, Course, Running
  <2>3. Course' /\ Own'
    BY <2>1 DEF ClientInv, Course, Own, Running, files
  <2>4. Written'
    BY <2>1, <2>2 DEF ClientInv, Written, Handed, files
  <2> QED
    BY <2>1, <2>3, <2>4, <1>t, Onward DEF Running, ClientInv, Course
<1>12. CASE PrintProofs
  <2>1. /\ phase = "print" /\ phase' = "exit" /\ code' \in {"ok", "err"}
        /\ code' = "ok" => stdout' = Asked
        /\ UNCHANGED <<from, to, opts, start, built, writing, proved, files>>
    BY <1>12 DEF PrintProofs, Exit, run
  <2>2. ~opts.dir /\ built = from .. to /\ proved = "ok" /\ to \in built
    BY <2>1, <1>r DEF ClientInv, Course, Running
  <2>3. Course' /\ Own' /\ Written' /\ Given'
    BY <2>1, <2>2 DEF ClientInv, Course, Own, Written, Given, Running, files
  <2>4. NothingProvedIsLost'
    BY <2>1 DEF ClientInv, NothingProvedIsLost, CoveredBy, files
  <2>5. to \in Asked /\ (opts.mode = "stdio" \/ opts.keep => Asked = from .. to)
    BY <2>1, <2>2, <1>r DEF Asked, Last, Running
  <2>6. KeptProofCoversRun' /\ OkMeansDelivered'
    BY <2>1, <2>2, <2>5 DEF KeptProofCoversRun, OkMeansDelivered
  <2> QED
    BY <1>t, <2>3, <2>4, <2>6 DEF ClientInv
<1>13. CASE CleanedUp
  <2>1. /\ phase = "cleanup" /\ phase' = "exit" /\ code' = "ok"
        /\ UNCHANGED <<from, to, opts, start, built, writing, proved, stdout, files>>
    BY <1>13 DEF CleanedUp, Exit, run
  <2>2. Course' /\ Own' /\ Written'
    BY <2>1 DEF ClientInv, Course, Own, Running, Written, Handed, files
  <2> QED
    BY <2>1, <2>2, <1>t, Onward DEF Running, ClientInv, Course
<1>14. CASE Terminate
  <2>1. /\ phase = "exit" /\ pending = {} /\ phase' = "idle"
        /\ kept' = IF code = "ok" /\ opts.dir /\ ~opts.testOnly
                   THEN [h \in BlockNumbers |-> IF h \in from .. to THEN to ELSE kept[h]]
                   ELSE kept
        /\ UNCHANGED <<from, to, opts, start, built, writing, pending, proved, code, stdout, disk, lost>>
    BY <1>14 DEF Terminate, run
  <2>2. Course' /\ Own' /\ Written' /\ Given'
    BY <2>1 DEF ClientInv, Course, Own, Written, Given, Running
  <2>3. ASSUME code = "ok", opts.dir, ~opts.testOnly
        PROVE  to \in lost \/ \A h \in start .. to : CoveredBy(h, to)
    <3>1. disk[to] = ProofFrom(start) \/ to \in lost
      BY <2>1, <2>3 DEF ClientInv, Written, Handed
    <3> QED
      BY <3>1, <1>t, Contents DEF CoveredBy, TypeOK
  <2>4. NothingProvedIsLost'
    <3>1. CASE code = "ok" /\ opts.dir /\ ~opts.testOnly
      <4>1. start <= from /\ start \in Nat
        BY <2>1, <3>1, <1>t DEF ClientInv, Course, TypeOK
      <4>2. \A h \in from .. to : h \in start .. to
        BY <4>1, <1>r, <2>1 DEF Running
      <4> QED
        BY <2>1, <2>3, <3>1, <4>2 DEF ClientInv, NothingProvedIsLost, CoveredBy
    <3>2. CASE ~(code = "ok" /\ opts.dir /\ ~opts.testOnly)
      BY <2>1, <3>2 DEF ClientInv, NothingProvedIsLost, CoveredBy
    <3> QED
      BY <3>1, <3>2
  <2>5. KeptProofCoversRun' /\ OkMeansDelivered'
    BY <2>1, <2>3 DEF ClientInv, KeptProofCoversRun, OkMeansDelivered, CoveredBy
  <2> QED
    BY <1>t, <2>2, <2>4, <2>5 DEF ClientInv
<1>15. CASE Kill
  <2>1. /\ phase # "idle" /\ phase' = "idle" /\ code' = "err" /\ pending' = {}
        /\ phase = "print" \/ stdout' = stdout
        /\ UNCHANGED <<from, to, opts, start, built, writing, proved, disk, kept, lost>>
    BY <1>15 DEF Kill, run
  <2>2. Course' /\ Own' /\ Written' /\ Given'
    BY <2>1 DEF ClientInv, Course, Own, Written, Given, Running
  <2>3. NothingProvedIsLost'
    BY <2>1 DEF ClientInv, NothingProvedIsLost, CoveredBy
  <2>4. KeptProofCoversRun' /\ OkMeansDelivered'
    BY <2>1 DEF ClientInv, Course, KeptProofCoversRun, OkMeansDelivered
  <2> QED
    BY <1>t, <2>2, <2>3, <2>4 DEF ClientInv
<1>16. CASE UNCHANGED vars
  BY <1>16, <1>t DEF vars, run, ClientInv, Course, Own, Written, Given, Handed, CoveredBy, Running,
     NothingProvedIsLost, KeptProofCoversRun, OkMeansDelivered
<1> QED
  BY <1>1, <1>2, <1>3, <1>4, <1>5, <1>6, <1>7, <1>8, <1>9, <1>10, <1>11, <1>12, <1>13, <1>14,
     <1>15, <1>16 DEF Next

(* The inductive invariant: what a run writes are files it has created     *)
(* itself, after which they are no longer those of an earlier run.         *)
THEOREM ClientInvariance == Spec => []ClientInv
  BY ClientInitially, ClientStep, PTL DEF Spec

(* Type correctness of LeaderClient. *)
THEOREM ClientTypes == Spec => []TypeOK
  BY ClientInvariance, PTL DEF ClientInv

(* The file in which a successful run left its proof covers every block of *)
(* the run through failures, kills, cleaning up and runs over any blocks,  *)
(* until a run creates that file anew, or if its background write failed.  *)
THEOREM NothingLost == Spec => []NothingProvedIsLost
  BY ClientInvariance, PTL DEF ClientInv

(* The last file that a successful run keeps covers it from the start of   *)
(* the chain of runs when the process has ended, if its background write   *)
(* did not fail.                                                           *)
THEOREM KeptProofCovers == Spec => []KeptProofCoversRun
  BY ClientInvariance, PTL DEF ClientInv

(* A successful run without a directory has printed what was asked for;    *)
(* nothing is printed before all is proved and the runtime is closed.      *)
THEOREM Delivered == Spec => []OkMeansDelivered
  BY ClientInvariance, PTL DEF ClientInv

===============================================================================
