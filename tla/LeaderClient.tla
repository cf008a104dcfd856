------------------------------ MODULE LeaderClient ------------------------------
(***************************************************************************)
(* Consecutive runs of the leader over one directory of proofs:            *)
(* client_main (leader/src/client.rs) as tools/prove_rpc.sh calls it, each *)
(* run continuing from the proof file of the block before its first, and   *)
(* stdio_main (leader/src/stdio.rs).  Any step may fail and the process    *)
(* may be killed at any point.                                             *)
(*                                                                         *)
(* Proving is abstracted to what ProverInput guarantees: proofs of a run   *)
(* are made, and handed to their files, in block order (test_only: in any  *)
(* order); a file is written in the background.                            *)
(*                                                                         *)
(* An operator Mut_X is a mistake that X could contain.                    *)
(***************************************************************************)
EXTENDS Naturals

CONSTANTS
  Options,    \* the options a run may be given
  Height,     \* bound: highest block number
  MaxRuns,    \* bound: runs of the leader
  MaxFaults   \* bound: kills and failures of the file system, the node and the runtime

(* A client or a stdio leader; proof_output_dir is given;                  *)
(* keep_intermediate_proofs; built with the feature test_only.             *)
Option == [mode : {"client", "stdio"}, dir : BOOLEAN, keep : BOOLEAN, testOnly : BOOLEAN]

ASSUME OptionsAssumption ==
  /\ Options \subseteq Option
  /\ \A o \in Options : o.mode = "stdio" => ~o.dir /\ ~o.keep
ASSUME BoundsAssumption == Height \in Nat /\ MaxRuns \in Nat /\ MaxFaults \in Nat

BlockNumbers == 1 .. Height

(* A file holds the proof of blocks first .. h (h is in its name), the     *)
(* dummy proof of a test_only run, nothing readable, or does not exist.    *)
Absent    == [kind |-> "absent", first |-> 0]
Cut       == [kind |-> "cut", first |-> 0]
Dummy     == [kind |-> "dummy", first |-> 0]
ProofFrom(f) == [kind |-> "proof", first |-> f]
Content   == {Absent, Cut, Dummy} \cup {ProofFrom(f) : f \in BlockNumbers}

VARIABLES
  phase,      \* what the leader is doing
  from, to,   \* the blocks of its run
  opts,       \* its options
  start,      \* the first block its proofs cover, or 0 on top of a dummy proof
  built,      \* the blocks it has proved, and handed to their files
  writing,    \* the blocks whose files it has created and not yet filled
  pending,    \* the blocks whose bytes tokio has still to write
  proved,     \* what prove() returned: "none", "ok" or "err"
  code,       \* how it ended: "none", "ok" or "err"
  stdout,     \* the blocks whose proofs it has printed
  disk,       \* the proof files, by block number
  kept,       \* history: the file in which the last successful run over a block left
              \* its proof, or 0: no run, or the file was created anew since
  lost,       \* history: the files whose last write failed in the background
  runs, faults

run  == <<from, to, opts, start>>
vars == <<phase, run, built, writing, pending, proved, code, stdout, disk, kept, lost,
          runs, faults>>

Phases == {"idle", "previous", "fetch", "prove", "close", "report", "print", "cleanup", "exit"}

TypeOK ==
  /\ phase \in Phases
  /\ from \in 0 .. Height /\ to \in 0 .. Height /\ start \in 0 .. Height
  /\ opts \in Option
  /\ built \subseteq from .. to
  /\ writing \subseteq BlockNumbers /\ pending \subseteq BlockNumbers
  /\ proved \in {"none", "ok", "err"}
  /\ code \in {"none", "ok", "err"}
  /\ stdout \subseteq BlockNumbers
  /\ disk \in [BlockNumbers -> Content]
  /\ \A h \in BlockNumbers : disk[h].kind = "proof" => disk[h].first \in 1 .. h
  /\ kept \in [BlockNumbers -> 0 .. Height]
  /\ lost \subseteq BlockNumbers
  /\ runs \in 0 .. MaxRuns /\ faults \in 0 .. MaxFaults

Init ==
  /\ phase = "idle" /\ from = 0 /\ to = 0 /\ opts \in Options /\ start = 0
  /\ built = {} /\ writing = {} /\ pending = {} /\ proved = "none"
  /\ code = "none" /\ stdout = {}
  /\ disk = [h \in BlockNumbers |-> Absent]
  /\ kept = [h \in BlockNumbers |-> 0] /\ lost = {}
  /\ runs = 0 /\ faults = 0

Fault == faults < MaxFaults /\ faults' = faults + 1

files == <<pending, disk, kept, lost>>

(* main returns.  The process ends when tokio has no write left: Terminate. *)
Exit(c) == phase' = "exit" /\ code' = c

-------------------------------------------------------------------------------
(* A run is started on top of the file of the block before its first (-f)  *)
(* or of a checkpoint, on any blocks, proved before or not.                *)
StartRun(f, t, o, resume) ==
  /\ phase = "idle" /\ runs < MaxRuns
  /\ f <= t /\ (resume => f > 1)
  /\ phase' = IF resume THEN "previous" ELSE "fetch"
  /\ from' = f /\ to' = t /\ opts' = o /\ start' = f
  /\ built' = {} /\ writing' = {} /\ proved' = "none"
  /\ code' = "none" /\ stdout' = {}
  /\ runs' = runs + 1
  /\ UNCHANGED <<files, faults>>

(* get_previous_proof opens and parses the file of the block before. *)
ReadPrevious ==
  /\ phase = "previous"
  /\ \/ /\ disk[from - 1].kind \in {"proof", "dummy"}
        /\ start' = disk[from - 1].first
        /\ phase' = "fetch"
        /\ UNCHANGED code
     \/ /\ disk[from - 1].kind \in {"absent", "cut"}
        /\ Exit("err")
        /\ UNCHANGED start
  /\ UNCHANGED <<from, to, opts, built, writing, proved, stdout, files, runs, faults>>

(* rpc::prover_input (client), or the list of blocks read from stdin. *)
Fetch ==
  /\ phase = "fetch"
  /\ \/ /\ phase' = "prove"
        /\ UNCHANGED <<code, faults>>
     \/ Fault /\ Exit("err")
  /\ UNCHANGED <<run, built, writing, proved, stdout, files, runs>>

-------------------------------------------------------------------------------
(* ProverInput::prove *)

Unbuilt == (from .. to) \ built

(* A block is proved on top of the one before, and not on top of a dummy   *)
(* proof.  test_only simulates each block by itself.                       *)
Mut_Provable(h) == ~opts.testOnly => \A g \in Unbuilt : h <= g

Provable(h) == ~opts.testOnly => start # 0 /\ \A g \in Unbuilt : h <= g

(* The file of a block is created, which truncates an older one.  What     *)
(* that one proved is given up.                                            *)
CreateProofFile(h) ==
  /\ phase = "prove" /\ opts.dir
  /\ h \in Unbuilt \ writing /\ Provable(h)
  /\ writing' = writing \cup {h}
  /\ disk' = [disk EXCEPT ![h] = Cut]
  /\ kept' = [g \in BlockNumbers |-> IF kept[g] = h THEN 0 ELSE kept[g]]
  /\ lost' = lost \ {h}
  /\ UNCHANGED <<phase, run, built, pending, proved, code, stdout, runs, faults>>

(* write_all returns once tokio has the bytes, and the next block goes on. *)
WriteProofFile(h) ==
  /\ phase = "prove" /\ h \in writing
  /\ built'   = built \cup {h}
  /\ writing' = writing \ {h}
  /\ pending' = pending \cup {h}
  /\ UNCHANGED <<phase, run, proved, code, stdout, disk, kept, lost, runs, faults>>

(* The background write, whose error is reported to nobody. *)
BackgroundWrite(h) ==
  /\ h \in pending
  /\ pending' = pending \ {h}
  /\ \/ /\ disk' = [disk EXCEPT ![h] = IF opts.testOnly THEN Dummy ELSE ProofFrom(start)]
        /\ UNCHANGED <<lost, faults>>
     \/ /\ Fault /\ lost' = lost \cup {h}
        /\ UNCHANGED disk
  /\ UNCHANGED <<phase, run, built, writing, proved, code, stdout, kept, runs>>

ProveBlock(h) ==
  /\ phase = "prove" /\ ~opts.dir
  /\ h \in Unbuilt /\ Provable(h)
  /\ built' = built \cup {h}
  /\ UNCHANGED <<phase, run, writing, proved, code, stdout, files, runs, faults>>

(* In the test_only build a block may also fail to send its proof to a     *)
(* successor that was simulated before it.                                 *)
ProveReturns ==
  /\ phase = "prove"
  /\ \/ Unbuilt = {} /\ proved' = "ok" /\ UNCHANGED faults
     \/ Unbuilt # {} /\ Fault /\ proved' = "err"
     \/ ~opts.testOnly /\ start = 0 /\ proved' = "err" /\ UNCHANGED faults
     \/ /\ opts.testOnly /\ \E h \in built : h < to
        /\ proved' = "err" /\ UNCHANGED faults
  /\ phase' = "close"
  /\ UNCHANGED <<run, built, writing, code, stdout, files, runs>>

-------------------------------------------------------------------------------
(* runtime.close().await? and then proved_blocks?: an error of either ends *)
(* the run before anything is printed or cleaned up.                       *)
Mut_Close ==
  /\ phase = "close"
  /\ phase' = "report"
  /\ UNCHANGED <<run, built, writing, proved, code, stdout, files, runs, faults>>

Close ==
  /\ phase = "close"
  /\ \/ Fault /\ Exit("err")
     \/ proved = "err" /\ Exit("err") /\ UNCHANGED faults
     \/ /\ proved = "ok"
        /\ phase' = "report"
        /\ UNCHANGED <<code, faults>>
  /\ UNCHANGED <<run, built, writing, proved, stdout, files, runs>>

(* The proofs are to be printed, or, when they are on disk, kept or        *)
(* cleaned up.                                                             *)
Report ==
  /\ phase = "report"
  /\ \/ ~opts.dir /\ phase' = "print" /\ UNCHANGED code
     \/ opts.dir /\ ~opts.keep /\ phase' = "cleanup" /\ UNCHANGED code
     \/ opts.dir /\ opts.keep /\ Exit("ok")
  /\ UNCHANGED <<run, built, writing, proved, stdout, files, runs, faults>>

Mut_Last(blocks) == {h \in blocks : \A g \in blocks : g >= h}

Last(blocks) == {h \in blocks : \A g \in blocks : g <= h}

Asked == IF opts.mode = "stdio" \/ opts.keep THEN built ELSE Last(built)

(* to_vec and write_all to stdout, which may fail after any part of it.    *)
PrintProofs ==
  /\ phase = "print"
  /\ \/ stdout' = Asked /\ Exit("ok") /\ UNCHANGED faults
     \/ stdout' \in SUBSET Asked /\ Fault /\ Exit("err")
  /\ UNCHANGED <<run, built, writing, proved, files, runs>>

(* The files of all blocks but the last, the highest first; an error is    *)
(* logged and the next one is tried.  What is still to be written to a     *)
(* file that is removed goes nowhere.                                      *)
Mut_Intermediate == built \ {from}

Intermediate == built \ {to}

Remove(h) ==
  /\ phase = "cleanup"
  /\ h \in Intermediate /\ \A g \in Intermediate : g <= h
  /\ \/ /\ disk' = [disk EXCEPT ![h] = Absent]
        /\ pending' = pending \ {h}
        /\ UNCHANGED faults
     \/ Fault /\ UNCHANGED <<disk, pending>>
  /\ built' = built \ {h}
  /\ UNCHANGED <<phase, run, writing, proved, code, stdout, kept, lost, runs>>

CleanedUp ==
  /\ phase = "cleanup" /\ Intermediate = {}
  /\ Exit("ok")
  /\ UNCHANGED <<run, built, writing, proved, stdout, files, runs, faults>>

(* The runtime waits for its background writes before the process ends. *)
Terminate ==
  /\ phase = "exit" /\ pending = {}
  /\ phase' = "idle"
  /\ kept' = IF code = "ok" /\ opts.dir /\ ~opts.testOnly
             THEN [h \in BlockNumbers |-> IF h \in from .. to THEN to ELSE kept[h]]
             ELSE kept
  /\ UNCHANGED <<run, built, writing, pending, proved, code, stdout, disk, lost, runs, faults>>

(* The process is killed, and its background writes with it. *)
Kill ==
  /\ phase # "idle"
  /\ Fault
  /\ phase' = "idle" /\ code' = "err"
  /\ pending' = {}
  /\ stdout' \in IF phase = "print" THEN SUBSET Asked ELSE {stdout}
  /\ UNCHANGED <<run, built, writing, proved, disk, kept, lost, runs>>

Next ==
  \/ \E f, t \in BlockNumbers, o \in Options, resume \in BOOLEAN :
       StartRun(f, t, o, resume)
  \/ ReadPrevious \/ Fetch
  \/ \E h \in BlockNumbers :
       CreateProofFile(h) \/ WriteProofFile(h) \/ BackgroundWrite(h) \/ ProveBlock(h) \/ Remove(h)
  \/ ProveReturns
  \/ Close \/ Report \/ PrintProofs \/ CleanedUp
  \/ Terminate \/ Kill

Spec == Init /\ [][Next]_vars

-------------------------------------------------------------------------------
(* Properties *)

CoveredBy(h, g) == disk[g].kind = "proof" /\ disk[g].first <= h /\ h <= g

(* The file in which a successful run left the proof of its blocks covers  *)
(* each of them for as long as no run creates that same file anew: neither *)
(* failing, being killed, cleaning up nor proving other blocks on top or   *)
(* below loses one.  The exception is a background write that failed.      *)
NothingProvedIsLost ==
  \A h \in BlockNumbers : kept[h] # 0 => CoveredBy(h, kept[h]) \/ kept[h] \in lost

(* The last proof that a successful run keeps covers the whole sequence,   *)
(* from the first block of the chain of runs to the last of the run        *)
(* (leader/src/client.rs:55-57), when the process has ended; unless its    *)
(* background write failed, which nothing reports.                         *)
KeptProofCoversRun ==
  phase = "idle" /\ code = "ok" /\ opts.dir /\ ~opts.testOnly =>
    to \in lost \/ \A h \in start .. to : CoveredBy(h, to)

(* A successful run without a directory has printed the last proof of its  *)
(* blocks, and all of them when a list is asked for.  Whatever a run has   *)
(* printed, failed or killed while it was at it, is of blocks all of which *)
(* were proved, with the runtime closed.                                   *)
OkMeansDelivered ==
  /\ code = "ok" /\ ~opts.dir =>
       /\ to \in stdout
       /\ opts.mode = "stdio" \/ opts.keep => stdout = from .. to
  /\ stdout # {} => proved = "ok" /\ built = from .. to

===============================================================================
