------------------------------ MODULE CircuitStore ------------------------------
(***************************************************************************)
(* The preprocessed circuits on disk (common/src/prover_state): processes  *)
(* that share one circuits folder (leaders that prove in memory, workers,  *)
(* verifiers) start, load their circuits from it or generate and persist   *)
(* them, and, once ready, prove transactions, an on-demand prover loading  *)
(* from the folder the tables each transaction needs.  Nothing locks the   *)
(* folder, a process may be killed between any two file operations, and    *)
(* new releases of the prover are checked out and installed meanwhile.     *)
(*                                                                         *)
(* An operator Mut_X is a mistake that X could contain.                    *)
(***************************************************************************)
EXTENDS Naturals, FiniteSets

CONSTANTS
  Procs,        \* the processes
  CommandLines, \* a program, its arguments (persistence, load_strategy, size of each circuit)
                \* and what its environment names as the version of the circuits
  Fleets,       \* which command lines may run together
  NotGiven,     \* an argument or a variable of the environment that is not given
  DefaultSize,  \* the default size of each circuit
  NumCircuits,  \* how many table circuits there are
  Sizes,        \* all sizes a table may be asked for
  MaxVersion,   \* bound: releases of the prover
  Series,       \* of each release, the first one with the same major and minor version
  MaxFaults,    \* bound: processes killed and writes that fail
  MaxTxns,      \* bound: transactions proved
  MaxStarts,    \* bound: starts of all processes
  FolderExists, \* the circuits folder exists from the start
  HasLock       \* the source tree has a Cargo.lock

(* The table circuits, in the order they are stored. *)
Circuits == 1 .. NumCircuits

(* A range of sizes <<start, end>>, without its end. *)
Ranges == Nat \X Nat

(* A path names a series of releases, as "0.4.x" does, or "NA". *)
Versions == 1 .. MaxVersion
NA       == 0
Labels   == {NA} \cup Versions

ASSUME ProcsAssumption ==
  /\ NotGiven \notin Ranges \cup Labels
  /\ CommandLines \subseteq [program       : {"leader", "worker", "verifier"},
                             persistence   : {"none", "disk"},
                             load_strategy : {"on-demand", "monolithic"},
                             size          : [Circuits -> Ranges \cup {NotGiven}],
                             env           : Labels \cup {NotGiven}]
  /\ Fleets \subseteq [Procs -> CommandLines]
ASSUME CircuitsAssumption == /\ NumCircuits \in Nat
                             /\ Sizes \subseteq Nat /\ Sizes # {}
                             /\ DefaultSize \in [Circuits -> Ranges]
ASSUME BoundsAssumption  == /\ MaxVersion \in Nat \ {0} /\ MaxFaults \in Nat /\ MaxTxns \in Nat
                            /\ MaxStarts \in Nat
                            /\ FolderExists \in BOOLEAN /\ HasLock \in BOOLEAN
                            /\ Series \in [Versions -> Versions]

(***************************************************************************)
(* The command line: whether and how to load from disk, and the sizes,     *)
(* each its argument or the default.                                       *)
(***************************************************************************)
StrategyOf(args) == IF args.persistence = "none" THEN "none" ELSE args.load_strategy

ConfigOf(args) ==
  [k \in Circuits |-> IF args.size[k] = NotGiven THEN DefaultSize[k] ELSE args.size[k]]

Configs == {ConfigOf(args) : args \in CommandLines}

SizesOf(c, k) == {s \in Sizes : c[k][1] <= s /\ s < c[k][2]}

(***************************************************************************)
(* Files.  Their paths name what the process that asks for them has in its *)
(* environment as the version, or "NA", and the sizes of the               *)
(* configuration; a table's path names only its circuit and size.          *)
(***************************************************************************)
Mut_Base(l, c) == <<"base", NA, c>>

Base(l, c)     == <<"base", l, c>>

Mono(l, c)     == <<"mono", l, c>>
Verif(l, c)    == <<"verif", l, c>>
Table(l, k, s) == <<"table", l, k, s>>

Mut_TablesOf(l, c) == UNION {{Table(l, k, s + 1) : s \in SizesOf(c, k)} : k \in Circuits}

TablesOf(l, c) == UNION {{Table(l, k, s) : s \in SizesOf(c, k)} : k \in Circuits}

Files ==
  {Base(l, c) : l \in Labels, c \in Configs} \cup {Mono(l, c) : l \in Labels, c \in Configs}
    \cup {Verif(l, c) : l \in Labels, c \in Configs}
    \cup {Table(l, k, s) : l \in Labels, k \in Circuits, s \in Sizes}

(* What a file holds: nothing; the circuits of a version; or it is cut, by *)
(* the process that truncated it last, or torn by two versions that were   *)
(* written over each other.                                                *)
Absent         == <<>>
Circuitry(v)   == <<"version", v>>
CutBy(p)       == <<"cut", p>>
Torn           == <<"torn">>

Contents == {Absent, Torn} \cup {CutBy(p) : p \in Procs} \cup {Circuitry(v) : v \in Versions}

(* persist_all_to_disk writes the base, the monolithic bundle, the tables  *)
(* by circuit and size, and the verifier data.                             *)
Before(f, g) ==
  \/ f[1] = "base" /\ g[1] # "base"
  \/ f[1] = "mono" /\ g[1] \in {"table", "verif"}
  \/ f[1] = "table" /\ g[1] = "verif"
  \/ f[1] = "table" /\ g[1] = "table" /\ (f[3] < g[3] \/ (f[3] = g[3] /\ f[4] < g[4]))

IsFirst(f, files) == f \in files /\ \A g \in files \ {f} : Before(f, g)

VARIABLES
  runs,      \* the command line of every process
  checkout,  \* the version that Cargo.lock in the source tree names
  installed, \* the version that the installed programs were built from
  folder,    \* the circuits folder exists
  disk,      \* what every file holds
  pc,        \* what each process is doing
  build,     \* the version each was built from
  label,     \* the version that its paths name
  todo,      \* the files it has still to persist
  held,      \* the circuits it holds in memory: none, the verifier's, the upper ones, or all
  foreign,   \* the versions other than its own whose circuits it has loaded
  need,      \* the table sizes of the transaction it is proving
  loaded,    \* the circuits whose table it has loaded for it
  txn,       \* how its last transaction ended
  txns,      \* transactions begun
  faults,    \* processes killed and writes that failed
  ioError,   \* one of them was a write
  starts,    \* starts of processes
  mislabelled \* a leader took its version from a check-out of another series than its build

fixed   == <<runs>>
release == <<checkout, installed>>
start   == <<build, label, starts, mislabelled>>
job     == <<need, loaded, txn, txns>>
trouble == <<faults, ioError>>
vars    == <<fixed, release, folder, disk, pc, start, todo, held, foreign, job, trouble>>

PC == {"down", "load", "generate", "check", "mkdir", "open", "write", "ready", "tables", "failed"}

(* A transaction is proved; or its table file could not be read, or a size *)
(* outside the configured range was asked for and the read failed; or the  *)
(* table was read but its offset in the range does not exist; or circuits  *)
(* of another version were used, with whatever result.                     *)
TxnResults == {"none", "proved", "missing", "unsupported", "bad_offset", "stale"}

NoSizes == [k \in Circuits |-> CHOOSE s \in Sizes : TRUE]

TypeOK ==
  /\ runs \in Fleets
  /\ checkout \in Versions /\ installed \in Versions
  /\ folder \in BOOLEAN
  /\ disk   \in [Files -> Contents]
  /\ pc     \in [Procs -> PC]
  /\ build  \in [Procs -> Versions] /\ label \in [Procs -> Labels]
  /\ todo   \in [Procs -> SUBSET Files]
  /\ held   \in [Procs -> {"none", "verifier", "upper", "all"}]
  /\ foreign \in [Procs -> SUBSET Versions]
  /\ need   \in [Procs -> [Circuits -> Sizes]]
  /\ loaded \in [Procs -> SUBSET Circuits]
  /\ txn    \in [Procs -> TxnResults]
  /\ txns \in 0 .. MaxTxns /\ faults \in 0 .. MaxFaults
  /\ starts \in 0 .. MaxStarts
  /\ mislabelled \in BOOLEAN /\ ioError \in BOOLEAN

Program(p)  == runs[p].program
Strategy(p) == StrategyOf(runs[p])
Config(p)   == ConfigOf(runs[p])

Init ==
  /\ runs \in Fleets
  /\ checkout = 1 /\ installed = 1
  /\ folder = FolderExists
  /\ disk   = [f \in Files |-> Absent]
  /\ pc     = [p \in Procs |-> "down"]
  /\ build  = [p \in Procs |-> 1] /\ label = [p \in Procs |-> NA]
  /\ todo   = [p \in Procs |-> {}]
  /\ held   = [p \in Procs |-> "none"]
  /\ foreign = [p \in Procs |-> {}]
  /\ need   = [p \in Procs |-> NoSizes]
  /\ loaded = [p \in Procs |-> {}]
  /\ txn    = [p \in Procs |-> "none"]
  /\ txns = 0 /\ faults = 0
  /\ starts = 0 /\ mislabelled = FALSE /\ ioError = FALSE

Goto(p, l) == pc' = [pc EXCEPT ![p] = l]

-------------------------------------------------------------------------------
(* A new release is checked out, and later built and installed. *)

CheckOut ==
  /\ checkout < MaxVersion
  /\ checkout' = checkout + 1
  /\ UNCHANGED <<fixed, installed, folder, disk, pc, start, todo, held, foreign, job, trouble>>

Install ==
  /\ installed # checkout
  /\ installed' = checkout
  /\ UNCHANGED <<fixed, checkout, folder, disk, pc, start, todo, held, foreign, job, trouble>>

-------------------------------------------------------------------------------
(* main, ProverStateManager::initialize and ::verifier *)

(* get_package_version looks the version up in the Cargo.lock of the source *)
(* tree the program was built in (which is still there: without it the      *)
(* leader does not start).                                                  *)
PackageVersion == IF HasLock THEN checkout ELSE NA

(* The leader reduces it to "major.minor.x" and puts it into its           *)
(* environment, unless a version is there already, set by the operator or  *)
(* in .env; the others take what is in theirs.                             *)
TakesVersion(p) == Program(p) = "leader" /\ runs[p].env = NotGiven /\ PackageVersion # NA

PathVersion(p) ==
  IF TakesVersion(p) THEN Series[PackageVersion]
  ELSE IF runs[p].env = NotGiven THEN NA ELSE runs[p].env

Start(p) ==
  /\ pc[p] = "down"
  /\ starts < MaxStarts /\ starts' = starts + 1
  /\ Goto(p, "load")
  /\ build' = [build EXCEPT ![p] = installed]
  /\ label' = [label EXCEPT ![p] = PathVersion(p)]
  /\ mislabelled' = (mislabelled \/ (TakesVersion(p) /\ PathVersion(p) # Series[installed]))
  /\ UNCHANGED <<fixed, release, folder, disk, todo, held, foreign, job, trouble>>

(* The file a start looks for, and what it holds once it has read it. *)
Mut_StartFile(p) ==
  IF Program(p) = "verifier" THEN Verif(label[p], Config(p)) ELSE Base(label[p], Config(p))

StartFile(p) ==
  IF Program(p) = "verifier" THEN Verif(label[p], Config(p))
  ELSE IF Strategy(p) = "monolithic" THEN Mono(label[p], Config(p))
  ELSE Base(label[p], Config(p))

HeldFrom(f) ==
  CASE f[1] = "mono"  -> "all"
    [] f[1] = "base"  -> "upper"
    [] f[1] = "verif" -> "verifier"

(* A file that is absent or cut does not deserialize; one that another     *)
(* version wrote may or may not.                                           *)
VersionIn(f)        == {v \in Versions : disk[f] = Circuitry(v)}
CanRead(f)          == VersionIn(f) # {}
CanFailToRead(p, f) == disk[f] # Circuitry(build[p])

Mut_Load(p) ==
  /\ pc[p] = "load"
  /\ \/ /\ Strategy(p) # "none" /\ CanRead(StartFile(p))
        /\ Goto(p, "ready")
        /\ held' = [held EXCEPT ![p] = HeldFrom(StartFile(p))]
     \/ /\ Strategy(p) = "none" \/ disk[StartFile(p)] = Absent
        /\ Goto(p, "generate")
        /\ UNCHANGED held
  /\ UNCHANGED <<fixed, release, folder, disk, start, todo, foreign, job, trouble>>

Load(p) ==
  /\ pc[p] = "load"
  /\ \/ /\ Strategy(p) # "none" /\ CanRead(StartFile(p))
        /\ Goto(p, "ready")
        /\ held'  = [held EXCEPT ![p] = HeldFrom(StartFile(p))]
        /\ foreign' = [foreign EXCEPT ![p] = VersionIn(StartFile(p)) \ {build[p]}]
     \/ /\ Strategy(p) = "none" \/ CanFailToRead(p, StartFile(p))
        /\ Goto(p, "generate")
        /\ UNCHANGED <<held, foreign>>
  /\ UNCHANGED <<fixed, release, folder, disk, start, todo, job, trouble>>

(* The circuits are generated; all but a process without persistence go on *)
(* to write them, a verifier only its own data.                            *)
ToPersist(p) ==
  IF Strategy(p) = "none" THEN {}
  ELSE IF Program(p) = "verifier" THEN {Verif(label[p], Config(p))}
  ELSE {Base(label[p], Config(p)), Mono(label[p], Config(p)), Verif(label[p], Config(p))}
         \cup TablesOf(label[p], Config(p))

Generate(p) ==
  /\ pc[p] = "generate"
  /\ held' = [held EXCEPT ![p] = IF Program(p) = "verifier" THEN "verifier" ELSE "all"]
  /\ todo' = [todo EXCEPT ![p] = ToPersist(p)]
  /\ Goto(p, IF Strategy(p) = "none" THEN "ready" ELSE "check")
  /\ UNCHANGED <<fixed, release, folder, disk, start, foreign, job, trouble>>

(* DiskResource::put: look for the folder, create it, open and truncate    *)
(* the file, write the bytes.                                              *)
Mut_CheckFolder(p) ==
  /\ pc[p] = "check"
  /\ Goto(p, "mkdir")
  /\ UNCHANGED <<fixed, release, folder, disk, start, todo, held, foreign, job, trouble>>

CheckFolder(p) ==
  /\ pc[p] = "check"
  /\ Goto(p, IF folder THEN "open" ELSE "mkdir")
  /\ UNCHANGED <<fixed, release, folder, disk, start, todo, held, foreign, job, trouble>>

(* create_dir fails on a folder that exists by now. *)
CreateFolder(p) ==
  /\ pc[p] = "mkdir"
  /\ folder' = TRUE
  /\ Goto(p, IF folder THEN "failed" ELSE "open")
  /\ UNCHANGED <<fixed, release, disk, start, todo, held, foreign, job, trouble>>

Open(p, f) ==
  /\ pc[p] = "open" /\ IsFirst(f, todo[p])
  /\ disk' = [disk EXCEPT ![f] = CutBy(p)]
  /\ Goto(p, "write")
  /\ UNCHANGED <<fixed, release, folder, start, todo, held, foreign, job, trouble>>

(* Writers of one version write the same bytes.  The one that truncated    *)
(* the file last leaves it whole; one whose file was truncated under its   *)
(* hand may leave a hole at the start, until the last one has written, and *)
(* bytes of its own in the file of another version.                        *)
WriteBytes(p, f) ==
  \/ disk' = [disk EXCEPT ![f] = Circuitry(build[p])]
  \/ disk[f] # CutBy(p) /\ UNCHANGED disk
  \/ CanRead(f) /\ CanFailToRead(p, f) /\ disk' = [disk EXCEPT ![f] = Torn]

Mut_Write(p, f) ==
  /\ pc[p] = "write" /\ IsFirst(f, todo[p])
  /\ WriteBytes(p, f)
  /\ todo' = [todo EXCEPT ![p] = @ \ {f}]
  /\ Goto(p, IF todo'[p] \cap TablesOf(label[p], Config(p)) = {} THEN "ready" ELSE "check")
  /\ UNCHANGED <<fixed, release, folder, start, held, foreign, job, trouble>>

Write(p, f) ==
  /\ pc[p] = "write" /\ IsFirst(f, todo[p])
  /\ WriteBytes(p, f)
  /\ todo' = [todo EXCEPT ![p] = @ \ {f}]
  /\ Goto(p, IF todo'[p] = {} THEN "ready" ELSE "check")
  /\ UNCHANGED <<fixed, release, folder, start, held, foreign, job, trouble>>

(* Opening the file fails before it is touched, or serializing or writing  *)
(* fails and leaves it cut; the start fails.                               *)
WriteFails(p) ==
  /\ faults < MaxFaults
  /\ pc[p] \in {"open", "write"}
  /\ Goto(p, "failed")
  /\ faults' = faults + 1 /\ ioError' = TRUE
  /\ UNCHANGED <<fixed, release, folder, disk, start, todo, held, foreign, job>>

(* The process is killed, or ends: its start has failed, its work is done, *)
(* or it is stopped for another release; its memory is gone.               *)
Forget(p) ==
  /\ Goto(p, "down")
  /\ todo'   = [todo EXCEPT ![p] = {}]
  /\ held'   = [held EXCEPT ![p] = "none"]
  /\ foreign' = [foreign EXCEPT ![p] = {}]
  /\ need'   = [need EXCEPT ![p] = NoSizes]
  /\ loaded' = [loaded EXCEPT ![p] = {}]
  /\ txn'    = [txn EXCEPT ![p] = "none"]
  /\ build'  = [build EXCEPT ![p] = 1]
  /\ label'  = [label EXCEPT ![p] = NA]
  /\ UNCHANGED <<fixed, release, folder, disk, starts, mislabelled, txns>>

Kill(p) ==
  /\ faults < MaxFaults
  /\ pc[p] \notin {"down", "failed"}
  /\ Forget(p)
  /\ faults' = faults + 1
  /\ UNCHANGED ioError

Exit(p) == pc[p] \in {"failed", "ready"} /\ Forget(p) /\ UNCHANGED trouble

-------------------------------------------------------------------------------
(* ProverStateManager::generate_txn_proof.  The STARK proof of the          *)
(* transaction decides the size each table must have.                      *)

Fits(p, k)     == need[p][k] \in SizesOf(Config(p), k)
InRange(p)     == \A k \in Circuits : Fits(p, k)

BeginTxn(p) ==
  /\ pc[p] = "ready" /\ Program(p) # "verifier"
  /\ txns < MaxTxns
  /\ txns' = txns + 1
  /\ \E sizes \in [Circuits -> Sizes] : need' = [need EXCEPT ![p] = sizes]
  /\ txn' = [txn EXCEPT ![p] = "none"]
  /\ Goto(p, "tables")
  /\ UNCHANGED <<fixed, release, folder, disk, start, todo, held, foreign, loaded, trouble>>

EndTxn(p, result) ==
  /\ txn' = [txn EXCEPT ![p] = result]
  /\ need'   = [need EXCEPT ![p] = NoSizes]
  /\ loaded' = [loaded EXCEPT ![p] = {}]
  /\ Goto(p, "ready")
  /\ UNCHANGED <<fixed, release, folder, disk, start, todo, held, foreign, txns, trouble>>

(* load_table_circuits reads the tables one after the other. *)
Reading(p, k) ==
  /\ pc[p] = "tables" /\ Strategy(p) = "on-demand"
  /\ k \notin loaded[p] /\ \A l \in Circuits \ loaded[p] : k <= l

NeededTable(p, k) == Table(label[p], k, need[p][k])

LoadTable(p, k) ==
  /\ Reading(p, k)
  /\ CanRead(NeededTable(p, k))
  /\ loaded' = [loaded EXCEPT ![p] = @ \cup {k}]
  /\ foreign' = [foreign EXCEPT ![p] = @ \cup (VersionIn(NeededTable(p, k)) \ {build[p]})]
  /\ UNCHANGED <<fixed, release, folder, disk, pc, start, todo, held, need, txn, txns, trouble>>

TableUnreadable(p, k) ==
  /\ Reading(p, k)
  /\ CanFailToRead(p, NeededTable(p, k))
  /\ EndTxn(p, IF Fits(p, k) THEN "missing" ELSE "unsupported")

(* With every table the transaction is proved; the offset of a size is its *)
(* distance from the start of the configured range.                        *)
ShrinkAndProve(p) ==
  /\ pc[p] = "tables" /\ Strategy(p) = "on-demand"
  /\ loaded[p] = Circuits
  /\ EndTxn(p, IF ~InRange(p) THEN "bad_offset" ELSE IF foreign[p] # {} THEN "stale" ELSE "proved")

(* The monolithic circuit is in memory: it proves what its range covers. *)
ProveMonolithic(p) ==
  /\ pc[p] = "tables" /\ Strategy(p) # "on-demand"
  /\ EndTxn(p, IF ~InRange(p) THEN "unsupported"
               ELSE IF held[p] # "all" THEN "missing"
               ELSE IF foreign[p] # {} THEN "stale" ELSE "proved")

-------------------------------------------------------------------------------
Work(p) ==
  \/ Load(p) \/ Generate(p)
  \/ CheckFolder(p) \/ CreateFolder(p)
  \/ \E f \in todo[p] : Open(p, f) \/ Write(p, f)
  \/ \E k \in Circuits : LoadTable(p, k) \/ TableUnreadable(p, k)
  \/ ShrinkAndProve(p) \/ ProveMonolithic(p)

Next ==
  \/ CheckOut \/ Install
  \/ \E p \in Procs : Start(p) \/ Work(p) \/ WriteFails(p) \/ Kill(p) \/ Exit(p) \/ BeginTxn(p)

(* A process goes on with the start or the transaction it has begun; that  *)
(* it is started at all, or again, is up to the operator, as are releases, *)
(* and transactions, kills and I/O errors just happen.                     *)
Spec == Init /\ [][Next]_vars /\ \A p \in Procs : WF_vars(Work(p))

-------------------------------------------------------------------------------
(* Properties *)

Persisting(p) == pc[p] \in {"check", "mkdir", "open", "write"}

Complete(l, c) == \A f \in TablesOf(l, c) \cup {Mono(l, c), Verif(l, c)} : CanRead(f)

(* A configuration whose base circuits are on disk without all the rest is *)
(* still being written by a live process, unless a process was killed, a   *)
(* write failed or a release was installed: concurrent starts that         *)
(* truncate and rewrite each other's files always end with complete ones.  *)
IncompleteHasCause ==
  \A l \in Labels, c \in Configs : CanRead(Base(l, c)) /\ ~Complete(l, c) =>
    \/ \E p \in Procs : Persisting(p)
    \/ faults > 0
    \/ installed > 1

(* A prover that keeps everything in memory never misses a table, whatever *)
(* the other processes do to the files.                                    *)
MemoryNeverMisses ==
  \A p \in Procs : Strategy(p) # "on-demand" => txn[p] # "missing"

(* A process works with circuits that a release of another series wrote    *)
(* only if its paths name no version, or one that somebody has set by      *)
(* hand, or if some leader was started between a check-out and the build   *)
(* of it.  Two releases that differ in the patch version share their       *)
(* circuits (leader/src/main.rs:42-59, persistence.rs:109).                *)
StaleHasCause ==
  \A p \in Procs : \A v \in foreign[p] :
    \/ Series[v] = Series[build[p]]
    \/ label[p] = NA
    \/ \E q \in Procs : runs[q].env = label[p]
    \/ mislabelled

(* A start and a transaction come to an end, whatever killed processes     *)
(* have left in the folder and others are writing into it                  *)
(* (prover_state/mod.rs:242-294, persistence.rs:70-90).                    *)
EveryStartEnds ==
  \A p \in Procs :
    pc[p] \notin {"down", "ready", "failed"} ~> pc[p] \in {"down", "ready", "failed"}

(* Without an I/O error a start fails only in the race for a folder that   *)
(* was not there, and only at its first file: what killed processes have   *)
(* left never makes a later start fail.  The winner of the race is about   *)
(* to open its first file or has done so, unless it was killed             *)
(* (persistence.rs:76-82).                                                 *)
FolderRaceHasWinner ==
  \A p \in Procs : pc[p] = "failed" /\ ~ioError =>
    /\ ~FolderExists /\ folder /\ todo[p] = ToPersist(p)
    /\ \/ \E q \in Procs : pc[q] = "open"
       \/ \E f \in Files : disk[f] # Absent
       \/ faults > 0

(* A ready prover finds the tables that its configuration covers           *)
(* (common/src/prover_state/mod.rs:83-87, persistence.rs:265-266).         *)
TablesAreFound == \A p \in Procs : txn[p] # "missing"

===============================================================================
