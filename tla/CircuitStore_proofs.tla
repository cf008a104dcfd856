------------------------- MODULE CircuitStore_proofs -------------------------
(***************************************************************************)
(* Proofs about CircuitStore, for any processes and command lines, any     *)
(* circuits and sizes, and any number of releases, kills and transactions. *)
(***************************************************************************)
EXTENDS CircuitStore, WellFoundedInduction, TLAPS

(* No process is newer than what is installed, and no file than the        *)
(* process that wrote it.                                                  *)
Releases ==
  /\ installed <= checkout
  /\ \A p \in Procs : build[p] <= installed
  /\ \A f \in Files, v \in Versions : disk[f] = Circuitry(v) => v <= installed

(* As long as no leader was started between a check-out and its build, a   *)
(* series in a path that nobody has set by hand is that of the circuits in *)
(* the file.                                                               *)
ByHand(l) == l = NA \/ \E q \in Procs : runs[q].env = l

Labelled ==
  ~mislabelled =>
    /\ \A p \in Procs : ByHand(label[p]) \/ label[p] = Series[build[p]]
    /\ \A f \in Files, v \in Versions : disk[f] = Circuitry(v) => ByHand(f[2]) \/ f[2] = Series[v]

(* A process that starts has loaded nothing yet. *)
Fresh == \A p \in Procs : pc[p] \in {"down", "load"} => foreign[p] = {}

(* A process without on-demand loading gets ready with everything it needs. *)
Memory ==
  \A p \in Procs :
    /\ pc[p] = "tables" => Program(p) # "verifier"
    /\ Persisting(p) \/ pc[p] \in {"ready", "tables"} =>
         Strategy(p) = "on-demand" \/ Program(p) = "verifier" \/ held[p] = "all"

(* What a process has still to write are files of its own, and all of them *)
(* as long as the base is among them; a folder that was once there stays,  *)
(* so that creating it fails at the very first file or never.              *)
Pending ==
  \A p \in Procs : Persisting(p) =>
    /\ todo[p] \subseteq ToPersist(p)
    /\ Base(label[p], Config(p)) \in todo[p] => todo[p] = ToPersist(p)
    /\ pc[p] = "mkdir" \/ ~folder => todo[p] = ToPersist(p)
    /\ pc[p] = "write" => folder /\ \A f \in todo[p] : IsFirst(f, todo[p]) => disk[f] # Absent
    /\ pc[p] = "open" => folder

(* A prover that has opened its base circuits will go on to the rest. *)
Begun(p) ==
  /\ Program(p) # "verifier" /\ Persisting(p)
  /\ pc[p] = "write" \/ Base(label[p], Config(p)) \notin todo[p]

Rest(l, c) == TablesOf(l, c) \cup {Mono(l, c), Verif(l, c)}

Followed ==
  faults = 0 =>
    \A l \in Labels, c \in Configs : disk[Base(l, c)] # Absent =>
      \A f \in Rest(l, c) : disk[f] # Absent \/ \E p \in Procs : Begun(p) /\ f \in todo[p]

(* Without a kill, a failed write or a release, a file that is cut is in   *)
(* the hands of a process that will complete it.                           *)
Whole ==
  faults = 0 /\ installed = 1 =>
    \A f \in Files :
      /\ disk[f] # Torn
      /\ \A p \in Procs : disk[f] = CutBy(p) => pc[p] = "write" /\ IsFirst(f, todo[p])

(* Without an I/O error a start fails in the race for the folder, and as   *)
(* long as nobody is killed either, the one who created it goes on.        *)
Race ==
  /\ FolderExists => folder
  /\ \A p \in Procs : pc[p] = "mkdir" => ~FolderExists
  /\ faults = 0 /\ folder /\ ~FolderExists =>
       \/ \E q \in Procs : pc[q] = "open"
       \/ \E f \in Files : disk[f] # Absent
  /\ \A p \in Procs : pc[p] = "failed" /\ ~ioError =>
       ~FolderExists /\ folder /\ todo[p] = ToPersist(p)

StoreInv ==
  /\ TypeOK
  /\ Releases /\ Labelled /\ StaleHasCause /\ Fresh
  /\ Memory /\ MemoryNeverMisses
  /\ Pending /\ Followed /\ Whole /\ Race

-------------------------------------------------------------------------------
(* Paths and contents *)

LEMMA ContentKinds ==
  /\ \A v : Circuitry(v) # Absent /\ Circuitry(v) # Torn
  /\ \A v, w : Circuitry(v) = Circuitry(w) => v = w
  /\ \A p : CutBy(p) # Absent /\ CutBy(p) # Torn
  /\ \A p, q : CutBy(p) = CutBy(q) => p = q
  /\ \A p, v : CutBy(p) # Circuitry(v)
  /\ Torn # Absent
<1>1. \A v : Circuitry(v) # Absent /\ Circuitry(v) # Torn
  BY DEF Circuitry, Absent, Torn
<1>2. \A v, w : Circuitry(v) = Circuitry(w) => v = w
  BY DEF Circuitry
<1>3. \A p : CutBy(p) # Absent /\ CutBy(p) # Torn
  BY DEF CutBy, Absent, Torn
<1>4. \A p, q : CutBy(p) = CutBy(q) => p = q
  BY DEF CutBy
<1>5. \A p, v : CutBy(p) # Circuitry(v)
  BY DEF CutBy, Circuitry
<1>6. Torn # Absent
  BY DEF Torn, Absent
<1> QED
  BY <1>1, <1>2, <1>3, <1>4, <1>5, <1>6

LEMMA Paths ==
  /\ \A l, c : /\ Base(l, c)[1] = "base" /\ Base(l, c)[2] = l /\ Base(l, c)[3] = c
               /\ Mono(l, c)[1] = "mono" /\ Mono(l, c)[2] = l /\ Mono(l, c)[3] = c
               /\ Verif(l, c)[1] = "verif" /\ Verif(l, c)[2] = l /\ Verif(l, c)[3] = c
  /\ \A l, k, s : /\ Table(l, k, s)[1] = "table" /\ Table(l, k, s)[2] = l
                  /\ Table(l, k, s)[3] = k /\ Table(l, k, s)[4] = s
  BY DEF Base, Mono, Verif, Table

LEMMA AllFiles ==
  ASSUME NEW l \in Labels, NEW c \in Configs
  PROVE  /\ Base(l, c) \in Files /\ Mono(l, c) \in Files /\ Verif(l, c) \in Files
         /\ TablesOf(l, c) \subseteq {f \in Files : f[1] = "table" /\ f[2] = l}
<1>1. TablesOf(l, c) \subseteq {Table(l, k, s) : k \in Circuits, s \in Sizes}
  BY DEF TablesOf, SizesOf
<1>2. {Table(l, k, s) : k \in Circuits, s \in Sizes} \subseteq {f \in Files : f[1] = "table" /\ f[2] = l}
  BY Paths DEF Files
<1>3. Base(l, c) \in Files /\ Mono(l, c) \in Files /\ Verif(l, c) \in Files
  BY DEF Files
<1> QED
  BY <1>1, <1>2, <1>3

LEMMA TablesInFiles ==
  ASSUME NEW f \in Files, f[1] = "table" PROVE f[3] \in Nat /\ f[4] \in Nat
  BY Paths, CircuitsAssumption DEF Files, Circuits

LEMMA SameTable ==
  ASSUME NEW f \in Files, NEW g \in Files, f[1] = "table", g[1] = "table",
         f[2] = g[2], f[3] = g[3], f[4] = g[4]
  PROVE  f = g
<1>1. \A h \in Files : h[1] = "table" => h = Table(h[2], h[3], h[4])
  BY Paths DEF Files
<1> QED
  BY <1>1

LEMMA CommandLine ==
  ASSUME TypeOK, NEW p \in Procs
  PROVE  runs[p] \in CommandLines /\ Config(p) \in Configs
  BY ProcsAssumption DEF TypeOK, Config, Configs

(* What a process writes. *)
LEMMA OwnFiles ==
  ASSUME TypeOK, NEW p \in Procs
  PROVE  /\ ToPersist(p) \subseteq {f \in Files : f[2] = label[p]}
         /\ \A f \in ToPersist(p) : f[1] = "base" =>
              /\ Program(p) # "verifier" /\ f = Base(label[p], Config(p))
              /\ Rest(label[p], Config(p)) \subseteq ToPersist(p)
<1>1. label[p] \in Labels /\ Config(p) \in Configs
  BY CommandLine DEF TypeOK
<1>2. /\ \A f \in TablesOf(label[p], Config(p)) : f \in Files /\ f[1] = "table" /\ f[2] = label[p]
      /\ Base(label[p], Config(p)) \in Files /\ Mono(label[p], Config(p)) \in Files
      /\ Verif(label[p], Config(p)) \in Files
  BY <1>1, AllFiles
<1>3. CASE Strategy(p) = "none"
  BY <1>3 DEF ToPersist
<1>4. CASE Strategy(p) # "none" /\ Program(p) = "verifier"
  BY <1>2, <1>4, Paths DEF ToPersist
<1>5. CASE Strategy(p) # "none" /\ Program(p) # "verifier"
  <2>1. ToPersist(p) = {Base(label[p], Config(p))} \cup Rest(label[p], Config(p))
    BY <1>5 DEF ToPersist, Rest
  <2>2. \A f \in Rest(label[p], Config(p)) : f \in Files /\ f[1] # "base" /\ f[2] = label[p]
    BY <1>2, Paths DEF Rest
  <2>3. Base(label[p], Config(p))[2] = label[p]
    BY Paths
  <2> QED
    BY <1>2, <1>5, <2>1, <2>2, <2>3
<1> QED
  BY <1>3, <1>4, <1>5

(* A set of files has at most one first file, and the base comes first. *)
LEMMA OneFirst ==
  ASSUME NEW S, S \subseteq Files, NEW f, NEW g, IsFirst(f, S), IsFirst(g, S)
  PROVE  f = g
<1> SUFFICES ASSUME f # g PROVE FALSE
  OBVIOUS
<1>1. f \in Files /\ g \in Files /\ Before(f, g) /\ Before(g, f)
  BY DEF IsFirst
<1>2. f[1] = "table" /\ g[1] = "table"
  BY <1>1 DEF Before
<1>3. f[3] \in Nat /\ f[4] \in Nat /\ g[3] \in Nat /\ g[4] \in Nat
  BY <1>1, <1>2, TablesInFiles
<1> QED
  BY <1>1, <1>2, <1>3 DEF Before

LEMMA BaseFirst ==
  ASSUME NEW S, NEW f, NEW b \in S, IsFirst(f, S), b[1] = "base"
  PROVE  f = b
  BY DEF IsFirst, Before

LEMMA SomeSize == ASSUME NEW k PROVE NoSizes \in [Circuits -> Sizes]
  BY CircuitsAssumption DEF NoSizes

-------------------------------------------------------------------------------
(* Types *)

LEMMA StoreInitially == ASSUME Init PROVE StoreInv
<1> USE BoundsAssumption
<1>1. TypeOK
  <2>1. checkout \in Versions /\ installed \in Versions
    BY DEF Init, Versions
  <2>2. disk \in [Files -> Contents]
    BY DEF Init, Contents
  <2>3. pc \in [Procs -> PC] /\ todo \in [Procs -> SUBSET Files] /\ loaded \in [Procs -> SUBSET Circuits]
    BY DEF Init, PC
  <2>4. build \in [Procs -> Versions] /\ label \in [Procs -> Labels]
    BY DEF Init, Versions, Labels
  <2>5. held \in [Procs -> {"none", "verifier", "upper", "all"}] /\ txn \in [Procs -> TxnResults]
    BY DEF Init, TxnResults
  <2>6. foreign \in [Procs -> SUBSET Versions] /\ need \in [Procs -> [Circuits -> Sizes]]
    BY SomeSize DEF Init
  <2>7. txns \in 0 .. MaxTxns /\ faults \in 0 .. MaxFaults
    BY DEF Init
  <2>8. runs \in Fleets /\ starts \in 0 .. MaxStarts
    BY DEF Init
  <2>9. mislabelled \in BOOLEAN /\ ioError \in BOOLEAN /\ folder \in BOOLEAN
    BY Zenon DEF Init
  <2> QED
    BY <2>1, <2>2, <2>3, <2>4, <2>5, <2>6, <2>7, <2>8, <2>9 DEF TypeOK
<1>2. Releases /\ Labelled /\ StaleHasCause /\ Fresh
  BY ContentKinds DEF Init, Releases, Labelled, ByHand, StaleHasCause, Fresh, Labels, Versions
<1>3. Memory /\ MemoryNeverMisses /\ Pending
  BY DEF Init, Memory, MemoryNeverMisses, Pending, Persisting
<1>4. Followed
  BY AllFiles DEF Init, Followed
<1>5. Whole
  BY ContentKinds DEF Init, Whole
<1>6. Race
  BY DEF Init, Race
<1> QED
  BY <1>1, <1>2, <1>3, <1>4, <1>5, <1>6 DEF StoreInv

(* A process that ends, and one that ends its transaction. *)
LEMMA ForgetTypes ==
  ASSUME TypeOK, NEW p \in Procs, Forget(p), faults' \in 0 .. MaxFaults, UNCHANGED ioError
  PROVE  TypeOK'
<1>1. pc' \in [Procs -> PC] /\ todo' \in [Procs -> SUBSET Files] /\ loaded' \in [Procs -> SUBSET Circuits]
  BY DEF TypeOK, Forget, Goto, PC
<1>2. build' \in [Procs -> Versions] /\ label' \in [Procs -> Labels]
  BY BoundsAssumption DEF TypeOK, Forget, Versions, Labels
<1>3. held' \in [Procs -> {"none", "verifier", "upper", "all"}] /\ txn' \in [Procs -> TxnResults]
  BY DEF TypeOK, Forget, TxnResults
<1>4. foreign' \in [Procs -> SUBSET Versions]
  BY DEF TypeOK, Forget
<1>5. need' \in [Procs -> [Circuits -> Sizes]]
  BY SomeSize DEF TypeOK, Forget
<1> QED
  BY <1>1, <1>2, <1>3, <1>4, <1>5, Zenon DEF TypeOK, Forget, fixed, release

LEMMA EndTypes ==
  ASSUME TypeOK, NEW p \in Procs, NEW result \in TxnResults, EndTxn(p, result) PROVE TypeOK'
<1>1. pc' \in [Procs -> PC] /\ loaded' \in [Procs -> SUBSET Circuits] /\ txn' \in [Procs -> TxnResults]
  BY DEF TypeOK, EndTxn, Goto, PC
<1>2. need' \in [Procs -> [Circuits -> Sizes]]
  BY SomeSize DEF TypeOK, EndTxn
<1> QED
  BY <1>1, <1>2, Zenon DEF TypeOK, EndTxn, fixed, release, start, trouble

LEMMA LabelOfPath ==
  ASSUME TypeOK, NEW p \in Procs
  PROVE  /\ PathVersion(p) \in Labels
         /\ ~TakesVersion(p) => ByHand(PathVersion(p))
<1>1. runs[p] \in CommandLines /\ runs[p].env \in Labels \cup {NotGiven}
  BY CommandLine, ProcsAssumption
<1>2. CASE TakesVersion(p)
  <2>1. PackageVersion = checkout
    BY <1>2 DEF TakesVersion, PackageVersion
  <2> QED
    BY <1>2, <2>1, BoundsAssumption DEF PathVersion, TypeOK, Labels
<1>3. CASE ~TakesVersion(p)
  BY <1>1, <1>3 DEF PathVersion, ByHand, Labels
<1> QED
  BY <1>2, <1>3

LEMMA StoreTypeStep == ASSUME StoreInv, [Next]_vars PROVE TypeOK'
<1> USE BoundsAssumption
<1>t. TypeOK
  BY DEF StoreInv
<1>1. CASE CheckOut
  <2>1. checkout' \in Versions
    BY <1>1, <1>t DEF CheckOut, TypeOK, Versions
  <2> QED
    BY <1>1, <1>t, <2>1, Zenon DEF CheckOut, TypeOK, fixed, start, job, trouble
<1>2. CASE Install
  BY <1>2, <1>t, Zenon DEF Install, TypeOK, fixed, start, job, trouble
<1>3. ASSUME NEW p \in Procs, Start(p) PROVE TypeOK'
  <2>1. pc' \in [Procs -> PC] /\ build' \in [Procs -> Versions]
    BY <1>3, <1>t DEF Start, Goto, TypeOK, PC
  <2>2. label' \in [Procs -> Labels]
    BY <1>3, <1>t, LabelOfPath DEF Start, TypeOK
  <2>3. mislabelled' \in BOOLEAN
    BY <1>3, <1>t, Zenon DEF Start, TypeOK
  <2>4. starts' \in 0 .. MaxStarts
    BY <1>3, <1>t DEF Start, TypeOK
  <2> QED
    BY <1>3, <1>t, <2>1, <2>2, <2>3, <2>4, Zenon DEF Start, TypeOK, fixed, release, job, trouble
<1>4. ASSUME NEW p \in Procs, Load(p) PROVE TypeOK'
  <2>1. pc' \in [Procs -> PC]
    BY <1>4, <1>t DEF Load, Goto, TypeOK, PC
  <2>2. held' \in [Procs -> {"none", "verifier", "upper", "all"}]
    BY <1>4, <1>t, Paths DEF Load, TypeOK, HeldFrom, StartFile
  <2>3. foreign' \in [Procs -> SUBSET Versions]
    BY <1>4, <1>t DEF Load, TypeOK, VersionIn
  <2> QED
    BY <1>4, <1>t, <2>1, <2>2, <2>3, Zenon DEF Load, TypeOK, fixed, release, start, job, trouble
<1>5. ASSUME NEW p \in Procs, Generate(p) PROVE TypeOK'
  <2>1. pc' \in [Procs -> PC] /\ held' \in [Procs -> {"none", "verifier", "upper", "all"}]
    BY <1>5, <1>t DEF Generate, Goto, TypeOK, PC
  <2>2. todo' \in [Procs -> SUBSET Files]
    BY <1>5, <1>t, OwnFiles DEF Generate, TypeOK
  <2> QED
    BY <1>5, <1>t, <2>1, <2>2, Zenon DEF Generate, TypeOK, fixed, release, start, job, trouble
<1>6. ASSUME NEW p \in Procs, CheckFolder(p) PROVE TypeOK'
  <2>1. pc' \in [Procs -> PC]
    BY <1>6, <1>t DEF CheckFolder, Goto, TypeOK, PC
  <2> QED
    BY <1>6, <1>t, <2>1, Zenon DEF CheckFolder, TypeOK, fixed, release, start, job, trouble
<1>7. ASSUME NEW p \in Procs, CreateFolder(p) PROVE TypeOK'
  <2>1. pc' \in [Procs -> PC] /\ folder' \in BOOLEAN
    BY <1>7, <1>t DEF CreateFolder, Goto, TypeOK, PC
  <2> QED
    BY <1>7, <1>t, <2>1, Zenon DEF CreateFolder, TypeOK, fixed, release, start, job, trouble
<1>8. ASSUME NEW p \in Procs, NEW f \in todo[p], Open(p, f) PROVE TypeOK'
  <2>1. pc' \in [Procs -> PC]
    BY <1>8, <1>t DEF Open, Goto, TypeOK, PC
  <2>2. disk' \in [Files -> Contents]
    BY <1>8, <1>t DEF Open, TypeOK, Contents
  <2> QED
    BY <1>8, <1>t, <2>1, <2>2, Zenon DEF Open, TypeOK, fixed, release, start, job, trouble
<1>9. ASSUME NEW p \in Procs, NEW f \in todo[p], Write(p, f) PROVE TypeOK'
  <2>1. pc' \in [Procs -> PC] /\ todo' \in [Procs -> SUBSET Files]
    BY <1>9, <1>t DEF Write, Goto, TypeOK, PC
  <2>2. disk' \in [Files -> Contents]
    BY <1>9, <1>t DEF Write, WriteBytes, TypeOK, Contents
  <2> QED
    BY <1>9, <1>t, <2>1, <2>2, Zenon DEF Write, TypeOK, fixed, release, start, job, trouble
<1>10. ASSUME NEW p \in Procs, WriteFails(p) PROVE TypeOK'
  <2>1. pc' \in [Procs -> PC] /\ faults' \in 0 .. MaxFaults /\ ioError' \in BOOLEAN
    BY <1>10, <1>t DEF WriteFails, Goto, TypeOK, PC
  <2> QED
    BY <1>10, <1>t, <2>1, Zenon DEF WriteFails, TypeOK, fixed, release, start, job, trouble
<1>11. ASSUME NEW p \in Procs, Kill(p) \/ Exit(p) PROVE TypeOK'
  <2>1. Forget(p) /\ faults' \in 0 .. MaxFaults /\ UNCHANGED ioError
    BY <1>11, <1>t DEF Kill, Exit, TypeOK, trouble
  <2> QED
    BY <1>t, <2>1, ForgetTypes
<1>12. ASSUME NEW p \in Procs, BeginTxn(p) PROVE TypeOK'
  <2>1. pc' \in [Procs -> PC] /\ txn' \in [Procs -> TxnResults] /\ txns' \in 0 .. MaxTxns
    BY <1>12, <1>t DEF BeginTxn, Goto, TypeOK, PC, TxnResults
  <2>2. need' \in [Procs -> [Circuits -> Sizes]]
    BY <1>12, <1>t DEF BeginTxn, TypeOK
  <2> QED
    BY <1>12, <1>t, <2>1, <2>2, Zenon DEF BeginTxn, TypeOK, fixed, release, start, trouble
<1>13. ASSUME NEW p \in Procs, NEW k \in Circuits, LoadTable(p, k) PROVE TypeOK'
  <2>1. loaded' \in [Procs -> SUBSET Circuits]
    BY <1>13, <1>t DEF LoadTable, TypeOK
  <2>2. foreign' \in [Procs -> SUBSET Versions]
    BY <1>13, <1>t DEF LoadTable, TypeOK, VersionIn
  <2> QED
    BY <1>13, <1>t, <2>1, <2>2, Zenon DEF LoadTable, TypeOK, fixed, release, start, trouble
<1>14. ASSUME NEW p \in Procs, NEW k \in Circuits, TableUnreadable(p, k) PROVE TypeOK'
  BY <1>14, <1>t, EndTypes DEF TableUnreadable, TxnResults
<1>15. ASSUME NEW p \in Procs, ShrinkAndProve(p) \/ ProveMonolithic(p) PROVE TypeOK'
  BY <1>15, <1>t, EndTypes DEF ShrinkAndProve, ProveMonolithic, TxnResults
<1>16. CASE UNCHANGED vars
  BY <1>16, <1>t, Zenon DEF vars, TypeOK, fixed, release, start, job, trouble
<1> QED
  BY <1>1, <1>2, <1>3, <1>4, <1>5, <1>6, <1>7, <1>8, <1>9, <1>10, <1>11, <1>12, <1>13,
     <1>14, <1>15, <1>16 DEF Next, Work

-------------------------------------------------------------------------------
(* Versions *)

(* A process that reads a file of its own path may get the circuits of     *)
(* another series only for one of the causes.                              *)
Excused(p, v) ==
  \/ Series[v] = Series[build[p]]
  \/ label[p] = NA
  \/ \E q \in Procs : runs[q].env = label[p]
  \/ mislabelled

LEMMA ReadsOwn ==
  ASSUME StoreInv, NEW p \in Procs, NEW f \in Files, f[2] = label[p], NEW v \in VersionIn(f)
  PROVE  Excused(p, v)
<1>1. v \in Versions /\ disk[f] = Circuitry(v)
  BY DEF VersionIn
<1> QED
  BY <1>1 DEF StoreInv, Labelled, ByHand, Excused

(* The file that a start looks for, and the tables of a transaction, are   *)
(* files of the process's own path.                                        *)
LEMMA StartFileIsOwn ==
  ASSUME TypeOK, NEW p \in Procs PROVE StartFile(p) \in Files /\ StartFile(p)[2] = label[p]
  BY CommandLine, AllFiles, Paths DEF StartFile, TypeOK

LEMMA NeededIsOwn ==
  ASSUME TypeOK, NEW p \in Procs, NEW k \in Circuits
  PROVE  NeededTable(p, k) \in Files /\ NeededTable(p, k)[2] = label[p]
  BY Paths DEF NeededTable, Files, TypeOK

(* Nothing that is written, started or installed breaks the causes.        *)
LEMMA VersionsKept ==
  ASSUME StoreInv, TypeOK', UNCHANGED <<runs, release, disk, build, label, mislabelled>>,
         \A p \in Procs : \A v \in foreign'[p] : v \in foreign[p] \/ Excused(p, v)
  PROVE  Releases' /\ Labelled' /\ StaleHasCause'
<1>1. Releases' /\ Labelled'
  BY DEF StoreInv, Releases, Labelled, ByHand, release
<1>2. StaleHasCause'
  BY DEF StoreInv, StaleHasCause, Excused, release
<1> QED
  BY <1>1, <1>2

LEMMA VersionsWritten ==
  ASSUME StoreInv, TypeOK', NEW p \in Procs, NEW f \in Files, f[2] = label[p],
         UNCHANGED <<runs, release, start, foreign>>,
         \A g \in Files \ {f} : disk'[g] = disk[g],
         disk'[f] \in {disk[f], Circuitry(build[p]), Torn, CutBy(p)}
  PROVE  Releases' /\ Labelled' /\ StaleHasCause'
<1>1. ASSUME NEW g \in Files, NEW v \in Versions, disk'[g] = Circuitry(v)
      PROVE  disk[g] = Circuitry(v) \/ (g = f /\ v = build[p])
  BY <1>1, ContentKinds
<1>2. Releases'
  BY <1>1 DEF StoreInv, Releases, release, start
<1>3. Labelled'
  <2>1. ASSUME ~mislabelled, NEW g \in Files, NEW v \in Versions, disk'[g] = Circuitry(v)
        PROVE  ByHand(g[2]) \/ g[2] = Series[v]
    <3>1. CASE disk[g] = Circuitry(v)
      BY <2>1, <3>1 DEF StoreInv, Labelled
    <3>2. CASE g = f /\ v = build[p]
      BY <2>1, <3>2 DEF StoreInv, Labelled
    <3> QED
      BY <1>1, <2>1, <3>1, <3>2
  <2> QED
    BY <2>1 DEF StoreInv, Labelled, ByHand, start
<1>4. StaleHasCause'
  BY DEF StoreInv, StaleHasCause, release, start
<1> QED
  BY <1>2, <1>3, <1>4

LEMMA VersionsForgotten ==
  ASSUME StoreInv, TypeOK', NEW p \in Procs, Forget(p)
  PROVE  Releases' /\ Labelled' /\ StaleHasCause'
<1>1. /\ UNCHANGED <<runs, release, disk, mislabelled>>
      /\ \A q \in Procs : \/ build'[q] = build[q] /\ label'[q] = label[q] /\ foreign'[q] = foreign[q]
                          \/ build'[q] = 1 /\ label'[q] = NA /\ foreign'[q] = {}
  BY DEF Forget, StoreInv, TypeOK, fixed
<1>2. 1 <= installed
  BY BoundsAssumption DEF StoreInv, TypeOK, Versions
<1> QED
  BY <1>1, <1>2 DEF StoreInv, Releases, Labelled, ByHand, StaleHasCause, release

LEMMA VersionStep == ASSUME StoreInv, TypeOK', [Next]_vars PROVE Releases' /\ Labelled' /\ StaleHasCause'
<1>t. TypeOK
  BY DEF StoreInv
<1>n. installed \in Nat /\ checkout \in Nat /\ installed' \in Nat /\ 1 <= installed /\ 1 <= installed'
  BY <1>t, BoundsAssumption DEF TypeOK, Versions
<1>1. CASE CheckOut \/ Install
  <2>1. installed <= installed' /\ installed' <= checkout' /\ UNCHANGED <<runs, disk, start, foreign>>
    BY <1>1, <1>n DEF CheckOut, Install, StoreInv, Releases, fixed
  <2>2. \A v \in Nat : v <= installed => v <= installed'
    BY <2>1, <1>n
  <2>3. Versions \subseteq Nat
    BY BoundsAssumption DEF Versions
  <2>4. Releases'
    BY <2>1, <2>2, <2>3, <1>t DEF StoreInv, Releases, TypeOK, start
  <2>5. Labelled'
    BY <2>1 DEF StoreInv, Labelled, ByHand, start
  <2>6. StaleHasCause'
    BY <2>1, <1>n DEF StoreInv, StaleHasCause, start
  <2> QED
    BY <2>4, <2>5, <2>6
<1>2. ASSUME NEW p \in Procs, Start(p) PROVE Releases' /\ Labelled' /\ StaleHasCause'
  <2>1. /\ build' = [build EXCEPT ![p] = installed] /\ label' = [label EXCEPT ![p] = PathVersion(p)]
        /\ mislabelled' = (mislabelled \/ (TakesVersion(p) /\ PathVersion(p) # Series[installed]))
        /\ UNCHANGED <<runs, release, disk, foreign>>
    BY <1>2 DEF Start, fixed
  <2>2. Releases'
    BY <2>1, <1>n, <1>t DEF StoreInv, Releases, release, TypeOK
  <2>3. Labelled'
    <3>1. ~mislabelled' => ~mislabelled /\ (ByHand(PathVersion(p)) \/ PathVersion(p) = Series[installed])
      BY <2>1, <1>t, LabelOfPath
    <3>2. build'[p] = installed /\ label'[p] = PathVersion(p)
      BY <2>1, <1>t DEF TypeOK
    <3>3. \A q \in Procs \ {p} : build'[q] = build[q] /\ label'[q] = label[q]
      BY <2>1, <1>t DEF TypeOK
    <3>4. ASSUME NEW l PROVE ByHand(l)' <=> ByHand(l)
      BY <2>1 DEF ByHand
    <3> HIDE DEF ByHand
    <3> QED
      BY <2>1, <3>1, <3>2, <3>3, <3>4 DEF StoreInv, Labelled
  <2>4. foreign[p] = {}
    BY <1>2 DEF Start, StoreInv, Fresh
  <2>5. StaleHasCause'
    BY <2>1, <2>4, <1>t DEF StoreInv, StaleHasCause, TypeOK, release
  <2> QED
    BY <2>2, <2>3, <2>5
<1>3. ASSUME NEW p \in Procs, Load(p) PROVE Releases' /\ Labelled' /\ StaleHasCause'
  <2>1. UNCHANGED <<runs, release, disk, build, label, mislabelled>>
    BY <1>3 DEF Load, start, fixed
  <2>2. ASSUME NEW q \in Procs, NEW v \in foreign'[q] PROVE v \in foreign[q] \/ Excused(q, v)
    <3>1. v \in foreign[q] \/ (q = p /\ v \in VersionIn(StartFile(p)))
      BY <1>3, <1>t DEF Load, TypeOK
    <3> QED
      BY <3>1, <1>t, ReadsOwn, StartFileIsOwn
  <2> QED
    BY <2>1, <2>2, VersionsKept
<1>4. ASSUME NEW p \in Procs, NEW k \in Circuits, LoadTable(p, k)
      PROVE  Releases' /\ Labelled' /\ StaleHasCause'
  <2>1. UNCHANGED <<runs, release, disk, build, label, mislabelled>>
    BY <1>4 DEF LoadTable, start, fixed
  <2>2. ASSUME NEW q \in Procs, NEW v \in foreign'[q] PROVE v \in foreign[q] \/ Excused(q, v)
    <3>1. v \in foreign[q] \/ (q = p /\ v \in VersionIn(NeededTable(p, k)))
      BY <1>4, <1>t DEF LoadTable, TypeOK
    <3> QED
      BY <3>1, <1>t, ReadsOwn, NeededIsOwn
  <2> QED
    BY <2>1, <2>2, VersionsKept
<1>5. ASSUME NEW p \in Procs, Kill(p) \/ Exit(p) PROVE Releases' /\ Labelled' /\ StaleHasCause'
  BY <1>5, VersionsForgotten DEF Kill, Exit
<1>6. ASSUME NEW p \in Procs, NEW f \in todo[p], Open(p, f) PROVE Releases' /\ Labelled' /\ StaleHasCause'
  <2>1. f \in Files /\ f[2] = label[p]
    BY <1>6, <1>t, OwnFiles DEF Open, StoreInv, Pending, Persisting, TypeOK
  <2> QED
    BY <1>6, <2>1, <1>t, VersionsWritten DEF Open, TypeOK, fixed
<1>7. ASSUME NEW p \in Procs, NEW f \in todo[p], Write(p, f) PROVE Releases' /\ Labelled' /\ StaleHasCause'
  <2>1. f \in Files /\ f[2] = label[p]
    BY <1>7, <1>t, OwnFiles DEF Write, StoreInv, Pending, Persisting, TypeOK
  <2> QED
    BY <1>7, <2>1, <1>t, VersionsWritten DEF Write, WriteBytes, TypeOK, fixed
<1>8. ASSUME NEW p \in Procs,
             Generate(p) \/ CheckFolder(p) \/ CreateFolder(p) \/ WriteFails(p) \/ BeginTxn(p)
               \/ ShrinkAndProve(p) \/ ProveMonolithic(p) \/ \E k \in Circuits : TableUnreadable(p, k)
      PROVE  Releases' /\ Labelled' /\ StaleHasCause'
  BY <1>8, VersionsKept DEF Generate, CheckFolder, CreateFolder, WriteFails, BeginTxn,
     ShrinkAndProve, ProveMonolithic, TableUnreadable, EndTxn, start, fixed
<1>9. CASE UNCHANGED vars
  BY <1>9, VersionsKept DEF vars, start, fixed
<1> QED
  BY <1>1, <1>2, <1>3, <1>4, <1>5, <1>6, <1>7, <1>8, <1>9 DEF Next, Work

-------------------------------------------------------------------------------
(* Memory *)

(* Only one process moves, and keeps its command line. *)
LEMMA OthersRest ==
  ASSUME StoreInv, TypeOK', NEW p \in Procs, UNCHANGED runs,
         \A q \in Procs \ {p} : /\ pc'[q] = pc[q] /\ foreign'[q] = foreign[q]
                                 /\ held'[q] = held[q] /\ txn'[q] = txn[q],
         pc'[p] \in {"down", "load"} => foreign'[p] = {},
         pc'[p] = "tables" => Program(p) # "verifier",
         Persisting(p)' \/ pc'[p] \in {"ready", "tables"} =>
           Strategy(p) = "on-demand" \/ Program(p) = "verifier" \/ held'[p] = "all",
         Strategy(p) # "on-demand" => txn'[p] # "missing"
  PROVE  Fresh' /\ Memory' /\ MemoryNeverMisses'
<1>1. Fresh'
  BY DEF StoreInv, Fresh
<1>2. \A q \in Procs : Strategy(q)' = Strategy(q) /\ Program(q)' = Program(q)
  BY DEF Strategy, Program
<1>3. Memory'
  BY <1>2 DEF StoreInv, Memory, Persisting
<1>4. MemoryNeverMisses'
  BY <1>2 DEF StoreInv, MemoryNeverMisses
<1> QED
  BY <1>1, <1>3, <1>4

LEMMA MemoryStep == ASSUME StoreInv, TypeOK', [Next]_vars PROVE Fresh' /\ Memory' /\ MemoryNeverMisses'
<1>t. TypeOK
  BY DEF StoreInv
<1>1. CASE CheckOut \/ Install \/ UNCHANGED vars
  BY <1>1 DEF CheckOut, Install, vars, fixed, job, StoreInv, Fresh, Memory, MemoryNeverMisses,
     Persisting, Strategy, Program
<1>m. \A p \in Procs :
        /\ Strategy(p) # "on-demand" => txn[p] # "missing"
        /\ pc[p] \in {"down", "load"} => foreign[p] = {}
        /\ pc[p] = "tables" => Program(p) # "verifier"
        /\ Persisting(p) \/ pc[p] \in {"ready", "tables"} =>
             Strategy(p) = "on-demand" \/ Program(p) = "verifier" \/ held[p] = "all"
  BY DEF StoreInv, MemoryNeverMisses, Fresh, Memory
<1>2. ASSUME NEW p \in Procs, Start(p) PROVE Fresh' /\ Memory' /\ MemoryNeverMisses'
  BY <1>2, <1>t, <1>m, OthersRest DEF Start, Goto, TypeOK, fixed, job, Persisting
<1>3. ASSUME NEW p \in Procs, Load(p) PROVE Fresh' /\ Memory' /\ MemoryNeverMisses'
  <2>1. Strategy(p) \in {"none", "on-demand", "monolithic"}
    BY <1>t, CommandLine, ProcsAssumption DEF Strategy, StrategyOf
  <2>2. CASE pc' = [pc EXCEPT ![p] = "ready"] /\ held' = [held EXCEPT ![p] = HeldFrom(StartFile(p))]
                /\ Strategy(p) # "none"
    <3>1. Strategy(p) = "on-demand" \/ Program(p) = "verifier" \/ HeldFrom(StartFile(p)) = "all"
      BY <2>1, <2>2, Paths DEF HeldFrom, StartFile
    <3>2. pc'[p] = "ready" /\ held'[p] = HeldFrom(StartFile(p)) /\ UNCHANGED <<runs, txn>>
      BY <1>3, <1>t, <2>2 DEF Load, TypeOK, fixed, job
    <3>3. \A q \in Procs \ {p} : pc'[q] = pc[q] /\ foreign'[q] = foreign[q] /\ held'[q] = held[q]
      BY <1>3, <1>t, <2>2 DEF Load, TypeOK
    <3> QED
      BY <1>m, <3>1, <3>2, <3>3, OthersRest DEF Persisting
  <2>3. CASE pc' = [pc EXCEPT ![p] = "generate"] /\ UNCHANGED <<held, foreign>>
    BY <1>3, <1>t, <1>m, <2>3, OthersRest DEF Load, TypeOK, fixed, job, Persisting
  <2> QED
    BY <1>3, <2>2, <2>3 DEF Load, Goto
<1>4. ASSUME NEW p \in Procs, Generate(p) PROVE Fresh' /\ Memory' /\ MemoryNeverMisses'
  BY <1>4, <1>t, <1>m, OthersRest DEF Generate, Goto, TypeOK, fixed, job, Persisting
<1>5. ASSUME NEW p \in Procs, Persisting(p), UNCHANGED <<fixed, held, foreign, job>>,
             NEW l \in {"check", "mkdir", "open", "write", "ready", "failed"}, Goto(p, l)
      PROVE  Fresh' /\ Memory' /\ MemoryNeverMisses'
  BY <1>5, <1>t, <1>m, OthersRest DEF Goto, TypeOK, fixed, job, Persisting
<1>6. ASSUME NEW p \in Procs,
             CheckFolder(p) \/ CreateFolder(p) \/ WriteFails(p) \/ (\E f \in todo[p] : Open(p, f) \/ Write(p, f))
      PROVE  Fresh' /\ Memory' /\ MemoryNeverMisses'
  <2>1. Persisting(p) /\ UNCHANGED <<fixed, held, foreign, job>>
    BY <1>6 DEF CheckFolder, CreateFolder, WriteFails, Open, Write, Persisting
  <2>2. \E l \in {"check", "mkdir", "open", "write", "ready", "failed"} : Goto(p, l)
    BY <1>6 DEF CheckFolder, CreateFolder, WriteFails, Open, Write
  <2> QED
    BY <1>5, <2>1, <2>2
<1>7. ASSUME NEW p \in Procs, Kill(p) \/ Exit(p) PROVE Fresh' /\ Memory' /\ MemoryNeverMisses'
  <2>1. Forget(p) /\ UNCHANGED runs
    BY <1>7 DEF Kill, Exit, Forget, fixed
  <2>2. pc'[p] = "down" /\ foreign'[p] = {} /\ txn'[p] = "none"
    BY <2>1, <1>t DEF Forget, Goto, TypeOK
  <2>3. \A q \in Procs \ {p} : /\ pc'[q] = pc[q] /\ foreign'[q] = foreign[q]
                                /\ held'[q] = held[q] /\ txn'[q] = txn[q]
    BY <2>1, <1>t DEF Forget, Goto, TypeOK
  <2> QED
    BY <2>1, <2>2, <2>3, OthersRest DEF Persisting
<1>8. ASSUME NEW p \in Procs, BeginTxn(p) PROVE Fresh' /\ Memory' /\ MemoryNeverMisses'
  BY <1>8, <1>t, <1>m, OthersRest DEF BeginTxn, Goto, TypeOK, fixed, Persisting
<1>9. ASSUME NEW p \in Procs, NEW k \in Circuits, LoadTable(p, k)
      PROVE  Fresh' /\ Memory' /\ MemoryNeverMisses'
  BY <1>9, <1>t, <1>m, OthersRest DEF LoadTable, Reading, TypeOK, fixed, Persisting
<1>10. ASSUME NEW p \in Procs, NEW k \in Circuits, TableUnreadable(p, k)
       PROVE  Fresh' /\ Memory' /\ MemoryNeverMisses'
  BY <1>10, <1>t, <1>m, OthersRest DEF TableUnreadable, EndTxn, Goto, Reading, TypeOK, fixed, Persisting
<1>11. ASSUME NEW p \in Procs, ShrinkAndProve(p) \/ ProveMonolithic(p)
       PROVE  Fresh' /\ Memory' /\ MemoryNeverMisses'
  <2>1. pc[p] = "tables" /\ UNCHANGED <<runs, held, foreign>> /\ pc' = [pc EXCEPT ![p] = "ready"]
    BY <1>11 DEF ShrinkAndProve, ProveMonolithic, EndTxn, Goto, fixed
  <2>2. \A q \in Procs \ {p} : txn'[q] = txn[q]
    BY <1>11, <1>t DEF ShrinkAndProve, ProveMonolithic, EndTxn, TypeOK
  <2>3. Strategy(p) # "on-demand" => txn'[p] # "missing"
    BY <1>11, <1>t, <1>m, <2>1 DEF ShrinkAndProve, ProveMonolithic, EndTxn, TypeOK
  <2>4. pc'[p] = "ready" /\ \A q \in Procs \ {p} : pc'[q] = pc[q]
    BY <2>1, <1>t DEF TypeOK
  <2> QED
    BY <1>m, <2>1, <2>2, <2>3, <2>4, OthersRest DEF Persisting
<1> QED
  BY <1>1, <1>2, <1>3, <1>4, <1>6, <1>7, <1>8, <1>9, <1>10, <1>11 DEF Next, Work

-------------------------------------------------------------------------------
(* Files *)

(* What Pending says of one process. *)
Orderly(p) ==
  Persisting(p) =>
    /\ todo[p] \subseteq ToPersist(p)
    /\ Base(label[p], Config(p)) \in todo[p] => todo[p] = ToPersist(p)
    /\ pc[p] = "mkdir" \/ ~folder => todo[p] = ToPersist(p)
    /\ pc[p] = "write" => folder /\ \A f \in todo[p] : IsFirst(f, todo[p]) => disk[f] # Absent
    /\ pc[p] = "open" => folder

(* Files and the folder stay, and a process that does not move keeps what  *)
(* it has begun.                                                           *)
LEMMA Resting ==
  ASSUME StoreInv, TypeOK', NEW q \in Procs, UNCHANGED runs, folder => folder',
         \A f \in Files : disk[f] # Absent => disk'[f] # Absent,
         pc'[q] = pc[q], todo'[q] = todo[q], label'[q] = label[q]
  PROVE  Orderly(q)' /\ (Begun(q)' <=> Begun(q))
<1>1. /\ Program(q)' = Program(q) /\ Strategy(q)' = Strategy(q) /\ Config(q)' = Config(q)
      /\ Persisting(q)' = Persisting(q)
  BY DEF Program, Strategy, Config, Persisting
<1>2. ToPersist(q)' = ToPersist(q)
  BY <1>1 DEF ToPersist
<1>3. Orderly(q) /\ todo[q] \subseteq Files
  BY DEF StoreInv, Pending, Orderly, TypeOK
<1>4. Orderly(q)'
  BY <1>1, <1>2, <1>3 DEF Orderly
<1> QED
  BY <1>1, <1>4 DEF Begun

(* A step that touches no file, of a process that has nothing to persist   *)
(* before it or after it.                                                  *)
LEMMA Aside ==
  ASSUME StoreInv, TypeOK', NEW p \in Procs, UNCHANGED <<runs, folder, disk, faults, installed>>,
         ~Persisting(p), ~Persisting(p)',
         \A q \in Procs \ {p} : pc'[q] = pc[q] /\ todo'[q] = todo[q] /\ label'[q] = label[q]
  PROVE  Pending' /\ Followed' /\ Whole'
<1>1. \A q \in Procs \ {p} : Orderly(q)' /\ (Begun(q)' <=> Begun(q))
  BY Resting
<1>2. Pending'
  BY <1>1 DEF Pending, Orderly
<1>3. ~Begun(p)
  BY DEF Begun
<1>4. Followed'
  BY <1>1, <1>3 DEF StoreInv, Followed
<1>5. pc[p] # "write"
  BY DEF Persisting
<1>6. Whole'
  BY <1>5 DEF StoreInv, Whole
<1> QED
  BY <1>2, <1>4, <1>6

(* A process that is killed or whose write fails. *)
LEMMA Broken ==
  ASSUME StoreInv, TypeOK', NEW p \in Procs, UNCHANGED <<runs, folder, disk>>,
         faults' > 0, ~Persisting(p)',
         \A q \in Procs \ {p} : pc'[q] = pc[q] /\ todo'[q] = todo[q] /\ label'[q] = label[q]
  PROVE  Pending' /\ Followed' /\ Whole'
<1>1. \A q \in Procs \ {p} : Orderly(q)'
  BY Resting
<1>2. Pending'
  BY <1>1 DEF Pending, Orderly
<1> QED
  BY <1>2 DEF Followed, Whole

LEMMA GeneratePersists ==
  ASSUME StoreInv, TypeOK', NEW p \in Procs, Generate(p), Strategy(p) # "none"
  PROVE  Pending' /\ Followed' /\ Whole'
<1>1. /\ pc[p] = "generate" /\ pc'[p] = "check" /\ todo'[p] = ToPersist(p) /\ label' = label
      /\ UNCHANGED <<runs, folder, disk, faults, installed>>
      /\ \A q \in Procs \ {p} : pc'[q] = pc[q] /\ todo'[q] = todo[q]
  BY DEF Generate, Goto, StoreInv, TypeOK, fixed, release, start, trouble
<1>2. ToPersist(p)' = ToPersist(p)
  BY <1>1 DEF ToPersist, Strategy, Program, Config
<1>3. Orderly(p)'
  BY <1>1, <1>2 DEF Orderly
<1>4. \A q \in Procs \ {p} : Orderly(q)' /\ (Begun(q)' <=> Begun(q))
  BY <1>1, Resting
<1>5. Pending'
  BY <1>3, <1>4 DEF Pending, Orderly
<1>6. ~Begun(p)
  BY <1>1 DEF Begun, Persisting
<1>7. Followed'
  BY <1>1, <1>4, <1>6 DEF StoreInv, Followed
<1>8. Whole'
  BY <1>1 DEF StoreInv, Whole
<1> QED
  BY <1>5, <1>7, <1>8

LEMMA FolderPersists ==
  ASSUME StoreInv, TypeOK', NEW p \in Procs, CheckFolder(p) \/ CreateFolder(p)
  PROVE  Pending' /\ Followed' /\ Whole'
<1>1. /\ pc[p] \in {"check", "mkdir"} /\ UNCHANGED <<runs, disk, faults, installed, todo, label>>
      /\ \A q \in Procs \ {p} : pc'[q] = pc[q]
      /\ folder => folder'
      /\ \/ pc'[p] = "open" /\ folder'
         \/ pc'[p] = "mkdir" /\ ~folder
         \/ pc'[p] = "failed" /\ pc[p] = "mkdir"
  BY DEF CheckFolder, CreateFolder, Goto, StoreInv, TypeOK, fixed, release, start, trouble
<1>2. ToPersist(p)' = ToPersist(p) /\ Program(p)' = Program(p) /\ Config(p)' = Config(p)
  BY <1>1 DEF ToPersist, Strategy, Program, Config
<1>3. Orderly(p) /\ Persisting(p)
  BY <1>1 DEF StoreInv, Pending, Orderly, Persisting
<1>4. Orderly(p)'
  BY <1>1, <1>2, <1>3 DEF Orderly, Persisting
<1>5. \A q \in Procs \ {p} : Orderly(q)' /\ (Begun(q)' <=> Begun(q))
  BY <1>1, Resting
<1>6. Pending'
  BY <1>4, <1>5 DEF Pending, Orderly
<1>7. ASSUME NEW f \in todo[p], Begun(p) PROVE Begun(p)'
  <2>1. CASE pc'[p] # "failed"
    BY <1>1, <1>2, <1>7, <2>1 DEF Begun, Persisting
  <2>2. CASE pc[p] = "mkdir"
    <3>1. todo[p] = ToPersist(p) /\ Program(p) # "verifier" /\ Base(label[p], Config(p)) \notin todo[p]
      BY <1>3, <1>7, <2>2 DEF Orderly, Begun
    <3>2. todo[p] = {}
      BY <3>1 DEF ToPersist
    <3> QED
      BY <3>2
  <2> QED
    BY <1>1, <2>1, <2>2
<1>8. Followed'
  BY <1>1, <1>5, <1>7 DEF StoreInv, Followed
<1>9. Whole'
  BY <1>1 DEF StoreInv, Whole
<1> QED
  BY <1>6, <1>8, <1>9

LEMMA OpenPersists ==
  ASSUME StoreInv, TypeOK', NEW p \in Procs, NEW f \in todo[p], Open(p, f)
  PROVE  Pending' /\ Followed' /\ Whole'
<1>1. /\ pc[p] = "open" /\ pc'[p] = "write" /\ IsFirst(f, todo[p]) /\ f \in Files
      /\ UNCHANGED <<runs, folder, faults, installed, todo, label>>
      /\ \A q \in Procs \ {p} : pc'[q] = pc[q]
      /\ disk'[f] = CutBy(p) /\ \A g \in Files \ {f} : disk'[g] = disk[g]
  BY DEF Open, Goto, StoreInv, TypeOK, fixed, release, start, trouble
<1>2. ToPersist(p)' = ToPersist(p) /\ Program(p)' = Program(p) /\ Config(p)' = Config(p)
  BY <1>1 DEF ToPersist, Strategy, Program, Config
<1>3. Orderly(p) /\ Persisting(p) /\ todo[p] \subseteq Files
  BY <1>1 DEF StoreInv, Pending, Orderly, Persisting, TypeOK
<1>4. \A g \in Files : disk[g] # Absent => disk'[g] # Absent
  BY <1>1, ContentKinds
<1>5. Orderly(p)'
  <2>1. \A g \in todo'[p] : IsFirst(g, todo'[p]) => disk'[g] # Absent
    BY <1>1, <1>3, OneFirst, ContentKinds
  <2> QED
    BY <1>1, <1>2, <1>3, <2>1 DEF Orderly, Persisting
<1>6. \A q \in Procs \ {p} : Orderly(q)' /\ (Begun(q)' <=> Begun(q))
  BY <1>1, <1>4, Resting
<1>7. Pending'
  BY <1>5, <1>6 DEF Pending, Orderly
<1>8. Followed'
  <2> SUFFICES ASSUME faults = 0, NEW l \in Labels, NEW c \in Configs, disk'[Base(l, c)] # Absent,
                      NEW g \in Rest(l, c)
               PROVE  disk'[g] # Absent \/ \E q \in Procs : Begun(q)' /\ g \in todo[q]
    BY <1>1 DEF Followed
  <2>1. Base(l, c) \in Files /\ g \in Files
    BY AllFiles DEF Rest
  <2>2. Program(p) # "verifier" => Begun(p)'
    BY <1>1, <1>2 DEF Begun, Persisting
  <2>3. CASE disk[Base(l, c)] # Absent
    <3>1. disk[g] # Absent \/ \E q \in Procs : Begun(q) /\ g \in todo[q]
      BY <2>3 DEF StoreInv, Followed
    <3> QED
      BY <3>1, <1>4, <1>6, <2>1, <2>2 DEF Begun
  <2>4. CASE disk[Base(l, c)] = Absent
    <3>1. f = Base(l, c)
      BY <1>1, <2>1, <2>4
    <3>2. f \in ToPersist(p) /\ f[1] = "base"
      BY <1>3, <3>1, Paths DEF Orderly
    <3>3. Program(p) # "verifier" /\ f = Base(label[p], Config(p))
          /\ Rest(label[p], Config(p)) \subseteq ToPersist(p)
      BY <3>2, OwnFiles DEF StoreInv
    <3>4. l = label[p] /\ c = Config(p)
      <4>1. Base(l, c) = Base(label[p], Config(p))
        BY <3>1, <3>3
      <4> QED
        BY <4>1 DEF Base
    <3>5. todo[p] = ToPersist(p)
      BY <1>3, <3>3 DEF Orderly
    <3> QED
      BY <2>2, <3>3, <3>4, <3>5
  <2> QED
    BY <2>3, <2>4
<1>9. Whole'
  <2> SUFFICES ASSUME faults = 0, installed = 1, NEW g \in Files
               PROVE  /\ disk'[g] # Torn
                      /\ \A q \in Procs : disk'[g] = CutBy(q) => pc'[q] = "write" /\ IsFirst(g, todo[q])
    BY <1>1 DEF Whole
  <2>1. CASE g = f
    BY <1>1, <2>1, ContentKinds
  <2>2. CASE g # f
    BY <1>1, <2>2 DEF StoreInv, Whole
  <2> QED
    BY <2>1, <2>2
<1> QED
  BY <1>7, <1>8, <1>9

LEMMA WritePersists ==
  ASSUME StoreInv, TypeOK', NEW p \in Procs, NEW f \in todo[p], Write(p, f)
  PROVE  Pending' /\ Followed' /\ Whole'
<1>1. /\ pc[p] = "write" /\ IsFirst(f, todo[p]) /\ f \in Files
      /\ todo'[p] = todo[p] \ {f} /\ pc'[p] = IF todo'[p] = {} THEN "ready" ELSE "check"
      /\ UNCHANGED <<runs, folder, faults, installed, label>>
      /\ \A q \in Procs \ {p} : pc'[q] = pc[q] /\ todo'[q] = todo[q]
      /\ \A g \in Files \ {f} : disk'[g] = disk[g]
  BY DEF Write, WriteBytes, Goto, StoreInv, TypeOK, fixed, release, start, trouble
<1>d. \/ disk'[f] = Circuitry(build[p])
      \/ disk[f] # CutBy(p) /\ disk'[f] = disk[f]
      \/ CanRead(f) /\ CanFailToRead(p, f) /\ disk'[f] = Torn
  BY <1>1 DEF Write, WriteBytes, StoreInv, TypeOK
<1>2. ToPersist(p)' = ToPersist(p) /\ Program(p)' = Program(p) /\ Config(p)' = Config(p)
  BY <1>1 DEF ToPersist, Strategy, Program, Config
<1>3. Orderly(p) /\ Persisting(p) /\ todo[p] \subseteq Files
  BY <1>1 DEF StoreInv, Pending, Orderly, Persisting, TypeOK
<1>4. disk[f] # Absent /\ disk'[f] # Absent
  BY <1>1, <1>d, <1>3, ContentKinds DEF Orderly
<1>5. Base(label[p], Config(p)) \notin todo'[p]
  BY <1>1, BaseFirst, Paths
<1>6. Orderly(p)'
  BY <1>1, <1>2, <1>3, <1>5 DEF Orderly, Persisting
<1>7. \A q \in Procs \ {p} : Orderly(q)' /\ (Begun(q)' <=> Begun(q))
  BY <1>1, <1>4, Resting
<1>8. Pending'
  BY <1>6, <1>7 DEF Pending, Orderly
<1>9. Followed'
  <2> SUFFICES ASSUME faults = 0, NEW l \in Labels, NEW c \in Configs, disk'[Base(l, c)] # Absent,
                      NEW g \in Rest(l, c), disk'[g] = Absent
               PROVE  \E q \in Procs : Begun(q)' /\ g \in todo'[q]
    BY <1>1 DEF Followed
  <2>1. Base(l, c) \in Files /\ g \in Files
    BY AllFiles DEF Rest
  <2>2. g # f /\ disk[g] = Absent /\ disk[Base(l, c)] # Absent
    BY <1>1, <1>4, <2>1
  <2>3. PICK q \in Procs : Begun(q) /\ g \in todo[q]
    BY <2>2 DEF StoreInv, Followed
  <2>4. CASE q # p
    BY <1>1, <1>7, <2>3, <2>4
  <2>5. CASE q = p
    <3>1. g \in todo'[p] /\ pc'[p] = "check"
      BY <1>1, <2>2, <2>3, <2>5
    <3>2. Begun(p)'
      BY <1>1, <1>2, <1>5, <2>3, <2>5, <3>1 DEF Begun, Persisting
    <3> QED
      BY <3>1, <3>2
  <2> QED
    BY <2>4, <2>5
<1>10. Whole'
  <2> SUFFICES ASSUME faults = 0, installed = 1, NEW g \in Files
               PROVE  /\ disk'[g] # Torn
                      /\ \A q \in Procs : disk'[g] = CutBy(q) => pc'[q] = "write" /\ IsFirst(g, todo'[q])
    BY <1>1 DEF Whole
  <2>1. /\ disk[g] # Torn
        /\ \A q \in Procs : disk[g] = CutBy(q) => pc[q] = "write" /\ IsFirst(g, todo[q])
    BY DEF StoreInv, Whole
  <2>2. CASE g = f
    <3>1. ~(CanRead(f) /\ CanFailToRead(p, f))
      <4>1. \A v \in Versions : v \in Nat /\ 1 <= v
        BY BoundsAssumption DEF Versions
      <4>2. build[p] = 1
        <5>1. build[p] \in Versions
          BY DEF StoreInv, TypeOK
        <5>2. build[p] <= 1
          BY DEF StoreInv, Releases
        <5> QED
          BY <4>1, <5>1, <5>2
      <4>3. \A v \in Versions : disk[f] = Circuitry(v) => v = 1
        BY <1>1, <4>1 DEF StoreInv, Releases
      <4> QED
        BY <4>2, <4>3 DEF CanRead, VersionIn, CanFailToRead
    <3>2. CASE disk'[f] = Circuitry(build[p])
      BY <2>2, <3>2, ContentKinds
    <3>3. CASE disk[f] # CutBy(p) /\ disk'[f] = disk[f]
      BY <1>1, <2>1, <2>2, <3>3
    <3> QED
      BY <1>d, <3>1, <3>2, <3>3
  <2>3. CASE g # f
    <3>1. ~IsFirst(g, todo[p])
      BY <1>1, <1>3, <2>3, OneFirst
    <3> QED
      BY <1>1, <2>1, <2>3, <3>1
  <2> QED
    BY <2>2, <2>3
<1> QED
  BY <1>8, <1>9, <1>10

LEMMA PersistStep == ASSUME StoreInv, TypeOK', [Next]_vars PROVE Pending' /\ Followed' /\ Whole'
<1>t. TypeOK
  BY DEF StoreInv
<1>1. CASE CheckOut \/ Install
  <2>1. UNCHANGED <<runs, folder, disk, pc, todo, label, faults>>
    BY <1>1 DEF CheckOut, Install, fixed, start, trouble
  <2>2. \A q \in Procs : Orderly(q)' /\ (Begun(q)' <=> Begun(q))
    BY <2>1, Resting
  <2>3. Pending' /\ Followed'
    BY <2>1, <2>2 DEF Pending, Orderly, StoreInv, Followed
  <2>4. installed' = 1 => installed = 1
    <3>1. installed \in Nat /\ checkout \in Nat /\ 1 <= installed /\ installed <= checkout
      BY <1>t, BoundsAssumption DEF StoreInv, Releases, TypeOK, Versions
    <3> QED
      BY <1>1, <3>1 DEF CheckOut, Install
  <2>5. Whole'
    BY <2>1, <2>4 DEF StoreInv, Whole
  <2> QED
    BY <2>3, <2>5
<1>2. ASSUME NEW p \in Procs, Start(p) \/ Load(p) \/ BeginTxn(p) PROVE Pending' /\ Followed' /\ Whole'
  <2>1. UNCHANGED <<runs, folder, disk, faults, installed, todo>>
    BY <1>2 DEF Start, Load, BeginTxn, fixed, release, start, trouble
  <2>2. ~Persisting(p) /\ ~Persisting(p)'
    BY <1>2, <1>t DEF Start, Load, BeginTxn, Goto, Persisting, TypeOK
  <2>3. \A q \in Procs \ {p} : pc'[q] = pc[q] /\ label'[q] = label[q]
    BY <1>2, <1>t DEF Start, Load, BeginTxn, Goto, TypeOK, start
  <2> QED
    BY <2>1, <2>2, <2>3, Aside
<1>3. ASSUME NEW p \in Procs, Generate(p) PROVE Pending' /\ Followed' /\ Whole'
  <2>1. CASE Strategy(p) = "none"
    <3>1. /\ UNCHANGED <<runs, folder, disk, faults, installed, label>>
          /\ pc[p] = "generate" /\ pc'[p] = "ready"
          /\ \A q \in Procs \ {p} : pc'[q] = pc[q] /\ todo'[q] = todo[q]
      BY <1>3, <1>t, <2>1 DEF Generate, Goto, TypeOK, fixed, release, start, trouble
    <3> QED
      BY <3>1, Aside DEF Persisting
  <2> QED
    BY <1>3, <2>1, GeneratePersists
<1>4. ASSUME NEW p \in Procs, WriteFails(p) \/ Kill(p) PROVE Pending' /\ Followed' /\ Whole'
  <2>1. UNCHANGED <<runs, folder, disk>> /\ faults' > 0
    BY <1>4, <1>t, BoundsAssumption DEF WriteFails, Kill, Forget, fixed, TypeOK
  <2>2. pc'[p] \in {"failed", "down"}
    BY <1>4, <1>t DEF WriteFails, Kill, Forget, Goto, TypeOK
  <2>3. \A q \in Procs \ {p} : pc'[q] = pc[q] /\ todo'[q] = todo[q] /\ label'[q] = label[q]
    BY <1>4, <1>t DEF WriteFails, Kill, Forget, Goto, TypeOK, start
  <2> QED
    BY <2>1, <2>2, <2>3, Broken DEF Persisting
<1>5. ASSUME NEW p \in Procs, Exit(p) PROVE Pending' /\ Followed' /\ Whole'
  <2>1. UNCHANGED <<runs, folder, disk, faults, installed>> /\ pc[p] \in {"failed", "ready"}
    BY <1>5 DEF Exit, Forget, fixed, release, trouble
  <2>2. pc'[p] = "down"
    BY <1>5, <1>t DEF Exit, Forget, Goto, TypeOK
  <2>3. \A q \in Procs \ {p} : pc'[q] = pc[q] /\ todo'[q] = todo[q] /\ label'[q] = label[q]
    BY <1>5, <1>t DEF Exit, Forget, Goto, TypeOK
  <2> QED
    BY <2>1, <2>2, <2>3, Aside DEF Persisting
<1>6. ASSUME NEW p \in Procs, pc[p] = "tables", pc'[p] \in {"tables", "ready"},
             UNCHANGED <<runs, folder, disk, faults, installed, todo, label>>,
             \A q \in Procs \ {p} : pc'[q] = pc[q]
      PROVE  Pending' /\ Followed' /\ Whole'
  BY <1>6, Aside DEF Persisting
<1>7. ASSUME NEW p \in Procs,
             ShrinkAndProve(p) \/ ProveMonolithic(p)
               \/ \E k \in Circuits : LoadTable(p, k) \/ TableUnreadable(p, k)
      PROVE  Pending' /\ Followed' /\ Whole'
  <2>1. pc[p] = "tables" /\ UNCHANGED <<runs, folder, disk, faults, installed, todo, label>>
    BY <1>7 DEF ShrinkAndProve, ProveMonolithic, LoadTable, TableUnreadable, Reading, EndTxn,
       fixed, release, start, trouble
  <2>2. pc' = pc \/ pc' = [pc EXCEPT ![p] = "ready"]
    BY <1>7 DEF ShrinkAndProve, ProveMonolithic, LoadTable, TableUnreadable, EndTxn, Goto
  <2> QED
    BY <1>6, <1>t, <2>1, <2>2 DEF TypeOK
<1>8. CASE UNCHANGED vars
  BY <1>8 DEF vars, fixed, release, start, trouble, StoreInv, Pending, Followed, Whole, Persisting,
     Begun, ToPersist, Strategy, Program, Config
<1> QED
  BY <1>1, <1>2, <1>3, <1>4, <1>5, <1>7, <1>8, FolderPersists, OpenPersists, WritePersists
     DEF Next, Work

-------------------------------------------------------------------------------
(* The race for the folder *)

LEMMA RaceStep == ASSUME StoreInv, TypeOK', [Next]_vars PROVE Race'
<1>t. TypeOK
  BY DEF StoreInv
<1>r. /\ FolderExists => folder
      /\ \A p \in Procs : pc[p] = "mkdir" => ~FolderExists
      /\ faults = 0 /\ folder /\ ~FolderExists =>
           \/ \E q \in Procs : pc[q] = "open"
           \/ \E f \in Files : disk[f] # Absent
      /\ \A p \in Procs : pc[p] = "failed" /\ ~ioError =>
           ~FolderExists /\ folder /\ todo[p] = ToPersist(p)
  BY DEF StoreInv, Race
<1>f. faults \in Nat /\ (faults' = 0 => faults = 0) /\ (~ioError' => ~ioError)
  <2>1. trouble' = trouble \/ (faults' = faults + 1 /\ ioError' \in {ioError, TRUE})
    <3>1. CASE CheckOut \/ Install \/ UNCHANGED vars
      BY <3>1 DEF CheckOut, Install, vars
    <3>2. ASSUME NEW p \in Procs, Start(p) \/ Exit(p) \/ BeginTxn(p) PROVE trouble' = trouble
      BY <3>2 DEF Start, Exit, BeginTxn
    <3>3. ASSUME NEW p \in Procs, WriteFails(p) \/ Kill(p)
          PROVE  faults' = faults + 1 /\ ioError' \in {ioError, TRUE}
      BY <3>3 DEF WriteFails, Kill
    <3>4. ASSUME NEW p \in Procs, Load(p) \/ Generate(p) \/ CheckFolder(p) \/ CreateFolder(p)
          PROVE  trouble' = trouble
      BY <3>4 DEF Load, Generate, CheckFolder, CreateFolder
    <3>5. ASSUME NEW p \in Procs, NEW f, Open(p, f) \/ Write(p, f) PROVE trouble' = trouble
      BY <3>5 DEF Open, Write
    <3>6. ASSUME NEW p \in Procs, ShrinkAndProve(p) \/ ProveMonolithic(p) PROVE trouble' = trouble
      BY <3>6 DEF ShrinkAndProve, ProveMonolithic, EndTxn
    <3>7. ASSUME NEW p \in Procs, NEW k, LoadTable(p, k) \/ TableUnreadable(p, k)
          PROVE  trouble' = trouble
      BY <3>7 DEF LoadTable, TableUnreadable, EndTxn
    <3> QED
      BY <3>1, <3>2, <3>3, <3>4, <3>5, <3>6, <3>7 DEF Next, Work
  <2>2. faults' = faults \/ faults' = faults + 1
    BY <2>1, Zenon DEF trouble
  <2>3. ~ioError' => ~ioError
    BY <2>1, <1>t, Zenon DEF TypeOK, trouble
  <2>4. faults \in Nat
    BY <1>t, BoundsAssumption DEF TypeOK
  <2> QED
    BY <2>2, <2>3, <2>4
(* What a process that fails has still to persist does not change. *)
<1>k. ASSUME UNCHANGED runs, NEW q \in Procs, UNCHANGED <<pc[q], todo[q], label[q]>>,
             folder => folder'
      PROVE  /\ pc'[q] = "mkdir" => ~FolderExists
             /\ pc'[q] = "failed" /\ ~ioError' =>
                  ~FolderExists /\ folder' /\ todo'[q] = ToPersist(q)'
  BY <1>k, <1>r, <1>f DEF ToPersist, Strategy, Program, Config
<1>1. CASE CheckOut \/ Install \/ UNCHANGED vars
  <2>1. UNCHANGED <<runs, folder, disk, pc, todo, label>>
    BY <1>1 DEF CheckOut, Install, vars, fixed, start
  <2> QED
    BY <1>r, <1>f, <1>k, <2>1 DEF Race
(* A step of one process that leaves the folder alone. *)
<1>2. ASSUME NEW p \in Procs, UNCHANGED <<runs, folder>>,
             \A q \in Procs \ {p} : UNCHANGED <<pc[q], todo[q], label[q]>>,
             pc'[p] \notin {"mkdir", "failed"} \/ (pc'[p] = "failed" /\ ioError'),
             \/ disk' = disk /\ (pc[p] # "open" \/ faults' # 0)
             \/ \E f \in Files : disk'[f] # Absent
      PROVE  Race'
  <2>1. faults' = 0 /\ folder /\ ~FolderExists =>
          \/ \E q \in Procs : pc'[q] = "open"
          \/ \E f \in Files : disk'[f] # Absent
    BY <1>2, <1>r, <1>f
  <2> QED
    BY <1>2, <1>r, <1>k, <2>1 DEF Race
<1>3. ASSUME NEW p \in Procs,
             Start(p) \/ Load(p) \/ Generate(p) \/ WriteFails(p) \/ Kill(p) \/ Exit(p) \/ BeginTxn(p)
      PROVE  Race'
  <2>1. UNCHANGED <<runs, folder, disk>> /\ (pc[p] # "open" \/ faults' # 0)
    BY <1>3, <1>f DEF Start, Load, Generate, WriteFails, Kill, Exit, Forget, BeginTxn, fixed
  <2>2. pc'[p] \notin {"mkdir", "failed"} \/ (pc'[p] = "failed" /\ ioError')
    BY <1>3, <1>t DEF Start, Load, Generate, WriteFails, Kill, Exit, Forget, BeginTxn, Goto, TypeOK
  <2>3. \A q \in Procs \ {p} : UNCHANGED <<pc[q], todo[q], label[q]>>
    BY <1>3, <1>t DEF Start, Load, Generate, WriteFails, Kill, Exit, Forget, BeginTxn, Goto, TypeOK, start
  <2> QED
    BY <1>2, <2>1, <2>2, <2>3
<1>4. ASSUME NEW p \in Procs, NEW f \in todo[p], Open(p, f) \/ Write(p, f) PROVE Race'
  <2>1. UNCHANGED <<runs, folder>> /\ f \in Files /\ pc[p] \in {"open", "write"} /\ IsFirst(f, todo[p])
    BY <1>4, <1>t DEF Open, Write, fixed, TypeOK
  <2>2. disk'[f] # Absent
    <3>1. CASE Open(p, f)
      BY <3>1, <2>1, <1>t, ContentKinds DEF Open, TypeOK
    <3>2. CASE Write(p, f)
      <4>1. disk[f] # Absent
        BY <1>4, <2>1, <3>2 DEF Write, StoreInv, Pending, Persisting
      <4> QED
        BY <3>2, <4>1, <2>1, <1>t, ContentKinds DEF Write, WriteBytes, TypeOK
    <3> QED
      BY <1>4, <3>1, <3>2
  <2>3. pc'[p] \notin {"mkdir", "failed"} /\ \A q \in Procs \ {p} : UNCHANGED <<pc[q], todo[q], label[q]>>
    BY <1>4, <1>t DEF Open, Write, Goto, TypeOK, start
  <2> QED
    BY <1>2, <2>1, <2>2, <2>3
<1>5. ASSUME NEW p \in Procs,
             ShrinkAndProve(p) \/ ProveMonolithic(p)
               \/ \E k \in Circuits : LoadTable(p, k) \/ TableUnreadable(p, k)
      PROVE  Race'
  <2>1. pc[p] = "tables" /\ UNCHANGED <<runs, folder, disk, todo, label>>
    BY <1>5 DEF ShrinkAndProve, ProveMonolithic, LoadTable, TableUnreadable, Reading, EndTxn,
       fixed, start
  <2>2. pc' = pc \/ pc' = [pc EXCEPT ![p] = "ready"]
    BY <1>5 DEF ShrinkAndProve, ProveMonolithic, LoadTable, TableUnreadable, EndTxn, Goto
  <2> QED
    BY <1>2, <1>t, <2>1, <2>2 DEF TypeOK
<1>6. ASSUME NEW p \in Procs, CheckFolder(p) \/ CreateFolder(p) PROVE Race'
  <2>1. /\ UNCHANGED <<runs, disk, todo, label>> /\ pc[p] \in {"check", "mkdir"}
        /\ \A q \in Procs \ {p} : pc'[q] = pc[q]
        /\ folder => folder'
        /\ \/ pc'[p] = "open" /\ folder'
           \/ pc'[p] = "mkdir" /\ ~folder /\ ~folder'
           \/ pc'[p] = "failed" /\ pc[p] = "mkdir" /\ folder
    BY <1>6, <1>t DEF CheckFolder, CreateFolder, Goto, TypeOK, fixed, start
  <2>2. ToPersist(p)' = ToPersist(p)
    BY <2>1 DEF ToPersist, Strategy, Program, Config
  <2>3. pc[p] = "mkdir" => todo[p] = ToPersist(p)
    BY DEF StoreInv, Pending, Persisting
  <2>4. /\ pc'[p] = "mkdir" => ~FolderExists
        /\ pc'[p] = "failed" => ~FolderExists /\ folder' /\ todo'[p] = ToPersist(p)'
    BY <1>r, <2>1, <2>2, <2>3
  <2>5. faults' = 0 /\ folder' /\ ~FolderExists =>
          \/ \E q \in Procs : pc'[q] = "open"
          \/ \E f \in Files : disk'[f] # Absent
    BY <1>r, <1>f, <2>1
  <2>6. FolderExists => folder'
    BY <1>r, <2>1
  <2> QED
    BY <1>k, <2>1, <2>4, <2>5, <2>6 DEF Race
<1> QED
  BY <1>1, <1>3, <1>4, <1>5, <1>6 DEF Next, Work

LEMMA StoreStep == ASSUME StoreInv, [Next]_vars PROVE StoreInv'
  BY StoreTypeStep, VersionStep, MemoryStep, PersistStep, RaceStep DEF StoreInv

(* The inductive invariant of processes that share a circuits folder.      *)
THEOREM StoreInvariance == Spec => []StoreInv
  BY StoreInitially, StoreStep, PTL DEF Spec

(* Type correctness of CircuitStore. *)
THEOREM StoreTypes == Spec => []TypeOK
  BY StoreInvariance, PTL DEF StoreInv

(* The version in the path keeps the circuits of two series of releases    *)
(* apart, but for programs without one or with one that was set by hand,   *)
(* and for starts between a check-out and its build.                       *)
THEOREM StaleCauses == Spec => []StaleHasCause
  BY StoreInvariance, PTL DEF StoreInv

(* What is loaded or generated at the start is enough for a prover that    *)
(* does not load on demand.                                                *)
THEOREM MemorySuffices == Spec => []MemoryNeverMisses
  BY StoreInvariance, PTL DEF StoreInv

(* Starts fail by themselves only in the race for a new folder, which one  *)
(* of them wins; what was left behind by others never makes one fail.      *)
THEOREM RaceIsWon == Spec => []FolderRaceHasWinner
<1>1. StoreInv => FolderRaceHasWinner
  <2> SUFFICES ASSUME StoreInv, NEW p \in Procs, pc[p] = "failed", ~ioError
               PROVE  /\ ~FolderExists /\ folder /\ todo[p] = ToPersist(p)
                      /\ \/ \E q \in Procs : pc[q] = "open"
                         \/ \E f \in Files : disk[f] # Absent
                         \/ faults > 0
    BY DEF FolderRaceHasWinner
  <2>1. faults \in Nat
    BY BoundsAssumption DEF StoreInv, TypeOK
  <2> QED
    BY <2>1 DEF StoreInv, Race
<1> QED
  BY <1>1, StoreInvariance, PTL

(* However many processes write one folder at once, without a kill, an I/O *)
(* error or a release the base circuits end up with everything else.       *)
THEOREM Completeness == Spec => []IncompleteHasCause
<1>1. ASSUME StoreInv PROVE IncompleteHasCause
  <2> SUFFICES ASSUME NEW l \in Labels, NEW c \in Configs, CanRead(Base(l, c)),
                      \A p \in Procs : ~Persisting(p), ~(faults > 0), ~(installed > 1),
                      NEW f \in Rest(l, c)
               PROVE  CanRead(f)
    BY DEF IncompleteHasCause, Complete, Rest
  <2>1. faults = 0 /\ installed = 1
    BY <1>1, BoundsAssumption DEF StoreInv, TypeOK, Versions
  <2>2. f \in Files
    BY AllFiles DEF Rest
  <2>3. disk[f] # Absent
    BY <1>1, <2>1, ContentKinds DEF StoreInv, Followed, Begun, CanRead, VersionIn
  <2>4. disk[f] # Torn /\ \A p \in Procs : disk[f] # CutBy(p)
    BY <1>1, <2>1, <2>2 DEF StoreInv, Whole, Persisting
  <2> QED
    BY <1>1, <2>2, <2>3, <2>4 DEF StoreInv, TypeOK, Contents, CanRead, VersionIn
<1> QED
  BY <1>1, StoreInvariance, PTL

-------------------------------------------------------------------------------
(* No start and no transaction gets stuck *)

(* The guards of the steps a process takes by itself, one per line of its  *)
(* program; one that is ready, down or has failed has nothing to do.       *)
ReadsOrFails(p, f) == CanRead(f) \/ CanFailToRead(p, f)

CanGoOn(p) ==
  \/ pc[p] \in {"generate", "check", "mkdir"}
  \/ pc[p] = "load" /\ (Strategy(p) = "none" \/ ReadsOrFails(p, StartFile(p)))
  \/ pc[p] \in {"open", "write"} /\ \E f \in todo[p] : IsFirst(f, todo[p])
  \/ \E k \in Circuits : Reading(p, k) /\ ReadsOrFails(p, NeededTable(p, k))
  \/ pc[p] = "tables" /\ Strategy(p) = "on-demand" /\ loaded[p] = Circuits
  \/ pc[p] = "tables" /\ Strategy(p) # "on-demand"

LEMMA LeastOf ==
  ASSUME NEW S \in SUBSET Nat, S # {} PROVE \E n \in S : \A m \in S : n <= m
<1> DEFINE R == OpToRel(<, Nat)
<1>1. IsWellFoundedOn(R, Nat)
  BY NatLessThanWellFounded
<1>2. \A a, b \in Nat : a < b => <<a, b>> \in R
  BY DEF OpToRel
<1> HIDE DEF R
<1>3. PICK n \in S : \A m \in S : ~(<<m, n>> \in R)
  BY <1>1, WFMin
<1>4. \A m \in S : ~(m < n)
  BY <1>2, <1>3
<1> QED
  BY <1>3, <1>4

(* Any set of files that a process writes has one to go first: the base,   *)
(* the bundle, the table least by circuit and size, the verifier's.        *)
LEMMA SomeFirst ==
  ASSUME TypeOK, NEW p \in Procs, NEW S, S \subseteq ToPersist(p), S # {}
  PROVE  \E f \in S : IsFirst(f, S)
<1> DEFINE base   == Base(label[p], Config(p))
           mono   == Mono(label[p], Config(p))
           verif  == Verif(label[p], Config(p))
           tables == {f \in S : f[1] = "table"}
<1>1. base[1] = "base" /\ mono[1] = "mono" /\ verif[1] = "verif"
  BY Paths
<1>2. \A f \in S : f \in Files /\ (f = base \/ f = mono \/ f = verif \/ f \in tables)
  <2>1. label[p] \in Labels /\ Config(p) \in Configs
    BY CommandLine DEF TypeOK
  <2>2. ToPersist(p) \subseteq {base, mono, verif} \cup TablesOf(label[p], Config(p))
    BY DEF ToPersist
  <2>3. \A f \in TablesOf(label[p], Config(p)) : f[1] = "table"
    BY <2>1, AllFiles
  <2>4. S \subseteq Files
    BY OwnFiles
  <2> QED
    BY <2>2, <2>3, <2>4
<1> HIDE DEF base, mono, verif
<1>3. CASE base \in S
  BY <1>1, <1>2, <1>3 DEF IsFirst, Before
<1>4. CASE base \notin S /\ mono \in S
  BY <1>1, <1>2, <1>4 DEF IsFirst, Before
<1>5. CASE base \notin S /\ mono \notin S /\ tables = {}
  BY <1>2, <1>5 DEF IsFirst, Before
<1>6. CASE base \notin S /\ mono \notin S /\ tables # {}
  <2>1. \A f \in tables : f[3] \in Nat /\ f[4] \in Nat
    BY <1>2, TablesInFiles
  <2>2. PICK k \in {f[3] : f \in tables} : \A m \in {f[3] : f \in tables} : k <= m
    BY <1>6, <2>1, LeastOf
  <2>3. PICK s \in {f[4] : f \in {g \in tables : g[3] = k}} :
          \A m \in {f[4] : f \in {g \in tables : g[3] = k}} : s <= m
    BY <2>1, <2>2, LeastOf
  <2>4. PICK f \in tables : f[3] = k /\ f[4] = s
    BY <2>3
  <2>5. \A g \in tables \ {f} : Before(f, g)
    <3> SUFFICES ASSUME NEW g \in tables, g # f PROVE Before(f, g)
      OBVIOUS
    <3>1. \/ k < g[3]
          \/ k = g[3] /\ s < g[4]
          \/ k = g[3] /\ s = g[4]
      BY <2>1, <2>2, <2>3, <2>4
    <3>2. f[3] = g[3] /\ f[4] = g[4] => f = g
      <4>1. f[2] = g[2]
        BY OwnFiles
      <4> QED
        BY <1>2, <4>1, SameTable
    <3> QED
      BY <2>4, <3>1, <3>2 DEF Before
  <2>6. Before(f, verif)
    BY <1>1, <2>4 DEF Before
  <2> QED
    BY <1>2, <1>6, <2>4, <2>5, <2>6 DEF IsFirst
<1> QED
  BY <1>3, <1>4, <1>5, <1>6

(* A process that persists has a file left to write. *)
Unwritten == \A p \in Procs : Persisting(p) => todo[p] # {}

LEMMA UnwrittenStep == ASSUME TypeOK, Unwritten, [Next]_vars PROVE Unwritten'
<1> SUFFICES ASSUME NEW p \in Procs, Persisting(p)', todo'[p] = {} PROVE FALSE
  BY DEF Unwritten
<1>1. CASE pc'[p] = pc[p] /\ todo'[p] = todo[p]
  BY <1>1 DEF Unwritten, Persisting
<1>2. CASE Generate(p)
  <2>1. Strategy(p) # "none" /\ todo'[p] = ToPersist(p)
    BY <1>2 DEF Generate, Goto, TypeOK, Persisting
  <2> QED
    BY <2>1 DEF ToPersist
<1>3. CASE CheckFolder(p) \/ CreateFolder(p) \/ \E f \in todo[p] : Open(p, f)
  <2>1. Persisting(p) /\ todo'[p] = todo[p]
    BY <1>3 DEF CheckFolder, CreateFolder, Open, Persisting
  <2> QED
    BY <2>1 DEF Unwritten
<1>4. CASE \E f \in todo[p] : Write(p, f)
  BY <1>4 DEF Write, Goto, TypeOK, Persisting
<1>5. CASE Start(p) \/ Load(p) \/ WriteFails(p) \/ Kill(p) \/ Exit(p) \/ BeginTxn(p)
  BY <1>5 DEF Start, Load, WriteFails, Kill, Exit, Forget, BeginTxn, Goto, TypeOK, Persisting
<1>6. CASE ShrinkAndProve(p) \/ ProveMonolithic(p)
             \/ \E k \in Circuits : LoadTable(p, k) \/ TableUnreadable(p, k)
  <2>1. pc[p] = "tables" /\ (pc' = pc \/ pc' = [pc EXCEPT ![p] = "ready"])
    BY <1>6 DEF ShrinkAndProve, ProveMonolithic, LoadTable, TableUnreadable, Reading, EndTxn, Goto
  <2> QED
    BY <2>1 DEF TypeOK, Persisting
<1>7. ASSUME NEW q \in Procs, q # p,
             Start(q) \/ Work(q) \/ WriteFails(q) \/ Kill(q) \/ Exit(q) \/ BeginTxn(q)
      PROVE  pc'[p] = pc[p] /\ todo'[p] = todo[p]
  <2>1. CASE Start(q) \/ Load(q) \/ Generate(q) \/ BeginTxn(q) \/ WriteFails(q)
    BY <1>7, <2>1 DEF Start, Load, Generate, BeginTxn, WriteFails, Goto, TypeOK
  <2>2. CASE CheckFolder(q) \/ CreateFolder(q) \/ \E f \in todo[q] : Open(q, f) \/ Write(q, f)
    BY <1>7, <2>2 DEF CheckFolder, CreateFolder, Open, Write, Goto, TypeOK
  <2>3. CASE Exit(q) \/ Kill(q)
    BY <1>7, <2>3 DEF Exit, Kill, Forget, Goto, TypeOK
  <2>4. CASE ShrinkAndProve(q) \/ ProveMonolithic(q)
               \/ \E k \in Circuits : LoadTable(q, k) \/ TableUnreadable(q, k)
    <3>1. todo' = todo /\ (pc' = pc \/ pc' = [pc EXCEPT ![q] = "ready"])
      BY <2>4 DEF ShrinkAndProve, ProveMonolithic, LoadTable, TableUnreadable, EndTxn, Goto
    <3> QED
      BY <1>7, <3>1 DEF TypeOK
  <2> QED
    BY <1>7, <2>1, <2>2, <2>3, <2>4 DEF Work
<1>8. CASE CheckOut \/ Install \/ UNCHANGED vars
  BY <1>1, <1>8 DEF CheckOut, Install, vars
<1> QED
  BY <1>1, <1>2, <1>3, <1>4, <1>5, <1>6, <1>7, <1>8 DEF Next, Work

(* Whatever killed starts, other processes and releases leave in the       *)
(* folder, a start and a transaction can go on: what it reads it can     *)
(* read or fail to, what it writes has a next file, and the next table to  *)
(* load is determined (prover_state/mod.rs, persistence.rs).               *)
THEOREM NoProcessIsStuck ==
  Spec => [](\A p \in Procs : pc[p] \notin {"down", "ready", "failed"} => CanGoOn(p))
<1>1. Init => Unwritten
  BY DEF Init, Unwritten, Persisting
<1>2. TypeOK /\ Unwritten /\ [Next]_vars => Unwritten'
  BY UnwrittenStep
<1>3. StoreInv /\ Unwritten => \A p \in Procs : pc[p] \notin {"down", "ready", "failed"} => CanGoOn(p)
  <2> SUFFICES ASSUME StoreInv, Unwritten, NEW p \in Procs, pc[p] \notin {"down", "ready", "failed"}
               PROVE  CanGoOn(p)
    OBVIOUS
  <2>1. TypeOK /\ pc[p] \in PC
    BY DEF StoreInv, TypeOK
  <2>2. \A f : ReadsOrFails(p, f)
    BY <2>1 DEF ReadsOrFails, CanRead, VersionIn, CanFailToRead, TypeOK
  <2>3. CASE pc[p] \in {"open", "write"}
    <3>1. todo[p] \subseteq ToPersist(p) /\ todo[p] # {}
      BY <2>3 DEF StoreInv, Pending, Unwritten, Persisting
    <3> QED
      BY <2>1, <2>3, <3>1, SomeFirst DEF CanGoOn
  <2>4. CASE pc[p] = "tables" /\ Strategy(p) = "on-demand" /\ loaded[p] # Circuits
    <3>1. loaded[p] \subseteq Circuits /\ Circuits \subseteq Nat
      BY <2>1 DEF TypeOK, Circuits
    <3>2. PICK k \in Circuits \ loaded[p] : \A l \in Circuits \ loaded[p] : k <= l
      BY <2>4, <3>1, LeastOf
    <3>3. Reading(p, k)
      BY <2>4, <3>2 DEF Reading
    <3> QED
      BY <2>2, <3>2, <3>3 DEF CanGoOn
  <2> QED
    BY <2>1, <2>2, <2>3, <2>4 DEF CanGoOn, PC
<1> QED
  BY <1>1, <1>2, <1>3, StoreInvariance, StoreTypes, PTL DEF Spec

===============================================================================
