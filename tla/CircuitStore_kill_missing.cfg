SPECIFICATION Spec
CONSTANTS
  p1 = p1
  p2 = p2
  Procs = {p1}
  CommandLines <- MCCommandLines
  Fleets <- MCOneWorker
  NotGiven = NotGiven
  DefaultSize <- MCDefaultSize
  NumCircuits = 2
  Sizes <- MCSizes
  MaxVersion = 1
  Series <- MCSeries
  MaxFaults = 1
  MaxTxns = 1
  MaxStarts = 3
  FolderExists = TRUE
  HasLock = TRUE
INVARIANTS
  TablesAreFound
\* Once the starts are used up nothing is left to do.
CHECK_DEADLOCK FALSE
