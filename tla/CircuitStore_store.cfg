SPECIFICATION Spec
CONSTANTS
  p1 = p1
  p2 = p2
  NotGiven = NotGiven
  Procs = {p1, p2}
  CommandLines <- MCCommandLines
  Fleets <- MCFleets
  DefaultSize <- MCDefaultSize
  NumCircuits = 1
  Sizes <- MCSizes
  MaxVersion = 3
  Series <- MCSeries
  MaxFaults = 2
  MaxTxns = 1
  MaxStarts = 2
  FolderExists = FALSE
  HasLock = TRUE
INVARIANTS
  TypeOK
  IncompleteHasCause
  MemoryNeverMisses
  StaleHasCause
  FolderRaceHasWinner
PROPERTIES
  EveryStartEnds
\* Once the starts are used up nothing is left to do.
CHECK_DEADLOCK FALSE
