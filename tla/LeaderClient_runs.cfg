SPECIFICATION Spec
CONSTANTS
  Options <- MCOptions
  Height = 3
  MaxRuns = 3
  MaxFaults = 2
INVARIANTS
  TypeOK
  NothingProvedIsLost
  KeptProofCoversRun
  OkMeansDelivered
\* The runs of the bound are used up.
CHECK_DEADLOCK FALSE
