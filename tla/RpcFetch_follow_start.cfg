SPECIFICATION Spec
CONSTANTS
  Calls <- MCCalls
  MaxRetries = 1
  Top = 4
  Programs = {"follow"}
  Args <- MCFollow
  Numbers = {0, 1, 4}
  Window = 2
  Txs = {1}
  Accounts = {1}
  Lacking = {2}
  Unsupported <- MCUnsupported
  StartHeight = 1
  MaxHeight = 2
  MaxReorgs = 1
  MaxFaults = 2
INVARIANTS
  FollowStartsAtStart
\* A program that has returned stays so.
CHECK_DEADLOCK FALSE
