SPECIFICATION Spec
CONSTANTS
  a1 = a1
  a2 = a2
  c1 = c1
  c2 = c2
  NoCode = NoCode
  Accounts = {a1, a2}
  Slots = {1, 2}
  Codes = {c1, c2}
  MaxBalance = 1
  MaxNonce = 1
  MaxTxs = 2
  MaxChanged = 1
  Starts <- MCStarts
  AccessLists <- MCAccessLists
INVARIANTS
  TypeOK
  WitnessCovers
  CodesAreKnown
PROPERTIES
  TransactionsReplay
\* The block ends with its last transaction.
CHECK_DEADLOCK FALSE
