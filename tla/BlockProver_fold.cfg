SPECIFICATION Spec
CONSTANTS
  T = 4
  MaxFaults = 2
  MaxIoErrors = 1
INVARIANTS
  TypeOK
  OnlyFaultsFail
  ErrorsAreNotMasked
  SomeInputsAreSaved
PROPERTIES
  Returns
\* The call returns; that it does not stop before that is Returns.
CHECK_DEADLOCK FALSE
