SPECIFICATION Spec
CONSTANTS
  N = 4
  Heights <- MCConsecutive
  Previous = NoProof
  NoProof = NoProof
  TestOnly = TRUE
  OutputDir = FALSE
INVARIANTS
  FailedOrOvertaken
