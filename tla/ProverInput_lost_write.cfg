SPECIFICATION Spec
CONSTANTS
  N = 2
  Heights <- MCConsecutive
  Previous = NoProof
  NoProof = NoProof
  TestOnly = FALSE
  OutputDir = TRUE
INVARIANTS
  SavedProofsAreOnDisk
