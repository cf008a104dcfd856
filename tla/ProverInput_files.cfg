SPECIFICATION Spec
CONSTANTS
  N = 3
  Heights <- MCConsecutive
  Previous <- MCPrevious
  NoProof = NoProof
  TestOnly = FALSE
  OutputDir = TRUE
INVARIANTS
  TypeOK
  ProofsCoverSequence
  ErrorHasRootCause
  FilesFormPrefix
  OkMeansAllProved
PROPERTIES
  Returns
  ImplementsProofChain
\* The call returns; that it does not stop before that is Returns.
CHECK_DEADLOCK FALSE
