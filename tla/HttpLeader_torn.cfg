SPECIFICATION Spec
CONSTANTS
  r1 = r1
  r2 = r2
  r3 = r3
  Nobody = Nobody
  Requests = {r1, r2, r3}
  Blocks = {1, 2}
  BlockOf <- MCBlockOf
  Chunks = 2
  MaxKills = 0
INVARIANTS
  OkProofIsWhole
\* Nothing is left to do once every request has been sent and answered.
CHECK_DEADLOCK FALSE
