SPECIFICATION Spec
CONSTANTS
  MaxUid = 2
  Batch = 1
  Window = 1
  Chunk = 1
  Clients = {c1}
  Syncer = syncer
  None = none
  Modes = {"direct"}
  Outside = {}
  Failures = FALSE
INVARIANTS ListCorrectAtRest
