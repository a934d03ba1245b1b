SPECIFICATION ClassifierSpec
CONSTANTS
  MaxUid = 2
  Workers = {w1, w2}
  Batch = 1
  Window = 1
  Chunk = 1
  Clients = {c1}
  Syncer = syncer
  None = none
  Modes = {"direct", "bulk", "job"}
  Outside = {"read", "unread", "remove"}
  Failures = TRUE
INVARIANTS TypeOK SavedUidCovered OneAnswerEach
PROPERTIES LiveRowsStay IndexSettles
