SPECIFICATION Spec
CONSTANTS
  b1 = b1
  b2 = b2
  early = early
  alert = alert
  buy = buy
  Mailboxes = {b1, b2}
  Msgs = {1, 2, 3}
  Box <- MCBox
  Rfc <- MCRfc
  NoId = none
  Event <- MCEvent
  Poison = {1}
  Batch = 1
  MaxAccount = 2
  MaxTxn = 2
  Crashes = TRUE
INVARIANTS TypeOK
PROPERTIES CorrectLinksStay DeletedStaysDeleted
