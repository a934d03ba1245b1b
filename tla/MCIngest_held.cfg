SPECIFICATION Spec
CONSTANTS
  b1 = b1
  b2 = b2
  early = early
  alert = alert
  buy = buy
  Mailboxes = {b1}
  Msgs = {1}
  Box <- MCOneBox
  Rfc <- MCOneRfc
  NoId = none
  Event <- MCOneEvent
  Poison = {}
  Batch = 1
  MaxAccount = 1
  MaxTxn = 2
  Crashes = FALSE
INVARIANTS HeldMailReleased
CHECK_DEADLOCK FALSE
