SPECIFICATION SceneSpec
CONSTANTS
  b1 = b1
  early = early
  none = none
  alert = alert
  buy = buy
  sell = sell
  Mailboxes = {b1}
  Msgs = {1, 2, 3, 4}
  Box <- MCOneBox
  Rfc <- MCOneRfc
  NoId = none
  Event <- MCOneEvent
  Poison = {1}
  Batch = 2
  MaxAccount = 1
  MaxTxn = 3
  Crashes = TRUE
  Scenes = {{1, 2, 3}, {1, 2, 4}}
PROPERTIES MailSettles RescanHeals
