SPECIFICATION Spec
CONSTANTS
  Accounts = {m1}
  Requests = {r1}
  Directs = {d1}
  Ticker = ticker
  None = none
  MaxAbandoned = 1
INVARIANTS TypeOK MailboxExclusive TokenHasOwner NoLostWakeup JobStatusTruthful
PROPERTIES CallerServed DetachedWorkEnds CancelledCallerLeaves MutexSpec
