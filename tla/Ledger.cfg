SPECIFICATION FairSpec
CONSTANTS
  Accounts = {a1}
  Workers = {w1, w2}
  None = none
  Days = {1, 2}
  Amounts = {1}
  Figures = {5}
  MaxTxn = 2
  Origins = {"create", "alert", "statement", "state", "touch"}
PROPERTIES ExactUnlessOvertaken LostOnlyByRace BalanceHeals
