SPECIFICATION Spec
CONSTANTS
  Accounts = {a1}
  Workers = {w1}
  None = none
  Days = {1}
  Amounts = {1}
  Figures = {5}
  MaxTxn = 2
  Origins = {"statement", "correct"}
PROPERTY CorrectionWins

