SPECIFICATION Spec
CONSTANTS
  Accounts = {a1, a2}
  Workers = {w1, w2}
  None = none
  Days = {1}
  Amounts = {1}
  Figures = {5}
  MaxTxn = 2
  Origins = {"statement", "update", "delete", "correct"}
INVARIANT TypeOK
PROPERTY LostOnlyByRace

SYMMETRY Symmetry
