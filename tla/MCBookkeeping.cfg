SPECIFICATION Spec
CONSTANTS
  Workers = {w1, w2}
  Passers = {p1, p2}
  None = none
  food = food
  rent = rent
  shop = shop
  jan = jan
  Cats = {food, rent}
  Counted <- MCCounted
  Cards <- MCCards
  MaxOffered = 1
  Forms <- MCForms
  Marks = {"investment"}
  Answers <- MCAnswers
  MaxRows = 3
  MaxBills = 4
  Scenes <- MCScenes
INVARIANT TypeOK
PROPERTIES
  OneSidedOnlyByRelink PassOnlyFills HiddenOnlyByChoice SettledStays DashboardCountsOnce
SYMMETRY Symmetry
\* Bills and rows are used up, and nobody is at work.
CHECK_DEADLOCK FALSE
