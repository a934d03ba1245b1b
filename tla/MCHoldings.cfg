SPECIFICATION Spec
CONSTANTS
  Workers = {w1, w2}
  None = none
  abroad = abroad
  home = home
  fd = fd
  m1 = m1
  m2 = m2
  Instruments <- MCInstruments
  Rupee <- MCRupee
  Deposit = fd
  Days = {1, 2}
  Now = 3
  DayRate <- MCDayRate
  Mails <- MCMails
  Line <- MCLine
  Forms <- MCForms
  Market = 7
  Typed = 6
  MaxHolds = 2
  MaxTrades = 3
  Scenes <- MCScenes
INVARIANTS TypeOK ReplayConserves OncePerSource
PROPERTIES
  FiguresLostOnlyByRace SecondOnlyIfOvertaken SeedsOnlyEmpty StatementMovesForward
  ManualRateStays TradeRateOfItsDay UserSymbolStays
SYMMETRY Symmetry
\* The rows a scene may make are used up and nobody is at work.
CHECK_DEADLOCK FALSE
