SPECIFICATION FairSpec
CONSTANTS
  Mains = {"M"}
  Secondaries = {"s1", "s2"}
  MaxStarts = 2
INVARIANTS MainIsMarked MarkIsTrue
PROPERTIES MainReturns RealMainWins
CHECK_DEADLOCK FALSE
