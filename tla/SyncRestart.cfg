SPECIFICATION FairSpec
CONSTANTS
  MaxCases = 3
  PeerRestarts = 1
  MaxLives = 1
  MaxTime = 2
PROPERTY RestartNoticed
