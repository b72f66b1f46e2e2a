SPECIFICATION FairSpec
CONSTANTS
  MaxCases = 3
  PeerRestarts = 1
  MaxLives = 2
  MaxTime = 2
  
PROPERTIES NeverStuck  
