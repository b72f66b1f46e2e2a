SPECIFICATION FairSpec
CONSTANTS
  UseFutex = FALSE
  Persistent = FALSE
  Faux = TRUE
  KillSignal = "SIGKILL"
  FsrvSignal = "SIGKILL"
  CatchesTerm = FALSE
  MaxCycles = 3
  Faults = {"forkFails", "userStop", "fuzzerDies"}
  MaxRuns = 4
 
PROPERTIES ImplementsExecution 
