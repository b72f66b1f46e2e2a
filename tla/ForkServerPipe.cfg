SPECIFICATION FairSpec
CONSTANTS
  UseFutex = FALSE
  Persistent = TRUE
  Faux = FALSE
  KillSignal = "SIGKILL"
  FsrvSignal = "SIGTERM"
  CatchesTerm = FALSE
  MaxCycles = 3
  Faults = {"idleDeath", "userStop"}
  MaxRuns = 4
INVARIANTS TimeoutIsReal PipesInSync
PROPERTIES ImplementsExecution RunReturns
