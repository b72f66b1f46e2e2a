SPECIFICATION FairSpec
CONSTANTS
  UseFutex = TRUE
  Persistent = TRUE
  Faux = FALSE
  KillSignal = "SIGKILL"
  FsrvSignal = "SIGTERM"
  CatchesTerm = FALSE
  MaxCycles = 3
  Faults = {"idleDeath"}
  MaxRuns = 3
PROPERTIES ExitNotOverwritten
