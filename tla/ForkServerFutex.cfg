SPECIFICATION FairSpec
CONSTANTS
  UseFutex = TRUE
  Persistent = TRUE
  Faux = FALSE
  KillSignal = "SIGTERM"
  FsrvSignal = "SIGTERM"
  CatchesTerm = TRUE
  MaxCycles = 3
  Faults = {"idleDeath", "userStop"}
  MaxRuns = 4
INVARIANTS TypeOK NoTornInput InnocentSpared OneSleeper CasTwice
PROPERTIES ImplementsExecution RunReturns NothingLeftBehind
