SPECIFICATION FairSpec
CONSTANTS
  MapSize = 2
  MaxSeeds = 2
  MaxItems = 2
  MaxFactor = 2
  MaxRounds = 3
  MaxLevel = 1
  MaxResumes = 1
  UINT_MAX = 255
  CAL_CHANCES = 2
  SkipAbove = 1
  NovelCycles = 1
  LevelCounts = TRUE
  CycleSchedules = TRUE
  DisableRedundant = TRUE
  Tightness = TRUE
  CustomMutator = TRUE
INVARIANTS TypeOK TcRefCountsSlots MiniKept SmallestIsPending 
PROPERTIES CullCovers ChosenIsFuzzed
CHECK_DEADLOCK FALSE
