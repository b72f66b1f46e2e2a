SPECIFICATION FairSpec
CONSTANTS
  MapSize = 1
  MaxSeeds = 2
  MaxItems = 2
  MaxFactor = 1
  MaxRounds = 6
  MaxLevel = 1
  MaxResumes = 0
  UINT_MAX = 255
  CAL_CHANCES = 2
  SkipAbove = 1
  NovelCycles = 1
  LevelCounts = TRUE
  CycleSchedules = TRUE
  DisableRedundant = FALSE
  Tightness = FALSE
  CustomMutator = FALSE
CHECK_DEADLOCK FALSE
PROPERTY NoSpinning
