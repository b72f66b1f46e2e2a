\* Three entries of lengths 1 to 3 and a cache of three slots that two long
\* entries fill: evictions by size and by count, learning, all trimmers.
CONSTANTS
  MaxItems = 3
  MaxLen = 3
  NewLens = {1, 3}
  Page = 1
  MaxSize = 6
  MaxEntries = 3
  SizeMod = 64
  Trimmers = {"builtin", "custom"}
  PostGrows = FALSE
SPECIFICATION FairSpec
INVARIANTS SlotsMatchBuffers HintsAreRight InBufLives SizeCovers
PROPERTIES LoadEnds
