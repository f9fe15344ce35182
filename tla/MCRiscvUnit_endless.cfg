SPECIFICATION FairSpec
CONSTANTS
  InstrMod = 64
  Blacklist = {2, 4, 11, 12, 23, 27, 59, 60}
  maxArchOffset = 1048576
  Parts <- MCParts
  AltStacks <- MCAltStacks
  Frames <- MCFrames
  NestedFrames <- MCNestedFrames
  HalfMod = 8
  Filler = 2
  CountMod = 32
  Traps = {0, 16, 19, 23}
  Loads = {1, 35}
  Loops = {5, 3, 43}
  MaxLate = 0
PROPERTY AlwaysEnds
