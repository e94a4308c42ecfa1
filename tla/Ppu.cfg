\* Any program: LCD and window switched, STAT and LYC written at any time.
SPECIFICATION FairSpec
CONSTANTS
  Lines = 2
  TotalLines = 4
  OamDots = 2
  DrawDots = 4
  LineDots = 7
  StepCycles = {1, 2}
  Coincidences = {0, 2, 3}
  WindowTops = {1}
  StatSets <- MCStatSets
  OtherValues <- MCOtherValues
INVARIANTS
  ModeFollowsPosition
  LoopHasExit
  FrameComplete
  VBlankOnce
  WindowLineBounded
PROPERTIES
  LoopEnds
  FramesForever
  LycComesRound
