SPECIFICATION FairSpec
CONSTANTS
  Lines = 2
  TotalLines = 3
  OamDots = 2
  DrawDots = 4
  LineDots = 7
  StepCycles = {1, 2}
  Coincidences = {0, 2}
  WindowTops = {}
  StatSets <- MCStatSets
  OtherValues <- MCOtherValues
PROPERTY
  OffIsQuiet
