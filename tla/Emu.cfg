\* One instance of every kind of program, and a frame of two lines of six dots.
SPECIFICATION FairSpec
CONSTANTS
  Code = {256}
  StackSize = 1
  WrittenValues <- MCWrittenValues
  CounterMod = 2
  TimaMod = 2
  PowerUpCount = 1
  Mask <- MCOneMask
  Lines = 1
  TotalLines = 2
  OamDots = 4
  DrawDots = 5
  LineDots = 6
  Coincidences = {1}
  WindowTops = {0, 1}
  StatSets <- MCStatSets
  OamSize = 2
  StartDelay = 2
  Pages = {p1}
  Contents = {c1}
  Unknown = Unknown
  InstrCycles = {2, 4}
  DispatchCycles = 4
  IdleCycles = 2
  TicksPerDma = 2
  CyclesPerFrame = 12
  Programs <- MCPrograms
INVARIANTS
  FrameAligned
PROPERTIES
  ComponentsKept
  NoTearing
  HaltIsWoken
  QuitExits
  TransferEnds
