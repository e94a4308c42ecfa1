\* A four bit counter with the four clocks, and a TIMA of three values.
SPECIFICATION FairSpec
CONSTANTS
  CounterMod = 16
  TimaMod = 3
  PowerUpCount = 13
  Mask <- MCMask
  OtherValues <- MCOtherValues
INVARIANTS
  LatchInSync
PROPERTIES
  ContractKept
  CountsAtItsRate
  OverflowsForever
