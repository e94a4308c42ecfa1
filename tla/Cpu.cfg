\* Handlers that enable interrupts again, and calls, up to a depth of two.
SPECIFICATION FairSpec
CONSTANTS
  Code = {256, 257}
  StackSize = 2
  WrittenValues <- MCWrittenValues
INVARIANTS
  TypeOK
  StackBounded
  HandlerStartsMasked
PROPERTIES
  ContractKept
  HaltEnds
