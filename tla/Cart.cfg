\* Each controller, written with bytes at the limits of its registers.
SPECIFICATION Spec
CONSTANTS
  Carts <- MCCarts
  Written <- MCWritten
  Data = {0, 1}
INVARIANTS
  EveryBankInReach
PROPERTIES
  RamSelectKeepsRom
  ContractKept
