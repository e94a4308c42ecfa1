\* The delay of EI.
SPECIFICATION FairSpec
CONSTANTS
  Code = {256}
  StackSize = 1
  WrittenValues <- MCWrittenValues
PROPERTIES
  EiDelaysOneInstruction
