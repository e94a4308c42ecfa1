\* A key of each group and one that is not mapped; a serial port that sends one character.
SPECIFICATION Spec
CONSTANTS
  Keys = {"LEFT", "x", "q"}
  MaxEvents = 2
  Chars = {"P"}
  Controls = {128, 129}
  Passed <- MCOneCharacter
  BufferSize = 1
INVARIANTS
  KeysFollowed
  PadAgrees
