\* A test program that prints its message.
SPECIFICATION Spec
CONSTANTS
  Keys = {}
  MaxEvents = 1
  Chars = {"P", "d"}
  Controls = {128, 129}
  Passed <- MCMessage
  BufferSize = 3
PROPERTIES
  PassedIsNoticed
