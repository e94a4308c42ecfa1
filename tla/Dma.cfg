\* Two pages of two possible contents, and an OAM of three bytes.
SPECIFICATION DmaSpec
CONSTANTS
  OamSize = 3
  StartDelay = 2
  Pages = {p1, p2}
  Contents = {c1, c2}
  Unknown = Unknown
INVARIANTS
  CopiedSoFar
  TakesItsTime
CHECK_DEADLOCK TRUE
