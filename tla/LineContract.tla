---------------------------- MODULE LineContract ----------------------------
(***************************************************************************)
(* What ppu_step promises to get_sprites and render_scanline: the order in *)
(* which it calls them, without its dots, its STAT line and its interrupts.*)
(* Each line is drawn once after it was scanned, in its turn, and after    *)
(* the last one the first is scanned again.  Only the switch of the LCD    *)
(* breaks the order, and then line 0 passes without being drawn.           *)
(***************************************************************************)
EXTENDS Naturals

CONSTANT Lines  \* the lines that are drawn

VARIABLES
  line,     \* the line in hand
  scanned,  \* it was scanned and waits to be drawn
  window    \* the lines of the window that were drawn

vars == <<line, scanned, window>>

Init ==
  /\ line = 0
  /\ scanned = TRUE
  /\ window = 0

Draw ==
  /\ scanned
  /\ scanned' = FALSE
  /\ window' \in {window, window + 1}
  /\ UNCHANGED line

ScanNext ==
  /\ ~scanned
  /\ line + 1 < Lines
  /\ line' = line + 1
  /\ scanned' = TRUE
  /\ UNCHANGED window

ScanFirst ==
  /\ ~scanned
  /\ line + 1 = Lines
  /\ line' = 0
  /\ scanned' = TRUE
  /\ window' = 0

SwitchOff ==
  /\ line' = 0
  /\ scanned' = FALSE
  /\ window' = 0

Next == Draw \/ ScanNext \/ ScanFirst \/ SwitchOff

Spec == Init /\ [][Next]_vars
=============================================================================
