-------------------------------- MODULE MCPpu --------------------------------
(***************************************************************************)
(* The instances of Ppu that TLC checks.  Steps are one or two dots long   *)
(* and the shortest phase of a line is two, as the longest step of the     *)
(* CPU, 24 dots, is shorter than the 80 dots of the scan of OAM.  LYC may  *)
(* be line 0, the line VBlank begins with, or the last line: each is       *)
(* reached by a path of its own through the loop.                          *)
(***************************************************************************)
EXTENDS Ppu

MCStatSets == {{}, {0}, {2, LYC}}
MCOtherValues == {{}}
=============================================================================
