------------------------------ MODULE MCEmulator ------------------------------
(***************************************************************************)
(* The instance of Emulator that TLC checks.  All times are scaled down:   *)
(* an instruction takes two or four ticks, DMA copies a byte every second  *)
(* tick, a line has six dots and a frame two lines.  As in the program the *)
(* longest step is no longer than the scan of OAM.  A program is of one of *)
(* five kinds, chosen when it is loaded.                                   *)
(***************************************************************************)
EXTENDS Emulator

MCOneMask == [k \in {0} |-> 1]
MCWrittenValues == {{VBLANK, JOYPAD}}
MCStatSets == {{}, {0}}
MCPrograms ==
  {{"interrupts", "halt", "lcd"}, {"halt", "timer", "lcd"}, {"halt", "dma"},
   {"memory"}, {"call", "ppu"}}
=============================================================================
