-------------------------------- MODULE MCCpu --------------------------------
(***************************************************************************)
(* The instance of Cpu that TLC checks.  Two code addresses tell a return  *)
(* to the wrong place from the right one; the written values hold nothing, *)
(* two deliverable bits of different priority, and a bit that can wake the *)
(* CPU but never be delivered next to one that can.                        *)
(***************************************************************************)
EXTENDS Cpu

MCWrittenValues == {{}, {VBLANK, TIMER}, {JOYPAD, 5}}
=============================================================================
