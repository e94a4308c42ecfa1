------------------------------- MODULE MCTimer -------------------------------
(***************************************************************************)
(* The instance of Timer that TLC checks: a four bit counter, whose bits   *)
(* are chosen in the order of get_system_bit_mask, slowest clock first.    *)
(***************************************************************************)
EXTENDS Timer

MCMask == [k \in 0 .. 3 |-> CASE k = 0 -> 8 [] k = 1 -> 1 [] k = 2 -> 2 [] k = 3 -> 4]
MCOtherValues == {{}, {TIMER}}
=============================================================================
