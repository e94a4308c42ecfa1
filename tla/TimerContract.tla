---------------------------- MODULE TimerContract ----------------------------
(***************************************************************************)
(* What the timer promises: a free running counter, and TIMA counting the  *)
(* falls of one signal.  The signal is a bit of the counter, chosen and    *)
(* gated by TAC.  Whatever makes it fall counts: the passing of time, the  *)
(* reset of the counter, or another choice of the bit.  A TIMA that wraps  *)
(* restarts from TMA and requests an interrupt at the same instant.  There *)
(* is no latch here: the signal is a function of the registers.            *)
(***************************************************************************)
EXTENDS Naturals

CONSTANTS
  CounterMod,   \* the counter counts modulo this
  TimaMod,      \* TIMA counts modulo this
  Mask,         \* the counter bit of each clock, as its weight
  TimerBit      \* the request the timer makes

VARIABLES
  count,        \* the free running counter
  tima, tma,    \* the timer's counter and its reload value
  tac,          \* [enable, clock]
  requested     \* requested interrupts

vars == <<count, tima, tma, tac, requested>>

Tacs == [enable : BOOLEAN, clock : DOMAIN Mask]

Signal == tac.enable /\ (count \div Mask[tac.clock]) % 2 = 1

Init ==
  /\ count \in 0 .. CounterMod - 1
  /\ tima = 0
  /\ tma = 0
  /\ tac \in {t \in Tacs : ~t.enable}

Increment ==
  IF tima = TimaMod - 1
  THEN tima' = tma /\ requested' = requested \cup {TimerBit}
  ELSE tima' = tima + 1 /\ UNCHANGED requested

CountFall ==
  IF Signal /\ ~Signal' THEN Increment ELSE UNCHANGED <<tima, requested>>

Pass ==
  /\ count' = (count + 1) % CounterMod
  /\ UNCHANGED <<tac, tma>>
  /\ CountFall

Reset ==
  /\ count' = 0
  /\ UNCHANGED <<tac, tma>>
  /\ CountFall

Select ==
  /\ tac' \in Tacs
  /\ UNCHANGED <<count, tma>>
  /\ CountFall

Load ==
  /\ \/ tima' \in 0 .. TimaMod - 1 /\ UNCHANGED tma
     \/ tma' \in 0 .. TimaMod - 1 /\ UNCHANGED tima
  /\ UNCHANGED <<count, tac, requested>>

(* The rest of the system serves requests, withdraws them or makes others.  *)
Elsewhere == UNCHANGED <<count, tima, tma, tac>>

Next == Pass \/ Reset \/ Select \/ Load \/ Elsewhere

Spec == Init /\ [][Next]_vars
=============================================================================
