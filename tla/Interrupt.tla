------------------------------ MODULE Interrupt ------------------------------
(***************************************************************************)
(* The interrupt request state every component shares: the IF register     *)
(* (0xFF0F, io.if_reg), the IE register (0xFFFF, ram.ie) and the halt flag *)
(* of the CPU.  A register is the set of the bits that are 1 in it.        *)
(*                                                                         *)
(* lib/interrupt.cpp tests all eight bits of "ie & if_reg" to leave HALT   *)
(* but delivers only the five bits that stand for a source, so both        *)
(* registers keep their eight bits here: IF powers up as 0xE1, with the    *)
(* three bits that have no source set.                                     *)
(***************************************************************************)
EXTENDS Naturals

VARIABLES
  if_reg,   \* bits set in IF: interrupts requested
  ie,       \* bits set in IE: interrupts the program enabled
  halt      \* cpu.halt: the CPU sleeps until it is woken

Bits == 0 .. 7

(* interrupt_type: the sources, numbered by their bit, lowest bit first served. *)
VBLANK   == 0
LCD_STAT == 1
TIMER    == 2
SERIAL   == 3
JOYPAD   == 4
Sources  == {VBLANK, LCD_STAT, TIMER, SERIAL, JOYPAD}

(* ie & if_reg *)
Pending == ie \cap if_reg

(* The pending bits that cpu_handle_interrupts can deliver. *)
Deliverable == Pending \cap Sources

(* Mutant: the highest pending bit is served first. *)
IsLast(i) == i \in Deliverable /\ \A j \in Deliverable : i >= j

(* i is the bit the loop of cpu_handle_interrupts stops at. *)
IsFirst(i) == i \in Deliverable /\ \A j \in Deliverable : i <= j

(* A request that sets the IF bit but leaves a halted CPU asleep. *)
RequestWithoutWake(S) ==
  /\ if_reg' = if_reg \cup S
  /\ halt' = halt

(* The requests S that an instruction makes: the CPU that executes it is    *)
(* awake.                                                                   *)
RequestAwake(S) ==
  /\ if_reg' = if_reg \cup S
  /\ halt' = FALSE

(* The calls request_interrupt(i), i in S, that one step of a device makes: *)
(* each sets a bit of IF and wakes the CPU, whatever IE holds.              *)
RequestInterrupts(S) ==
  /\ if_reg' = if_reg \cup S
  /\ halt' = (halt /\ S = {})
=============================================================================
