---------------------------- MODULE CartContract ----------------------------
(***************************************************************************)
(* What a cartridge promises, without the registers of its controller.     *)
(* It has stores: banks of RAM and the registers of a clock.  At any time  *)
(* one of them, or none, is in view in the window of the external RAM.  A  *)
(* byte written there reaches the store in view and no other one, and does *)
(* not move the window; a move of the window loses nothing, so a store     *)
(* that comes back into view holds what was last written to it.  The clock *)
(* is read through a snapshot, taken of all its registers at once.         *)
(***************************************************************************)
EXTENDS Naturals

CONSTANTS
  Stores,      \* banks of RAM and registers of the clock
  ClockParts,  \* those that are registers of the clock
  Data,        \* the bytes a store can hold
  NoStore      \* what is in view when the window is closed

VARIABLES
  contents,    \* what each store holds
  snapshot,    \* the registers of the clock when they were last latched
  view         \* the store in the window

vars == <<contents, snapshot, view>>

Init ==
  /\ contents \in [Stores -> {0}]
  /\ snapshot \in [ClockParts -> {0}]
  /\ view = NoStore

Move ==
  /\ view' \in Stores \cup {NoStore}
  /\ UNCHANGED <<contents, snapshot>>

Put(v) ==
  /\ view \in Stores
  /\ contents' = [contents EXCEPT ![view] = v]
  /\ UNCHANGED <<snapshot, view>>

Latch ==
  /\ snapshot' = [p \in ClockParts |-> contents[p]]
  /\ UNCHANGED <<contents, view>>

Next == Move \/ (\E v \in Data : Put(v)) \/ Latch

Spec == Init /\ [][Next]_vars
=============================================================================
