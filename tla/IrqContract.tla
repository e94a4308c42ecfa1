----------------------------- MODULE IrqContract -----------------------------
(***************************************************************************)
(* What the interrupt logic promises to the program that runs on the CPU,  *)
(* without the flags and the order of tests with which the emulator keeps  *)
(* the promise.  There is one master switch, which only the program turns  *)
(* on.  A request stays until it is served or the program overwrites the   *)
(* requests.  Serving takes the lowest requested and enabled source, turns *)
(* the switch off and saves where the program was.  The program never      *)
(* executes an instruction while a request can be served.  It sleeps until *)
(* an enabled interrupt is requested or a device wakes it.                 *)
(***************************************************************************)
EXTENDS Naturals, Sequences

CONSTANTS
  Sources,    \* the bits that can be served
  Bits,       \* the bits of the two registers
  Code        \* the addresses the program jumps to

VARIABLES
  requested,  \* requested interrupts
  enabled,    \* interrupts the program enabled
  master,     \* the master switch
  asleep,     \* the program waits for an interrupt
  at,         \* where the program is
  saved       \* where the open handlers and calls will return to

vars == <<requested, enabled, master, asleep, at, saved>>

(* Where the program goes when source i is served: 0x40, 0x48 ... 0x60. *)
Handler(i) == 64 + 8 * i

Live     == requested \cap enabled
Servable == Live \cap Sources

Init ==
  /\ requested \in SUBSET Bits
  /\ enabled = {}
  /\ master = FALSE
  /\ asleep = FALSE
  /\ at \in Code
  /\ saved = <<>>

(* Devices request interrupts; they may or may not wake the program. *)
Request ==
  /\ requested \subseteq requested'
  /\ requested' \subseteq requested \cup Sources
  /\ asleep' \in {asleep, FALSE}
  /\ UNCHANGED <<enabled, master, at, saved>>

(* The switch is on and i is the first of the servable interrupts. *)
Serve(i) ==
  /\ master
  /\ i \in Servable
  /\ \A j \in Servable : i <= j
  /\ master' = FALSE
  /\ asleep' = FALSE
  /\ requested' = requested \ {i}
  /\ saved' = Append(saved, at)
  /\ at' = Handler(i)
  /\ UNCHANGED enabled

(* A step of a program that sleeps: it stays asleep as long as nothing that *)
(* it enabled is requested.                                                 *)
Sleep ==
  /\ asleep
  /\ ~(master /\ Servable # {})
  /\ asleep' = (Live = {})
  /\ UNCHANGED <<requested, enabled, master, at, saved>>

(* The program may execute an instruction: it is awake, or something it     *)
(* enabled wakes it, and nothing can be served.                             *)
Runs ==
  /\ ~asleep \/ Live # {}
  /\ ~(master /\ Servable # {})

(* An instruction that may request an interrupt (a write to a device) and   *)
(* may end in a sleep, but touches neither the switch nor a register.       *)
Compute ==
  /\ Runs
  /\ requested \subseteq requested'
  /\ requested' \subseteq requested \cup Sources
  /\ asleep' \in BOOLEAN
  /\ at' \in Code
  /\ UNCHANGED <<enabled, master, saved>>

(* The program turns the switch on or off. *)
Switch ==
  /\ Runs
  /\ master' \in BOOLEAN
  /\ asleep' = FALSE
  /\ at' \in Code
  /\ UNCHANGED <<requested, enabled, saved>>

(* The program overwrites one of the two registers. *)
WriteRegister ==
  /\ Runs
  /\ \/ requested' \in SUBSET Bits /\ UNCHANGED enabled
     \/ enabled' \in SUBSET Bits /\ UNCHANGED requested
  /\ asleep' = FALSE
  /\ at' \in Code
  /\ UNCHANGED <<master, saved>>

Call ==
  /\ Runs
  /\ asleep' = FALSE
  /\ \E next \in Code : saved' = Append(saved, next)
  /\ at' \in Code
  /\ UNCHANGED <<requested, enabled, master>>

(* The innermost call or handler ends; the end of a handler may turn the    *)
(* switch on again.                                                         *)
Return ==
  /\ Runs
  /\ saved # <<>>
  /\ master' \in {master, TRUE}
  /\ asleep' = FALSE
  /\ at' = saved[Len(saved)]
  /\ saved' = SubSeq(saved, 1, Len(saved) - 1)
  /\ UNCHANGED <<requested, enabled>>

Next ==
  \/ Request
  \/ \E i \in Sources : Serve(i)
  \/ Sleep
  \/ Compute
  \/ Switch
  \/ WriteRegister
  \/ Call
  \/ Return

Spec == Init /\ [][Next]_vars
=============================================================================
