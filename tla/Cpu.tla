--------------------------------- MODULE Cpu ---------------------------------
(***************************************************************************)
(* The control of lib/cpu.cpp: one call of cpu_step delivers an interrupt, *)
(* or idles in HALT, or executes one instruction of the program.           *)
(*                                                                         *)
(* The program is arbitrary: any instruction may come next, and a jump may *)
(* go to any address of Code.  Registers and memory are abstracted; what   *)
(* is kept is all that the interrupt logic reads or writes: the master     *)
(* enable with its one step latch, IF, IE, HALT, the program counter and   *)
(* the return addresses on the stack.  enabling_ime is FALSE between two   *)
(* calls of cpu_step (lines 101, 106 and 354 reset it), so it is folded    *)
(* into the actions; cpu.stop is written by STOP and read nowhere.         *)
(***************************************************************************)
EXTENDS Interrupt, Sequences

CONSTANTS
  Code,           \* addresses the program runs at, outside the vectors
  StackSize,      \* return addresses the program has room for
  WrittenValues   \* the values the program writes to IF and to IE

(* cpu.PC = 0x0040 + (i * 8) *)
Vector(i) == 64 + 8 * i
Vectors == {Vector(i) : i \in Sources}

(* The first instruction of a handler is reached by the delivery alone. *)
ASSUME CodeAssumption  == Code \subseteq Nat \ Vectors /\ Code # {}
ASSUME StackAssumption == StackSize \in Nat \ {0}
ASSUME ValueAssumption == WrittenValues \subseteq SUBSET Bits

VARIABLES
  ime,            \* cpu.ime: interrupts are delivered
  ime_pending,    \* cpu.ime_pending: ime is set when the next step begins
  pc,             \* cpu.PC
  stack           \* the return addresses in memory at SP and above

vars == <<if_reg, ie, halt, ime, ime_pending, pc, stack>>

Places == Code \cup Vectors

(* Power up: io_init sets IF to 0xE1, ram.ie is zero, PC is 0x100. *)
Init ==
  /\ if_reg = {VBLANK, 5, 6, 7}
  /\ ie = {}
  /\ halt = FALSE
  /\ ime = FALSE
  /\ ime_pending = FALSE
  /\ pc \in Code
  /\ stack = <<>>
-----------------------------------------------------------------------------
(* The value cpu.ime has once the pending enable of the last EI was applied. *)
Ime == ime \/ ime_pending

(* The step leaves the master enable as it found it, latch applied. *)
KeepIme == ime' = Ime /\ ime_pending' = FALSE

(* cpu_handle_interrupts returns 20. *)
Delivers == Ime /\ Deliverable # {}

(* The step gets as far as the fetch: nothing was delivered and the CPU is  *)
(* awake, or cpu_handle_interrupts woke it for a bit it cannot deliver.     *)
Executes == ~Delivers /\ (~halt \/ (Ime /\ Pending # {}))

(* The program goes on at any address: the next one, or one it jumps to.    *)
GoesOn == pc' \in Code

(* The program leaves room on its stack for what it calls and for one       *)
(* handler whenever interrupts are enabled.                                 *)
HasRoom(n) == Len(stack) + n <= StackSize
-----------------------------------------------------------------------------
(* Mutants: the vectors 16 bytes apart; ime left on; the latch left on. *)
DispatchFarVector(i) ==
  /\ Ime
  /\ IsFirst(i)
  /\ ime' = FALSE
  /\ ime_pending' = FALSE
  /\ halt' = FALSE
  /\ if_reg' = if_reg \ {i}
  /\ stack' = Append(stack, pc)
  /\ pc' = 64 + 16 * i
  /\ UNCHANGED ie

DispatchKeepsIme(i) ==
  /\ Ime
  /\ IsFirst(i)
  /\ KeepIme
  /\ halt' = FALSE
  /\ if_reg' = if_reg \ {i}
  /\ stack' = Append(stack, pc)
  /\ pc' = Vector(i)
  /\ UNCHANGED ie

DispatchKeepsLatch(i) ==
  /\ Ime
  /\ IsFirst(i)
  /\ ime' = FALSE
  /\ UNCHANGED <<ime_pending, ie>>
  /\ halt' = FALSE
  /\ if_reg' = if_reg \ {i}
  /\ stack' = Append(stack, pc)
  /\ pc' = Vector(i)

(* cpu_handle_interrupts delivers the first pending source. *)
Dispatch(i) ==
  /\ Ime
  /\ IsFirst(i)
  /\ ime' = FALSE
  /\ ime_pending' = FALSE
  /\ halt' = FALSE
  /\ if_reg' = if_reg \ {i}
  /\ stack' = Append(stack, pc)
  /\ pc' = Vector(i)
  /\ UNCHANGED ie

(* Mutant: without ime nothing ends a HALT. *)
HaltedNeedsIme ==
  /\ ~Delivers
  /\ halt
  /\ ~Executes
  /\ halt' = (~Ime \/ Pending = {})
  /\ KeepIme
  /\ UNCHANGED <<if_reg, ie, pc, stack>>

(* The step of a halted CPU: four cycles, and an end of HALT when an        *)
(* enabled bit of IF is set.                                                *)
HaltedStep ==
  /\ ~Delivers
  /\ halt
  /\ ~Executes
  /\ halt' = (Pending = {})
  /\ KeepIme
  /\ UNCHANGED <<if_reg, ie, pc, stack>>

(* An instruction that leaves the interrupt state and the stack alone,      *)
(* except that a write to a timer register may request the interrupts S     *)
(* (STOP writes DIV as well).                                               *)
Plain(S) ==
  /\ Executes
  /\ RequestAwake(S)
  /\ GoesOn
  /\ KeepIme
  /\ UNCHANGED <<ie, stack>>

(* EI: enabling_ime turns into ime_pending at the end of the same step. *)
Ei ==
  /\ Executes
  /\ HasRoom(1)
  /\ ime' = Ime
  /\ ime_pending' = TRUE
  /\ halt' = FALSE
  /\ GoesOn
  /\ UNCHANGED <<if_reg, ie, stack>>

Di ==
  /\ Executes
  /\ ime' = FALSE
  /\ ime_pending' = FALSE
  /\ halt' = FALSE
  /\ GoesOn
  /\ UNCHANGED <<if_reg, ie, stack>>

(* HALT puts the CPU to sleep even if something is pending already: the     *)
(* next step wakes it.                                                      *)
Halt ==
  /\ Executes
  /\ halt' = TRUE
  /\ GoesOn
  /\ KeepIme
  /\ UNCHANGED <<if_reg, ie, stack>>

WriteIf ==
  /\ Executes
  /\ if_reg' \in WrittenValues
  /\ halt' = FALSE
  /\ GoesOn
  /\ KeepIme
  /\ UNCHANGED <<ie, stack>>

WriteIe ==
  /\ Executes
  /\ ie' \in WrittenValues
  /\ halt' = FALSE
  /\ GoesOn
  /\ KeepIme
  /\ UNCHANGED <<if_reg, stack>>

(* CALL and RST push the address of the next instruction. *)
Call ==
  /\ Executes
  /\ HasRoom(IF Ime THEN 2 ELSE 1)
  /\ \E next \in Code : stack' = Append(stack, next)
  /\ halt' = FALSE
  /\ GoesOn
  /\ KeepIme
  /\ UNCHANGED <<if_reg, ie>>

(* RET and RETI take the address back. *)
Pop ==
  /\ Executes
  /\ stack # <<>>
  /\ pc' = stack[Len(stack)]
  /\ stack' = SubSeq(stack, 1, Len(stack) - 1)
  /\ halt' = FALSE
  /\ UNCHANGED <<if_reg, ie>>

Ret == Pop /\ KeepIme

(* RETI sets ime at once, without the latch of EI. *)
Reti == Pop /\ ime' = TRUE /\ ime_pending' = FALSE

(* The requests a program can raise itself, by writes to the timer. *)
SelfRaised == SUBSET {TIMER}

(* One call of cpu_step. *)
Step ==
  \/ \E i \in Sources : Dispatch(i)
  \/ HaltedStep
  \/ \E S \in SelfRaised : Plain(S)
  \/ Ei
  \/ Di
  \/ Halt
  \/ WriteIf
  \/ WriteIe
  \/ Call
  \/ Ret
  \/ Reti
-----------------------------------------------------------------------------
(* What changes the interrupt state between two calls of cpu_step. *)

(* The timer or the PPU requests interrupts while it catches up. *)
DeviceRequest(S) ==
  /\ RequestInterrupts(S)
  /\ UNCHANGED <<ie, ime, ime_pending, pc, stack>>

(* joypad_press sets its bit in IF itself and does not touch cpu.halt. *)
JoypadPress ==
  /\ RequestWithoutWake({JOYPAD})
  /\ UNCHANGED <<ie, ime, ime_pending, pc, stack>>

DeviceSources == {VBLANK, LCD_STAT, TIMER}

Environment ==
  \/ \E S \in SUBSET DeviceSources : DeviceRequest(S)
  \/ JoypadPress

Next == Step \/ Environment

Spec == Init /\ [][Next]_vars

(* The loop of main calls cpu_step again and again; nothing obliges a       *)
(* device to request anything.                                              *)
FairSpec == Spec /\ WF_vars(Step)
-----------------------------------------------------------------------------
TypeOK ==
  /\ if_reg \in SUBSET Bits
  /\ ie \in SUBSET Bits
  /\ halt \in BOOLEAN
  /\ ime \in BOOLEAN
  /\ ime_pending \in BOOLEAN
  /\ pc \in Places
  /\ stack \in Seq(Places)

(* A program that keeps room for one handler while interrupts are enabled   *)
(* never has its stack overrun: delivery turns ime off, so handlers nest    *)
(* only as far as the program itself enables interrupts again.              *)
StackBounded ==
  /\ HasRoom(0)
  /\ Ime => HasRoom(1)

(* A handler always executes its first instruction: at a vector nothing can *)
(* be delivered, so the address a delivery saves is one of the program, and *)
(* pending interrupts never pile up on the stack without any code run.      *)
HandlerStartsMasked ==
  /\ pc \in Vectors => ~Ime
  /\ \A k \in 1 .. Len(stack) : stack[k] \in Code

(* cpu_step keeps the promise of the interrupt logic.  The master switch is *)
(* on as soon as EI has executed, although cpu.ime is still FALSE then.     *)
Contract ==
  INSTANCE IrqContract WITH
    requested <- if_reg, enabled <- ie, master <- Ime,
    asleep <- halt, at <- pc, saved <- stack
ContractKept == Contract!Spec

(* A HALT does not hold the program up once something that is enabled is    *)
(* requested, whether the request wakes the CPU itself (timer, PPU) or      *)
(* leaves it to the next step (joypad, a write to IF before the HALT), and  *)
(* whether ime is set or not: the CPU wakes or executes an instruction.     *)
HaltEnds == halt /\ Pending # {} ~> ~halt \/ Executes

(* EI delays IME enabling by one instruction: the step after an EI that     *)
(* turned interrupts on never delivers one.                                 *)
EiDelaysOneInstruction ==
  [][ime_pending /\ ~ime => \A i \in Sources : ~Dispatch(i)]_vars
=============================================================================
