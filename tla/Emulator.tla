------------------------------ MODULE Emulator ------------------------------
(***************************************************************************)
(* The loop of emulator/main.cpp, which runs the components in turn on one *)
(* thread: the events of the window, one step of the CPU, the timer and    *)
(* DMA for each tick that step took, the PPU for all of them at once, and  *)
(* the update of the window once in CyclesPerFrame.                        *)
(*                                                                         *)
(* The components are the modules Cpu, Timer, Ppu and Dma.  They share IF, *)
(* IE and HALT, and the instructions of the program write their registers. *)
(***************************************************************************)
EXTENDS Interrupt, Sequences

CONSTANTS
  Code, StackSize, WrittenValues,                       \* see Cpu
  CounterMod, TimaMod, PowerUpCount, Mask,              \* see Timer
  Lines, TotalLines, OamDots, DrawDots, LineDots,       \* see Ppu
  Coincidences, WindowTops, StatSets,
  OamSize, StartDelay, Pages, Contents, Unknown,        \* see Dma
  InstrCycles,      \* the cycles an instruction can take
  DispatchCycles,   \* 20, the cycles of the delivery of an interrupt
  IdleCycles,       \* 4, the cycles of a step in HALT
  TicksPerDma,      \* 4, the ticks between two calls of dma_tick
  CyclesPerFrame,   \* 70224
  Programs          \* what the program on the cartridge may do

(* The kinds of instruction that matter here. *)
Kinds == {"interrupts", "halt", "call", "timer", "lcd", "ppu", "dma", "memory"}

AllCycles == InstrCycles \cup {DispatchCycles, IdleCycles}

ASSUME CycleAssumption ==
  /\ AllCycles \subseteq Nat \ {0}
  /\ TicksPerDma \in Nat \ {0}
  /\ CyclesPerFrame = TotalLines * LineDots
ASSUME ProgramAssumption == Programs \subseteq SUBSET Kinds

(* The longest step of the CPU, 24 cycles, is shorter than the scan of OAM. *)
ASSUME StepAssumption == \A c \in AllCycles : c <= OamDots

VARIABLES
  ime, ime_pending, pc, stack,
  counter, tima, tma, tac, prev_and_result,
  lcd_on, window_on, wy, lyc, ly, stat_mode, lyc_flag, stat_enables, ppu_mode,
  ppu_dots, stat_irq_line, window_line, in_step, drawn, whole, vblanks,
  active, byte, value, start_delay, oam, mem, started, disturbed, calls,
  phase,            \* where main is in its loop
  cycles,           \* what cpu_step returned
  left,             \* the ticks emu_cycles has still to do
  ticks,            \* ctx.ticks, modulo TicksPerDma
  frame_cycles,     \* the cycles since the last update of the window
  die,              \* ctx.die
  program           \* what the program that was loaded does

C == INSTANCE Cpu
T == INSTANCE Timer WITH OtherValues <- SUBSET Bits
P == INSTANCE Ppu WITH OtherValues <- SUBSET Bits, StepCycles <- AllCycles
D == INSTANCE Dma

(* What each component assumes of its constants. *)
ASSUME CpuAssumption   == C!CodeAssumption /\ C!StackAssumption /\ C!ValueAssumption
ASSUME TimerAssumption == T!ModAssumption /\ T!MaskAssumption
ASSUME PpuAssumption   == P!LineAssumption /\ P!DotAssumption /\ P!InputAssumption
ASSUME DmaAssumption   == D!SizeAssumption /\ D!PagesAssumption

irqVars   == <<if_reg, ie, halt>>
cpuVars   == <<ime, ime_pending, pc, stack>>
timerVars == <<counter, tima, tma, tac, prev_and_result>>
ppuVars   == <<lcd_on, window_on, wy, lyc, stat_enables, ly, stat_mode, lyc_flag, ppu_mode,
               ppu_dots, stat_irq_line, window_line, in_step, drawn, whole, vblanks>>
dmaVars   == <<active, byte, value, start_delay, oam, mem, started, disturbed, calls>>
loopVars  == <<phase, cycles, left, ticks, frame_cycles, die, program>>
vars == <<irqVars, cpuVars, timerVars, ppuVars, dmaVars, loopVars>>

Init ==
  /\ C!Init
  /\ T!TimerInit
  /\ P!PpuInit
  /\ D!DmaInit
  /\ phase = "events"
  /\ cycles = 0
  /\ left = 0
  /\ ticks = 0
  /\ frame_cycles = 0
  /\ die = FALSE
  /\ program \in Programs
-----------------------------------------------------------------------------
(* ui_handle_events, called at the head of the loop and before an update.   *)
(* The release of a button changes nothing that is modelled.                *)
HandlesEvents == phase \in {"events", "update"}

Press ==
  /\ HandlesEvents
  /\ C!JoypadPress
  /\ UNCHANGED <<timerVars, ppuVars, dmaVars, loopVars>>

Quit ==
  /\ HandlesEvents
  /\ die' = TRUE
  /\ phase' = IF phase = "events" THEN "cpu" ELSE "show"
  /\ UNCHANGED <<irqVars, cpuVars, timerVars, ppuVars, dmaVars,
                 cycles, left, ticks, frame_cycles, program>>

(* Mutant: each poll of the events assigns the flag anew. *)
NoMoreEventsClears ==
  /\ HandlesEvents
  /\ die' = FALSE
  /\ phase' = IF phase = "events" THEN "cpu" ELSE "show"
  /\ UNCHANGED <<irqVars, cpuVars, timerVars, ppuVars, dmaVars,
                 cycles, left, ticks, frame_cycles, program>>

NoMoreEvents ==
  /\ HandlesEvents
  /\ phase' = IF phase = "events" THEN "cpu" ELSE "show"
  /\ UNCHANGED <<irqVars, cpuVars, timerVars, ppuVars, dmaVars,
                 cycles, left, ticks, frame_cycles, die, program>>
-----------------------------------------------------------------------------
(* cpu_step returns c, and emu_cycles begins. *)
Takes(c) ==
  /\ phase = "cpu"
  /\ phase' = "tick"
  /\ cycles' = c
  /\ left' = c
  /\ UNCHANGED <<ticks, frame_cycles, die, program>>

(* Mutant: an overflow caused by a write to DIV requests nothing. *)
WriteTimerLosesRequest ==
  /\ "timer" \in program
  /\ \/ \E t \in T!Tacs : T!WriteTac(t) /\ C!Plain(T!WriteTacRaises(t))
     \/ T!WriteDiv /\ C!Plain({})
  /\ UNCHANGED <<ppuVars, dmaVars>>

(* The instructions that write a register of the timer, PPU or DMA. *)
WriteTimer ==
  /\ "timer" \in program
  /\ \/ \E t \in T!Tacs : T!WriteTac(t) /\ C!Plain(T!WriteTacRaises(t))
     \/ T!WriteDiv /\ C!Plain(T!WriteDivRaises)
     \/ \E v \in T!TimaValues : (T!WriteTima(v) \/ T!WriteTma(v)) /\ C!Plain({})
  /\ UNCHANGED <<ppuVars, dmaVars>>

WritePpu ==
  /\ "ppu" \in program \/ UNCHANGED <<window_on, wy, lyc, stat_enables>>
  /\ "lcd" \in program \/ UNCHANGED lcd_on
  /\ P!Write
  /\ C!Plain({})
  /\ UNCHANGED <<timerVars, dmaVars>>

WriteDma ==
  /\ \/ "dma" \in program /\ \E page \in Pages : D!Start(page)
     \/ "memory" \in program /\ \E page \in Pages, c \in Contents : D!WritePage(page, c)
     \/ "memory" \in program /\ \E k \in D!Cells : D!WriteOam(k)
  /\ C!Plain({})
  /\ UNCHANGED <<timerVars, ppuVars>>

(* The instructions that stay within the CPU. *)
Compute ==
  /\ \/ C!Plain({})
     \/ "interrupts" \in program /\ (C!Ei \/ C!Di \/ C!WriteIf \/ C!WriteIe \/ C!Reti)
     \/ "halt" \in program /\ C!Halt
     \/ "call" \in program /\ (C!Call \/ C!Ret)
  /\ UNCHANGED <<timerVars, ppuVars, dmaVars>>

Instruction == Compute \/ WriteTimer \/ WritePpu \/ WriteDma

Deliver ==
  /\ \E i \in Sources : C!Dispatch(i)
  /\ UNCHANGED <<timerVars, ppuVars, dmaVars>>

Idle ==
  /\ C!HaltedStep
  /\ UNCHANGED <<timerVars, ppuVars, dmaVars>>

CpuStep ==
  \/ Takes(DispatchCycles) /\ Deliver
  \/ Takes(IdleCycles) /\ Idle
  \/ \E c \in InstrCycles : Takes(c) /\ Instruction
-----------------------------------------------------------------------------
(* A tick of emu_cycles: the timer, and every so often a byte of DMA. *)
DmaIsDue == (ticks + 1) % TicksPerDma = 0

(* Mutant: a CPU in HALT stops the transfer. *)
EmuTickHaltsDma ==
  /\ phase = "tick"
  /\ left > 0
  /\ left' = left - 1
  /\ ticks' = (ticks + 1) % TicksPerDma
  /\ T!TickStep
  /\ IF DmaIsDue /\ active /\ ~halt THEN D!DmaTick ELSE UNCHANGED dmaVars
  /\ phase' = IF left = 1 THEN "ppu" ELSE "tick"
  /\ UNCHANGED <<cpuVars, ppuVars, cycles, frame_cycles, die, program>>

(* Mutant: a CPU in HALT stops the timer. *)
EmuTickHaltsTimer ==
  /\ phase = "tick"
  /\ left > 0
  /\ left' = left - 1
  /\ ticks' = (ticks + 1) % TicksPerDma
  /\ IF halt THEN UNCHANGED <<irqVars, timerVars>> ELSE T!TickStep
  /\ IF DmaIsDue /\ active THEN D!DmaTick ELSE UNCHANGED dmaVars
  /\ phase' = IF left = 1 THEN "ppu" ELSE "tick"
  /\ UNCHANGED <<cpuVars, ppuVars, cycles, frame_cycles, die, program>>

EmuTick ==
  /\ phase = "tick"
  /\ left > 0
  /\ left' = left - 1
  /\ ticks' = (ticks + 1) % TicksPerDma
  /\ T!TickStep
  /\ IF DmaIsDue /\ active THEN D!DmaTick ELSE UNCHANGED dmaVars
  /\ phase' = IF left = 1 THEN "ppu" ELSE "tick"
  /\ UNCHANGED <<cpuVars, ppuVars, cycles, frame_cycles, die, program>>

(* ppu_step, from its call to its return. *)
PpuBegin ==
  /\ phase = "ppu"
  /\ \/ P!StartOff /\ phase' = "frame"
     \/ P!StepOn(cycles) /\ UNCHANGED irqVars /\ phase' = "ppu"
  /\ UNCHANGED <<cpuVars, timerVars, dmaVars, cycles, left, ticks, frame_cycles, die, program>>

PpuLoop ==
  /\ phase = "ppu"
  /\ P!LoopStep
  /\ phase' = IF in_step' THEN "ppu" ELSE "frame"
  /\ UNCHANGED <<cpuVars, timerVars, dmaVars, cycles, left, ticks, frame_cycles, die, program>>

(* The loop of main goes round, or ends. *)
Again == IF die THEN "exit" ELSE "events"

(* The window is due once the cycles reach limit, which are then taken off. *)
CountUpTo(limit, rest) ==
  /\ phase = "frame"
  /\ IF frame_cycles + cycles >= limit
     THEN frame_cycles' = rest /\ phase' = "update"
     ELSE frame_cycles' = frame_cycles + cycles /\ phase' = Again
  /\ UNCHANGED <<irqVars, cpuVars, timerVars, ppuVars, dmaVars,
                 cycles, left, ticks, die, program>>

(* Mutants: the remainder dropped; a frame without its VBlank. *)
CountFrameFromZero == CountUpTo(CyclesPerFrame, 0)
CountFrameEarly    ==
  CountUpTo(Lines * LineDots, frame_cycles + cycles - Lines * LineDots)

CountFrame == CountUpTo(CyclesPerFrame, frame_cycles + cycles - CyclesPerFrame)

(* ui_update copies the screen into the window. *)
UiUpdate ==
  /\ phase = "show"
  /\ phase' = Again
  /\ UNCHANGED <<irqVars, cpuVars, timerVars, ppuVars, dmaVars,
                 cycles, left, ticks, frame_cycles, die, program>>

Exited == phase = "exit" /\ UNCHANGED vars

(* What main does by itself; the player's actions may come or not. *)
Main ==
  \/ NoMoreEvents
  \/ CpuStep
  \/ EmuTick
  \/ PpuBegin
  \/ PpuLoop
  \/ CountFrame
  \/ UiUpdate

Next == Main \/ Press \/ Quit \/ Exited

Spec == Init /\ [][Next]_vars

(* The process is scheduled, and the player does not press buttons without  *)
(* end within one poll of the events.                                       *)
FairSpec == Spec /\ WF_vars(Main)
-----------------------------------------------------------------------------
(* In the loop of main each component behaves as its own module says, with  *)
(* what the others do to IF, IE and HALT as its surroundings: no step of    *)
(* one component reaches into the state of another except through these.    *)
ComponentsKept == C!Spec /\ T!Spec /\ P!Spec /\ D!DmaSpec

(* A program that never switches the LCD off. *)
AlwaysOn == "lcd" \notin program

(* The frame that main counts and the frame that the PPU draws are the same *)
(* one: between two rounds of the loop the count is the position of the PPU *)
(* in its frame.                                                            *)
FrameAligned ==
  AlwaysOn /\ phase \in {"events", "cpu", "update", "show"} =>
    frame_cycles = ly * LineDots + ppu_dots

(* The window is updated while no line of the next frame is drawn yet, so   *)
(* it never shows parts of two frames.                                      *)
NoTearing == [][AlwaysOn /\ UiUpdate => whole /\ drawn = {}]_vars

(* A CPU in HALT is always woken, whatever is enabled, if the LCD is on or  *)
(* the timer is: the loop of main goes on, and the next VBlank wakes it, or *)
(* with the LCD off the overflow of the timer, which emu_cycles ticks       *)
(* through the steps in HALT.                                               *)
HaltIsWoken == halt /\ (lcd_on \/ tac.enable) ~> ~halt \/ C!Executes \/ die

(* The program closes when the player closes the window, in whatever part   *)
(* of the loop the event is seen.                                           *)
QuitExits == die ~> phase = "exit"

(* The last transfer the program starts ends even if the CPU sleeps.        *)
TransferEnds ==
  <>[][\A page \in Pages : ~D!Start(page)]_vars => <>[](~active \/ die)
=============================================================================
