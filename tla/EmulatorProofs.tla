--------------------------- MODULE EmulatorProofs ---------------------------
(***************************************************************************)
(* Proofs about Emulator, for any program, any lengths of its instructions *)
(* shorter than the scan of OAM, and any geometry of the screen.           *)
(*                                                                         *)
(* First each component is shown to behave in the loop of main as its own  *)
(* module says, so that what CpuProofs, DeviceProofs and PpuProofs prove   *)
(* of it alone holds of the whole machine.  The frame that main counts is  *)
(* then compared with the position of the PPU, from the invariant of the   *)
(* PPU.                                                                    *)
(***************************************************************************)
EXTENDS Emulator, TLAPS

CP == INSTANCE CpuProofs
TP == INSTANCE DeviceProofs WITH OtherValues <- SUBSET Bits
PP == INSTANCE PpuProofs WITH OtherValues <- SUBSET Bits, StepCycles <- AllCycles

-----------------------------------------------------------------------------
(* The CPU.                                                                 *)

(* What main does that is no step of the CPU.                               *)
LoopStep == NoMoreEvents \/ Quit \/ CountFrame \/ UiUpdate

LEMMA LoopStepIsApart == LoopStep => UNCHANGED <<irqVars, cpuVars, timerVars, ppuVars, dmaVars>>
  BY DEF LoopStep, NoMoreEvents, Quit, CountFrame, CountUpTo, UiUpdate,
         irqVars, cpuVars, timerVars, ppuVars, dmaVars

(* The timer requests its own interrupt.                                    *)
LEMMA TimerRequests ==
  ASSUME NEW falls
  PROVE  T!Raised(falls) \in C!SelfRaised /\ T!Raised(falls) \in SUBSET C!DeviceSources
  BY DEF T!Raised, C!SelfRaised, C!DeviceSources, T!TIMER, C!TIMER

(* The PPU requests VBlank and STAT.                                        *)
LEMMA PpuRequests ==
  ASSUME NEW old, NEW new, NEW old2, NEW new2
  PROVE  /\ P!Rise(old, new) \in SUBSET C!DeviceSources
         /\ {P!VBLANK} \cup P!Rise(old, new) \in SUBSET C!DeviceSources
         /\ P!Rise(old, new) \cup P!Rise(old2, new2) \in SUBSET C!DeviceSources
  BY DEF P!Rise, P!LCD_STAT, P!VBLANK, C!DeviceSources, C!LCD_STAT, C!VBLANK

(* An instruction is a step of the CPU.                                     *)
LEMMA InstructionIsCpuStep == Instruction => C!Step
PROOF
  <1> SUFFICES ASSUME Instruction PROVE C!Step
    OBVIOUS
  <1>1. {} \in C!SelfRaised
    BY DEF C!SelfRaised
  <1>2. CASE Compute
    BY <1>1, <1>2 DEF Compute, C!Step
  <1>3. CASE WriteTimer
    <2>1. PICK S \in C!SelfRaised : C!Plain(S)
      BY <1>1, <1>3, TimerRequests DEF WriteTimer, T!WriteTacRaises, T!WriteDivRaises
    <2> QED
      BY <2>1 DEF C!Step
  <1>4. CASE WritePpu
    BY <1>1, <1>4 DEF WritePpu, C!Step
  <1>5. CASE WriteDma
    BY <1>1, <1>5 DEF WriteDma, C!Step
  <1> QED
    BY <1>2, <1>3, <1>4, <1>5 DEF Instruction

LEMMA CpuStepIsCpuStep == CpuStep => C!Step
  BY InstructionIsCpuStep, Zenon DEF CpuStep, Deliver, Idle, C!Step, Sources, C!Sources,
   VBLANK, LCD_STAT, TIMER, SERIAL, JOYPAD, C!VBLANK, C!LCD_STAT, C!TIMER, C!SERIAL, C!JOYPAD

(* The timer and the PPU reach the CPU by their requests alone.             *)
LEMMA TickIsRequest == EmuTick => C!Environment
PROOF
  <1> SUFFICES ASSUME EmuTick PROVE C!Environment
    OBVIOUS
  <1>1. T!RequestInterrupts(T!TickRaises) /\ UNCHANGED <<ie, ime, ime_pending, pc, stack>>
    BY DEF EmuTick, T!TickStep, cpuVars
  <1>2. C!RequestInterrupts(T!TickRaises)
    BY <1>1 DEF T!RequestInterrupts, C!RequestInterrupts
  <1>3. T!TickRaises \in SUBSET C!DeviceSources
    BY TimerRequests DEF T!TickRaises
  <1> QED
    BY <1>1, <1>2, <1>3 DEF C!Environment, C!DeviceRequest

LEMMA PassageIsRequest == P!LoopStep => \E S \in SUBSET C!DeviceSources : C!RequestInterrupts(S)
PROOF
  <1> SUFFICES ASSUME P!LoopStep
               PROVE  \E S \in SUBSET C!DeviceSources : C!RequestInterrupts(S)
    OBVIOUS
  <1>1. \E S \in SUBSET C!DeviceSources : P!RequestInterrupts(S)
    BY PpuRequests DEF P!LoopStep, P!Passage, P!EnterVBlankRaises, P!VBlankLineRaises,
       P!NewFrameRaises, P!DrawRaises, P!HBlankRaises, P!NextLineRaises, P!ModeRaises
  <1> QED
    BY <1>1 DEF P!RequestInterrupts, C!RequestInterrupts

LEMMA PpuIsRequest == PpuBegin \/ PpuLoop => C!Next \/ UNCHANGED C!vars
PROOF
  <1> SUFFICES ASSUME PpuBegin \/ PpuLoop PROVE C!Next \/ UNCHANGED C!vars
    OBVIOUS
  <1>1. CASE P!StartOff /\ PpuBegin
    <2>1. P!RequestInterrupts(P!OffRaises) /\ UNCHANGED <<ie, ime, ime_pending, pc, stack>>
      BY <1>1 DEF PpuBegin, P!StartOff, cpuVars
    <2>2. P!OffRaises \in SUBSET C!DeviceSources
      BY PpuRequests DEF P!OffRaises, P!ModeRaises
    <2> QED
      BY <2>1, <2>2 DEF P!RequestInterrupts, C!RequestInterrupts, C!DeviceRequest, C!Environment, C!Next
  <1>2. CASE PpuBegin /\ UNCHANGED irqVars
    BY <1>2 DEF PpuBegin, irqVars, cpuVars, C!vars
  <1>3. CASE PpuLoop
    <2>1. P!LoopStep /\ UNCHANGED <<ie, ime, ime_pending, pc, stack>>
      BY <1>3 DEF PpuLoop, P!LoopStep, cpuVars
    <2> QED
      BY <2>1, PassageIsRequest DEF C!DeviceRequest, C!Environment, C!Next
  <1> QED
    BY <1>1, <1>2, <1>3 DEF PpuBegin

(* Every step of the machine is a step of the CPU and of its surroundings,  *)
(* or leaves them alone.                                                    *)
LEMMA CpuRefines == [Next]_vars => [C!Next]_C!vars
PROOF
  <1> SUFFICES ASSUME [Next]_vars PROVE C!Next \/ UNCHANGED C!vars
    OBVIOUS
  <1>1. CASE LoopStep \/ UNCHANGED vars
    BY <1>1, LoopStepIsApart DEF vars, irqVars, cpuVars, C!vars
  <1>2. CASE Press
    BY <1>2 DEF Press, C!Environment, C!Next
  <1>3. CASE CpuStep
    BY <1>3, CpuStepIsCpuStep DEF C!Next
  <1>4. CASE EmuTick
    BY <1>4, TickIsRequest DEF C!Next
  <1>5. CASE PpuBegin \/ PpuLoop
    BY <1>5, PpuIsRequest
  <1> QED
    BY <1>1, <1>2, <1>3, <1>4, <1>5 DEF Next, Main, Exited, LoopStep

LEMMA CpuBehaves == Spec => C!Spec
PROOF
  <1>1. Init => C!Init
    BY DEF Init
  <1> QED
    BY <1>1, CpuRefines, PTL DEF Spec, C!Spec
-----------------------------------------------------------------------------
(* The instances that carry the proofs define the same components.          *)
LEMMA SameCpu == (C!Init <=> CP!Init) /\ (C!Next <=> CP!Next) /\ C!vars = CP!vars
PROOF
  <1>1. C!Init <=> CP!Init
    BY Zenon DEF C!Init, CP!Init, C!VBLANK, CP!VBLANK
  <1>2. C!Next <=> CP!Next
    BY Zenon DEF C!Next, CP!Next,
      C!Step, CP!Step, C!Environment, CP!Environment, C!Dispatch, CP!Dispatch,
      C!HaltedStep, CP!HaltedStep, C!Plain, CP!Plain, C!Ei, CP!Ei, C!Di, CP!Di, C!Halt,
      CP!Halt, C!WriteIf, CP!WriteIf, C!WriteIe, CP!WriteIe, C!Call, CP!Call, C!Ret,
      CP!Ret, C!Reti, CP!Reti, C!Pop, CP!Pop, C!DeviceRequest, CP!DeviceRequest,
      C!JoypadPress, CP!JoypadPress, C!SelfRaised, CP!SelfRaised, C!DeviceSources,
      CP!DeviceSources, C!Ime, CP!Ime, C!KeepIme, CP!KeepIme, C!Delivers, CP!Delivers,
      C!Executes, CP!Executes, C!GoesOn, CP!GoesOn, C!HasRoom, CP!HasRoom, C!Pending,
      CP!Pending, C!Deliverable, CP!Deliverable, C!IsFirst, CP!IsFirst, C!RequestAwake,
      CP!RequestAwake, C!RequestWithoutWake, CP!RequestWithoutWake, C!RequestInterrupts,
      CP!RequestInterrupts, C!Vector, CP!Vector, C!Sources, CP!Sources, C!VBLANK,
      CP!VBLANK, C!LCD_STAT, CP!LCD_STAT, C!TIMER, CP!TIMER, C!SERIAL, CP!SERIAL,
      C!JOYPAD, CP!JOYPAD
  <1> QED
    BY <1>1, <1>2 DEF C!vars, CP!vars

LEMMA SameTimer == (T!Init <=> TP!Init) /\ (T!Next <=> TP!Next) /\ T!vars = TP!vars
PROOF
  <1>1. T!Init <=> TP!Init
    BY Zenon DEF T!Init, TP!Init, T!TimerInit, TP!TimerInit, T!VBLANK, TP!VBLANK
  <1>2. T!Next <=> TP!Next
    BY Zenon DEF T!Next, TP!Next,
      T!TickStep, TP!TickStep, T!WriteTacStep, TP!WriteTacStep, T!WriteDivStep,
      TP!WriteDivStep, T!LoadStep, TP!LoadStep, T!Elsewhere, TP!Elsewhere, T!Tick,
      TP!Tick, T!WriteTac, TP!WriteTac, T!WriteDiv, TP!WriteDiv, T!WriteTima,
      TP!WriteTima, T!WriteTma, TP!WriteTma, T!TickCount, TP!TickCount, T!TickRaises,
      TP!TickRaises, T!WriteTacRaises, TP!WriteTacRaises, T!WriteDivRaises,
      TP!WriteDivRaises, T!Raised, TP!Raised, T!Falls, TP!Falls, T!TimaAfter,
      TP!TimaAfter, T!Signal, TP!Signal, T!Tacs, TP!Tacs, T!TimaValues, TP!TimaValues,
      T!RequestAwake, TP!RequestAwake, T!RequestInterrupts, TP!RequestInterrupts,
      T!TIMER, TP!TIMER, T!timerVars, TP!timerVars
  <1> QED
    BY <1>1, <1>2 DEF T!vars, TP!vars, T!timerVars, TP!timerVars

LEMMA SamePpu == (P!Init <=> PP!Init) /\ (P!Next <=> PP!Next) /\ P!vars = PP!vars
PROOF
  <1>1. P!Init <=> PP!Init
    BY Zenon DEF P!Init, PP!Init, P!PpuInit, PP!PpuInit, P!VBLANK, PP!VBLANK
  <1>2. P!Next <=> PP!Next
    BY Zenon DEF P!Next, PP!Next,
      P!StartOff, PP!StartOff, P!StartOn, PP!StartOn, P!LoopStep, PP!LoopStep,
      P!WriteStep, PP!WriteStep, P!Elsewhere, PP!Elsewhere, P!StepOff, PP!StepOff,
      P!OffRaises, PP!OffRaises, P!ModeRaises, PP!ModeRaises, P!Rise, PP!Rise,
      P!StatLine, PP!StatLine, P!LYC, PP!LYC, P!LCD_STAT, PP!LCD_STAT, P!VBLANK,
      PP!VBLANK, P!RequestInterrupts, PP!RequestInterrupts, P!RequestAwake,
      PP!RequestAwake, P!registers, PP!registers, P!engine, PP!engine, P!history,
      PP!history, P!ppuVars, PP!ppuVars, P!StepOn, PP!StepOn, P!Passage, PP!Passage,
      P!EnterVBlank, PP!EnterVBlank, P!SetMode, PP!SetMode, P!VBlankLine, PP!VBlankLine,
      P!InVBlank, PP!InVBlank, P!Matches, PP!Matches, P!NewFrame, PP!NewFrame,
      P!FrameEnds, PP!FrameEnds, P!ScanAgain, PP!ScanAgain, P!Draw, PP!Draw, P!Rendered,
      PP!Rendered, P!HBlank, PP!HBlank, P!NextLine, PP!NextLine, P!Break, PP!Break,
      P!EnterVBlankRaises, PP!EnterVBlankRaises, P!VBlankLineRaises,
      PP!VBlankLineRaises, P!NewFrameRaises, PP!NewFrameRaises, P!DrawRaises,
      PP!DrawRaises, P!HBlankRaises, PP!HBlankRaises, P!NextLineRaises,
      PP!NextLineRaises, P!AfterLyc, PP!AfterLyc, P!Write, PP!Write, P!WriteLcdc,
      PP!WriteLcdc, P!WriteStat, PP!WriteStat, P!WriteLyc, PP!WriteLyc, P!WriteWy,
      PP!WriteWy
  <1> QED
    BY <1>1, <1>2 DEF P!vars, PP!vars, P!ppuVars, PP!ppuVars, P!registers, PP!registers,
       P!engine, PP!engine, P!history, PP!history

LEMMA SameDma == (D!DmaInit <=> TP!DmaInit) /\ (D!DmaNext <=> TP!DmaNext) /\ D!dmaVars = TP!dmaVars
PROOF
  <1>1. D!DmaInit <=> TP!DmaInit
    BY Zenon DEF D!DmaInit, TP!DmaInit, D!Cells, TP!Cells
  <1>2. D!DmaNext <=> TP!DmaNext
    BY Zenon DEF D!DmaNext, TP!DmaNext,
      D!DmaTick, TP!DmaTick, D!Wait, TP!Wait, D!Copy, TP!Copy, D!ProgramActs, TP!ProgramActs,
      D!Start, TP!Start, D!WritePage, TP!WritePage, D!WriteOam, TP!WriteOam,
      D!registers, TP!registers, D!history, TP!history, D!BusRead, TP!BusRead, D!Cells,
      TP!Cells
  <1> QED
    BY <1>1, <1>2 DEF D!dmaVars, TP!dmaVars, D!registers, TP!registers, D!history, TP!history
-----------------------------------------------------------------------------
(* What the invariant of the CPU says of the shared registers.              *)
IrqTypes == if_reg \in SUBSET Bits /\ ie \in SUBSET Bits /\ halt \in BOOLEAN

(* What CpuProofs assumes of the constants.                                 *)
LEMMA CpuAssumptions == CP!CodeAssumption /\ CP!StackAssumption /\ CP!ValueAssumption
  BY CpuAssumption
  DEF C!CodeAssumption, C!StackAssumption, C!ValueAssumption, C!Vectors, C!Vector,
      CP!CodeAssumption, CP!StackAssumption, CP!ValueAssumption, CP!Vectors, CP!Vector,
      C!Sources, CP!Sources, C!Bits, CP!Bits, C!VBLANK, C!LCD_STAT, C!TIMER, C!SERIAL,
      C!JOYPAD, CP!VBLANK, CP!LCD_STAT, CP!TIMER, CP!SERIAL, CP!JOYPAD

LEMMA CpuIsAlone == Spec => CP!Spec
PROOF
  <1>1. (C!Init => CP!Init) /\ ([C!Next]_C!vars => [CP!Next]_CP!vars)
    BY SameCpu DEF C!vars, CP!vars
  <1>2. C!Spec => CP!Spec
    BY <1>1, PTL DEF C!Spec, CP!Spec
  <1> QED
    BY <1>2, CpuBehaves, PTL

LEMMA CpuKeepsInv == Spec => []CP!CpuInv
PROOF
  <1>1. CP!Spec => []CP!CpuInv
    BY CpuAssumptions, CP!Invariance
  <1> QED
    BY <1>1, CpuIsAlone, PTL

LEMMA IrqTypesKept == Spec => []IrqTypes
PROOF
  <1>1. CP!CpuInv => IrqTypes
    BY DEF CP!CpuInv, CP!TypeOK, CP!Bits, IrqTypes, Bits
  <1> QED
    BY <1>1, CpuKeepsInv, PTL
-----------------------------------------------------------------------------
(* The loop of main.                                                        *)

(* Where main is, and what that says of cycles and of the loop of ppu_step. *)
LoopInv ==
  /\ phase \in {"events", "cpu", "tick", "ppu", "frame", "update", "show", "exit"}
  /\ phase \in {"tick", "ppu", "frame"} => cycles \in AllCycles
  /\ in_step \in BOOLEAN
  /\ in_step => phase = "ppu"
  /\ left \in Nat

LEMMA LoopInit == Init => LoopInv
PROOF
  <1> SUFFICES ASSUME Init PROVE LoopInv
    OBVIOUS
  <1>1. phase = "events" /\ in_step = FALSE /\ left = 0
    BY DEF Init, P!PpuInit
  <1>2. left \in Nat /\ in_step \in BOOLEAN
    BY <1>1
  <1> QED
    BY <1>1, <1>2 DEF LoopInv

LEMMA LoopNext == LoopInv /\ [Next]_vars => LoopInv'
PROOF
  <1> SUFFICES ASSUME LoopInv, [Next]_vars PROVE LoopInv'
    OBVIOUS
  <1> USE DEF LoopInv
  <1>1. CASE NoMoreEvents \/ Quit
    BY <1>1 DEF NoMoreEvents, Quit, HandlesEvents, ppuVars
  <1>2. CASE CountFrame
    BY <1>2 DEF CountFrame, CountUpTo, Again, ppuVars
  <1>3. CASE UiUpdate
    BY <1>3 DEF UiUpdate, Again, ppuVars
  <1>4. CASE Press \/ UNCHANGED vars
    BY <1>4 DEF Press, HandlesEvents, vars, loopVars, ppuVars
  <1>5. CASE CpuStep
    <2>1. PICK c \in AllCycles : Takes(c) /\ (Deliver \/ Idle \/ Instruction)
      BY <1>5 DEF CpuStep, AllCycles
    <2>2. UNCHANGED in_step
      BY <2>1 DEF Deliver, Idle, Instruction, Compute, WriteTimer, WritePpu, WriteDma,
         ppuVars, P!Write
    <2>3. c \in Nat
      BY CycleAssumption
    <2> QED
      BY <2>1, <2>2, <2>3 DEF Takes
  <1>6. CASE EmuTick
    BY <1>6 DEF EmuTick, ppuVars
  <1>7. CASE PpuBegin
    <2>1. \/ P!StepOff /\ phase' = "frame"
          \/ P!StepOn(cycles) /\ phase' = "ppu"
      BY <1>7 DEF PpuBegin, P!StartOff
    <2>2. \/ in_step' = in_step /\ in_step = FALSE /\ phase' = "frame"
          \/ in_step' = TRUE /\ phase' = "ppu"
      BY <2>1 DEF P!StepOff, P!StepOn
    <2>3. phase = "ppu" /\ cycles' = cycles
      BY <1>7 DEF PpuBegin
    <2>4. in_step' \in BOOLEAN
      BY <2>2
    <2>5. in_step' => phase' = "ppu"
      BY <2>2
    <2>6. phase' \in {"ppu", "frame"} /\ cycles' \in AllCycles /\ left' = left
      BY <1>7, <2>2, <2>3 DEF PpuBegin
    <2> QED
      BY <2>4, <2>5, <2>6
  <1>8. CASE PpuLoop
    <2>1. in_step' \in BOOLEAN
      BY <1>8 DEF PpuLoop, P!LoopStep, P!Passage, P!EnterVBlank, P!VBlankLine, P!NewFrame,
         P!FrameEnds, P!Draw, P!HBlank, P!NextLine, P!Break
    <2> QED
      BY <1>8, <2>1 DEF PpuLoop
  <1> QED
    BY <1>1, <1>2, <1>3, <1>4, <1>5, <1>6, <1>7, <1>8 DEF Next, Main, Exited

LEMMA LoopKept == Spec => []LoopInv
  BY LoopInit, LoopNext, PTL DEF Spec
-----------------------------------------------------------------------------
(* The timer, the PPU and DMA in the loop of main.                          *)

(* The steps that leave everything but the loop itself alone, and those     *)
(* that stay within the CPU.                                                *)
OfCpuAlone == Press \/ (phase = "cpu" /\ (Deliver \/ Idle \/ Compute))

LEMMA Steps ==
  [Next]_vars =>
    \/ UNCHANGED <<irqVars, timerVars, ppuVars, dmaVars>>
    \/ OfCpuAlone
    \/ phase = "cpu" /\ (WriteTimer \/ WritePpu \/ WriteDma)
    \/ EmuTick
    \/ PpuBegin
    \/ PpuLoop
PROOF
  <1>1. LoopStep \/ UNCHANGED vars => UNCHANGED <<irqVars, timerVars, ppuVars, dmaVars>>
    BY LoopStepIsApart DEF vars
  <1>2. CpuStep => phase = "cpu" /\ (Deliver \/ Idle \/ Instruction)
    BY DEF CpuStep, Takes
  <1> QED
    BY <1>1, <1>2 DEF Next, Main, Exited, LoopStep, Instruction, OfCpuAlone

LEMMA CpuAloneIsApart == OfCpuAlone => UNCHANGED <<timerVars, ppuVars, dmaVars>>
  BY DEF OfCpuAlone, Press, Deliver, Idle, Compute

(* Every step is a step of the timer, or one of its surroundings.           *)
LEMMA TimerRefines == IrqTypes' /\ [Next]_vars => [T!Next]_T!vars
PROOF
  <1> SUFFICES ASSUME IrqTypes', [Next]_vars PROVE T!Next \/ UNCHANGED T!vars
    OBVIOUS
  <1>1. ASSUME UNCHANGED timerVars PROVE T!Next
    <2>1. UNCHANGED T!timerVars
      BY <1>1 DEF timerVars, T!timerVars
    <2>2. if_reg' \in SUBSET T!Bits /\ ie' \in SUBSET T!Bits /\ halt' \in BOOLEAN
      BY DEF IrqTypes, Bits, T!Bits
    <2> QED
      BY <2>1, <2>2 DEF IrqTypes, Bits, T!Elsewhere, T!Next
  <1>2. CASE WriteTimer
    <2>1. ASSUME NEW S, C!Plain(S) PROVE T!RequestAwake(S) /\ UNCHANGED ie
      BY <2>1 DEF C!Plain, C!RequestAwake, T!RequestAwake
    <2> QED
      BY <1>2, <2>1 DEF WriteTimer, T!WriteTacStep, T!WriteDivStep, T!LoadStep, T!Next
  <1>3. CASE EmuTick
    BY <1>3 DEF EmuTick, T!Next
  <1>4. WritePpu \/ WriteDma \/ PpuBegin \/ PpuLoop => UNCHANGED timerVars
    BY DEF WritePpu, WriteDma, PpuBegin, PpuLoop
  <1> QED
    BY <1>1, <1>2, <1>3, <1>4, Steps, CpuAloneIsApart

(* Every step is a step of the PPU, or one of its surroundings, which do    *)
(* nothing while ppu_step runs.                                             *)
LEMMA PpuRefines == LoopInv /\ IrqTypes' /\ [Next]_vars => [P!Next]_P!vars
PROOF
  <1> SUFFICES ASSUME LoopInv, IrqTypes', [Next]_vars PROVE P!Next \/ UNCHANGED P!vars
    OBVIOUS
  <1>1. UNCHANGED ppuVars => UNCHANGED P!ppuVars
    BY DEF ppuVars, P!ppuVars, P!registers, P!engine, P!history
  <1>2. ASSUME UNCHANGED ppuVars, ~in_step PROVE P!Next
    BY <1>1, <1>2 DEF IrqTypes, Bits, P!Elsewhere, P!Next
  <1>3. ASSUME UNCHANGED <<irqVars, ppuVars>> PROVE UNCHANGED P!vars
    BY <1>1, <1>3 DEF irqVars, P!vars
  <1>4. CASE WritePpu
    BY <1>4 DEF WritePpu, C!Plain, C!RequestAwake, P!RequestAwake, P!WriteStep, P!Next
  <1>5. CASE PpuBegin
    <2>1. CASE P!StartOff
      BY <2>1 DEF P!Next
    <2>2. CASE P!StepOn(cycles) /\ UNCHANGED irqVars
      BY <1>5, <2>2 DEF PpuBegin, LoopInv, irqVars, P!StartOn, P!Next
    <2> QED
      BY <1>5, <2>1, <2>2 DEF PpuBegin
  <1>6. CASE PpuLoop
    BY <1>6 DEF PpuLoop, P!Next
  <1>7. phase = "cpu" \/ EmuTick \/ OfCpuAlone => ~in_step
    BY DEF OfCpuAlone, Press, HandlesEvents, LoopInv, EmuTick
  <1>8. WriteTimer \/ WriteDma \/ EmuTick => UNCHANGED ppuVars
    BY DEF WriteTimer, WriteDma, EmuTick
  <1> QED
    BY <1>2, <1>3, <1>4, <1>5, <1>6, <1>7, <1>8, Steps, CpuAloneIsApart

(* Every step is a step of DMA, or leaves it alone.                         *)
LEMMA DmaRefines == [Next]_vars => [D!DmaNext]_D!dmaVars
PROOF
  <1> SUFFICES ASSUME [Next]_vars PROVE D!DmaNext \/ UNCHANGED D!dmaVars
    OBVIOUS
  <1>1. UNCHANGED dmaVars => UNCHANGED D!dmaVars
    BY DEF dmaVars, D!dmaVars, D!registers, D!history
  <1>2. WriteDma => D!DmaNext
    BY DEF WriteDma, D!ProgramActs, D!DmaNext
  <1>3. EmuTick => D!DmaNext \/ UNCHANGED dmaVars
    BY DEF EmuTick, D!DmaNext
  <1>4. WriteTimer \/ WritePpu \/ PpuBegin \/ PpuLoop => UNCHANGED dmaVars
    BY DEF WriteTimer, WritePpu, PpuBegin, PpuLoop
  <1> QED
    BY <1>1, <1>2, <1>3, <1>4, Steps, CpuAloneIsApart

LEMMA InitsMatch == Init => C!Init /\ T!Init /\ P!Init /\ D!DmaInit
  BY DEF Init, C!Init, T!Init, P!Init, C!VBLANK, T!VBLANK, P!VBLANK

(* Each component behaves in the loop of main as its own module says.       *)
THEOREM ComponentsAreKept == Spec => ComponentsKept
PROOF
  <1>1. Spec => T!Spec
    BY InitsMatch, IrqTypesKept, TimerRefines, PTL DEF Spec, T!Spec
  <1>2. Spec => P!Spec
    BY InitsMatch, LoopKept, IrqTypesKept, PpuRefines, PTL DEF Spec, P!Spec
  <1>3. Spec => D!DmaSpec
    BY InitsMatch, DmaRefines, PTL DEF Spec, D!DmaSpec
  <1> QED
    BY CpuBehaves, <1>1, <1>2, <1>3, PTL DEF ComponentsKept

(* What DeviceProofs assumes of the constants.                              *)
LEMMA DeviceAssumptions ==
  /\ TP!ModAssumption /\ TP!MaskAssumption /\ TP!OtherAssumption
  /\ TP!SizeAssumption /\ TP!PagesAssumption
  BY TimerAssumption, DmaAssumption
  DEF T!ModAssumption, T!MaskAssumption, TP!ModAssumption, TP!MaskAssumption,
      TP!OtherAssumption, TP!Bits, Bits,
      D!SizeAssumption, D!PagesAssumption, TP!SizeAssumption, TP!PagesAssumption

(* What PpuProofs assumes of them.                                          *)
LEMMA PpuAssumptions == PP!LineAssumption /\ PP!DotAssumption /\ PP!InputAssumption
  BY PpuAssumption
  DEF P!LineAssumption, P!DotAssumption, P!InputAssumption, P!StatSources, P!LYC, P!Bits,
      PP!LineAssumption, PP!DotAssumption, PP!InputAssumption, PP!StatSources, PP!LYC,
      PP!Bits, Bits

(* So the whole machine has the inductive invariants that are proved of the *)
(* CPU, the timer, the PPU and DMA alone.                                   *)
LEMMA InvariantsKept == Spec => [](CP!CpuInv /\ TP!TimerInv /\ PP!PpuInv /\ TP!DmaInv)
PROOF
  <1>1. Spec => []TP!TimerInv
    <2>1. TP!Spec => []TP!TimerInv
      BY DeviceAssumptions, TP!Invariance
    <2>2. (T!Init => TP!Init) /\ ([T!Next]_T!vars => [TP!Next]_TP!vars)
      BY SameTimer DEF T!vars, TP!vars, T!timerVars, TP!timerVars
    <2>3. T!Spec => TP!Spec
      BY <2>2, PTL DEF T!Spec, TP!Spec
    <2> QED
      BY <2>1, <2>3, ComponentsAreKept, PTL DEF ComponentsKept
  <1>2. Spec => []PP!PpuInv
    <2>1. PP!Spec => []PP!PpuInv
      BY PpuAssumptions, PP!Invariance
    <2>2. (P!Init => PP!Init) /\ ([P!Next]_P!vars => [PP!Next]_PP!vars)
      BY SamePpu DEF P!vars, PP!vars, P!ppuVars, PP!ppuVars, P!registers, PP!registers,
         P!engine, PP!engine, P!history, PP!history
    <2>3. P!Spec => PP!Spec
      BY <2>2, PTL DEF P!Spec, PP!Spec
    <2> QED
      BY <2>1, <2>3, ComponentsAreKept, PTL DEF ComponentsKept
  <1>3. Spec => []TP!DmaInv
    <2>1. TP!DmaSpec => []TP!DmaInv
      BY DeviceAssumptions, TP!DmaInvariance
    <2>2. (D!DmaInit => TP!DmaInit) /\ ([D!DmaNext]_D!dmaVars => [TP!DmaNext]_TP!dmaVars)
      BY SameDma DEF D!dmaVars, TP!dmaVars, D!registers, TP!registers, D!history, TP!history
    <2>3. D!DmaSpec => TP!DmaSpec
      BY <2>2, PTL DEF D!DmaSpec, TP!DmaSpec
    <2> QED
      BY <2>1, <2>3, ComponentsAreKept, PTL DEF ComponentsKept
  <1> QED
    BY CpuKeepsInv, <1>1, <1>2, <1>3, PTL

(* What is proved of each component alone is true of it in the machine: the *)
(* stack of the CPU is bounded and handlers start masked, the latch of the  *)
(* timer is in sync, the mode of the PPU follows its position, each frame   *)
(* is complete and has one VBlank, and a transfer copies its page in time.  *)
THEOREM InvariantsCompose ==
  Spec => []( /\ C!StackBounded /\ C!HandlerStartsMasked
              /\ T!LatchInSync
              /\ P!ModeFollowsPosition /\ P!LoopHasExit /\ P!FrameComplete
              /\ P!VBlankOnce /\ P!WindowLineBounded
              /\ D!CopiedSoFar /\ D!TakesItsTime )
PROOF
  <1>1. CP!CpuInv => C!StackBounded /\ C!HandlerStartsMasked
    BY Zenon DEF CP!CpuInv, C!StackBounded, CP!StackBounded, C!HandlerStartsMasked,
       CP!HandlerStartsMasked, C!Ime, CP!Ime, C!HasRoom, CP!HasRoom, C!Vectors, CP!Vectors,
       C!Vector, CP!Vector, C!Sources, CP!Sources, C!VBLANK, CP!VBLANK, C!LCD_STAT,
       CP!LCD_STAT, C!TIMER, CP!TIMER, C!SERIAL, CP!SERIAL, C!JOYPAD, CP!JOYPAD
  <1>2. TP!TimerInv => T!LatchInSync
    BY Zenon DEF TP!TimerInv, T!LatchInSync, TP!LatchInSync, T!Signal, TP!Signal
  <1>3. PP!PpuInv => /\ P!ModeFollowsPosition /\ P!LoopHasExit /\ P!FrameComplete
                     /\ P!VBlankOnce /\ P!WindowLineBounded
    BY Zenon DEF PP!PpuInv, P!ModeFollowsPosition, PP!ModeFollowsPosition, P!ModeAt, PP!ModeAt,
       P!LoopHasExit, PP!LoopHasExit, P!FrameComplete, PP!FrameComplete,
       P!VBlankOnce, PP!VBlankOnce, P!WindowLineBounded, PP!WindowLineBounded
  <1>4. TP!DmaInv => D!CopiedSoFar /\ D!TakesItsTime
    BY Zenon DEF TP!DmaInv, D!CopiedSoFar, TP!CopiedSoFar, D!TakesItsTime, TP!TakesItsTime,
       D!Cells, TP!Cells, D!BusRead, TP!BusRead
  <1> QED
    BY <1>1, <1>2, <1>3, <1>4, InvariantsKept, PTL

(* And the contracts that the CPU and the timer are proved to implement     *)
(* alone are kept in the machine, whatever the components do to each other: *)
(* interrupts are served as IrqContract says, TIMA counts the falls of its  *)
(* signal, and at its rate.                                                 *)
THEOREM ContractsCompose ==
  Spec => CP!ContractKept /\ TP!ContractKept /\ TP!CountsAtItsRate
PROOF
  <1>1. Spec => CP!Spec
    BY CpuIsAlone
  <1>2. Spec => TP!Spec
    <2>1. (T!Init => TP!Init) /\ ([T!Next]_T!vars => [TP!Next]_TP!vars)
      BY SameTimer DEF T!vars, TP!vars, T!timerVars, TP!timerVars
    <2>2. T!Spec => TP!Spec
      BY <2>1, PTL DEF T!Spec, TP!Spec
    <2> QED
      BY <2>2, ComponentsAreKept, PTL DEF ComponentsKept
  <1>3. CP!Spec => CP!ContractKept
    BY CpuAssumptions, CP!ContractIsKept
  <1>4. TP!Spec => TP!ContractKept /\ TP!CountsAtItsRate
    BY DeviceAssumptions, TP!ContractIsKept, TP!RateIsKept
  <1> QED
    BY <1>1, <1>2, <1>3, <1>4, PTL
-----------------------------------------------------------------------------
(* The frame of main and the frame of the PPU.                              *)

(* The cycles of its frame that the PPU has behind it. *)
Beam == ly * LineDots + ppu_dots

(* Between two steps of the loop the count of main is the position of the   *)
(* PPU.  While ppu_step runs, and until main counts its cycles, the PPU is  *)
(* ahead by those cycles, or has begun the next frame.                      *)
FrameInv ==
  AlwaysOn =>
    /\ lcd_on /\ whole
    /\ frame_cycles \in 0 .. CyclesPerFrame - 1
    /\ ~in_step /\ phase # "frame" => frame_cycles = Beam
    /\ in_step \/ phase = "frame" =>
         frame_cycles + cycles = Beam \/ frame_cycles + cycles = Beam + CyclesPerFrame
    /\ phase \in {"update", "show"} => frame_cycles < OamDots

(* The numbers of the screen. *)
LEMMA Numbers ==
  /\ Lines \in Nat /\ TotalLines \in Nat /\ 0 < Lines /\ Lines < TotalLines
  /\ OamDots \in Nat /\ DrawDots \in Nat /\ LineDots \in Nat
  /\ 0 < OamDots /\ OamDots < DrawDots /\ DrawDots < LineDots
  /\ \A c \in AllCycles : c \in Nat /\ 0 < c /\ c <= OamDots
  BY PpuAssumption, CycleAssumption, StepAssumption DEF P!LineAssumption, P!DotAssumption

(* A line further is LineDots further.                                      *)
LEMMA LineFurther ==
  ASSUME NEW n \in Nat, NEW d \in Nat
  PROVE  n * d \in Nat /\ (n + 1) * d = n * d + d
  OBVIOUS

LEMMA FewerLines ==
  ASSUME NEW n \in Nat, NEW m \in Nat, NEW d \in Nat, n <= m
  PROVE  n * d <= m * d
PROOF
  <1>1. PICK k \in Nat : m = n + k
    <2>1. m - n \in Nat /\ m = n + (m - n)
      OBVIOUS
    <2> QED
      BY <2>1
  <1>2. (n + k) * d = n * d + k * d /\ k * d \in Nat /\ n * d \in Nat
    OBVIOUS
  <1> QED
    BY <1>1, <1>2

(* The PPU is never past the end of the frame, except within ppu_step.      *)
LEMMA BeamInFrame ==
  ASSUME PP!PpuInv
  PROVE  /\ Beam \in Nat
         /\ CyclesPerFrame \in Nat /\ LineDots <= CyclesPerFrame
         /\ ~in_step => Beam < CyclesPerFrame
         /\ ly + 1 >= TotalLines => Beam + LineDots = CyclesPerFrame + ppu_dots
PROOF
  <1> DEFINE last == TotalLines - 1
  <1>1. ly \in Nat /\ ly <= last /\ ppu_dots \in Nat /\ (~in_step => ppu_dots < LineDots)
    BY Numbers DEF PP!PpuInv, PP!TypeOK, PP!ModeFollowsPosition
  <1>2. last \in Nat /\ TotalLines = last + 1
    BY Numbers
  <1>3. LineDots \in Nat
    BY Numbers
  <1> HIDE DEF last
  <1>4. last * LineDots \in Nat /\ (last + 1) * LineDots = last * LineDots + LineDots
    BY <1>2, <1>3, LineFurther
  <1>5. CyclesPerFrame = last * LineDots + LineDots
    BY <1>2, <1>4, CycleAssumption
  <1>6. ly * LineDots \in Nat /\ ly * LineDots <= last * LineDots
    BY <1>1, <1>2, <1>3, LineFurther, FewerLines
  <1>7. ly + 1 >= TotalLines => ly = last
    BY <1>1, <1>2
  <1> QED
    BY <1>1, <1>3, <1>4, <1>5, <1>6, <1>7 DEF Beam

(* A passage of the loop of ppu_step stays where it is on the screen, or    *)
(* leaves a whole frame behind.                                             *)
LEMMA PassageOfBeam ==
  ASSUME PP!PpuInv, P!LoopStep
  PROVE  /\ UNCHANGED lcd_on
         /\ whole => whole'
         /\ \/ Beam' = Beam
            \/ Beam' \in Nat /\ Beam' + CyclesPerFrame = Beam
PROOF
  <1> USE DEF P!registers, P!engine, P!history
  <1>1. ly \in Nat /\ ppu_dots \in Nat /\ ly <= TotalLines - 1
    BY Numbers DEF PP!PpuInv, PP!TypeOK
  <1>2. CASE P!VBlankLine \/ P!NextLine
    <2>1. ly' = ly + 1 /\ ppu_dots' = ppu_dots - LineDots /\ UNCHANGED <<lcd_on, whole>>
      BY <1>2 DEF P!VBlankLine, P!NextLine
    <2>2. ly * LineDots \in Nat /\ (ly + 1) * LineDots = ly * LineDots + LineDots
      BY <1>1, Numbers, LineFurther
    <2>3. Beam' = (ly + 1) * LineDots + (ppu_dots - LineDots)
      BY <2>1 DEF Beam
    <2> QED
      BY <1>1, <2>1, <2>2, <2>3, Numbers DEF Beam
  <1>3. CASE P!NewFrame
    <2>1. /\ ly' = 0 /\ ppu_dots' = ppu_dots - LineDots /\ UNCHANGED lcd_on /\ whole'
          /\ ppu_dots >= LineDots /\ ly + 1 >= TotalLines
      BY <1>3 DEF P!NewFrame, P!FrameEnds, P!InVBlank
    <2>2. 0 * LineDots = 0
      BY Numbers
    <2>3. Beam' = ppu_dots - LineDots
      BY <1>1, <2>1, <2>2, Numbers DEF Beam
    <2>4. Beam + LineDots = CyclesPerFrame + ppu_dots /\ Beam \in Nat /\ CyclesPerFrame \in Nat
      BY <2>1, BeamInFrame
    <2> QED
      BY <1>1, <2>1, <2>3, <2>4, Numbers
  <1>4. CASE P!EnterVBlank \/ P!Draw \/ P!HBlank \/ P!Break
    BY <1>4 DEF P!EnterVBlank, P!Draw, P!HBlank, P!Break, Beam
  <1> QED
    BY <1>2, <1>3, <1>4 DEF P!LoopStep, P!Passage

LEMMA FrameInit == Init => FrameInv
PROOF
  <1> SUFFICES ASSUME Init PROVE FrameInv
    OBVIOUS
  <1>1. 0 * LineDots = 0
    BY Numbers
  <1>2. /\ lcd_on /\ whole /\ ly = 0 /\ ppu_dots = 0 /\ in_step = FALSE
        /\ phase = "events" /\ frame_cycles = 0
    BY DEF Init, P!PpuInit
  <1>3. Beam = 0
    BY <1>1, <1>2 DEF Beam
  <1>4. CyclesPerFrame \in Nat /\ 0 < CyclesPerFrame
    <2>1. TotalLines * LineDots \in Nat /\ 1 * LineDots <= TotalLines * LineDots
      BY Numbers, LineFurther, FewerLines
    <2> QED
      BY <2>1, Numbers, CycleAssumption
  <1> QED
    BY <1>2, <1>3, <1>4 DEF FrameInv

(* The steps outside ppu_step leave its position alone.                     *)
LEMMA ElsewhereNoBeam ==
  ASSUME UNCHANGED ppuVars
  PROVE  UNCHANGED <<lcd_on, whole, in_step, Beam>>
  BY DEF ppuVars, Beam

LEMMA FrameNext == FrameInv /\ PP!PpuInv /\ LoopInv /\ [Next]_vars => FrameInv'
PROOF
  <1> SUFFICES ASSUME FrameInv, PP!PpuInv, LoopInv, [Next]_vars, AlwaysOn'
               PROVE  FrameInv'
    BY DEF FrameInv
  <1>0. AlwaysOn
    <2>1. program' = program
      BY DEF Next, Main, Press, Quit, Exited, NoMoreEvents, CpuStep, Takes, EmuTick, PpuBegin,
         PpuLoop, CountFrame, CountUpTo, UiUpdate, vars, loopVars
    <2> QED
      BY <2>1 DEF AlwaysOn
  <1> USE <1>0 DEF FrameInv
  <1>a. /\ Beam \in Nat /\ CyclesPerFrame \in Nat /\ LineDots <= CyclesPerFrame
        /\ (~in_step => Beam < CyclesPerFrame)
    BY BeamInFrame
  <1>1. CASE UNCHANGED <<ppuVars, frame_cycles, cycles>> /\ phase # "frame" /\ phase' # "frame"
             /\ (phase' \in {"update", "show"} => phase \in {"update", "show"})
    BY <1>1, ElsewhereNoBeam
  <1>2. CASE NoMoreEvents \/ Quit \/ Press \/ UiUpdate
    <2>1. /\ UNCHANGED <<ppuVars, frame_cycles, cycles>>
          /\ phase # "frame" /\ phase' # "frame"
          /\ phase' \in {"update", "show"} => phase \in {"update", "show"}
      BY <1>2 DEF NoMoreEvents, Quit, Press, UiUpdate, HandlesEvents, Again, loopVars
    <2> QED
      BY <1>1, <2>1
  <1>3. CASE EmuTick
    <2>1. /\ UNCHANGED <<ppuVars, frame_cycles, cycles>>
          /\ phase # "frame" /\ phase' # "frame"
          /\ phase' \in {"update", "show"} => phase \in {"update", "show"}
      BY <1>3 DEF EmuTick
    <2> QED
      BY <1>1, <2>1
  <1>4. CASE CpuStep
    <2>1. PICK c \in AllCycles : Takes(c) /\ (Deliver \/ Idle \/ Instruction)
      BY <1>4 DEF CpuStep, AllCycles
    <2>2. UNCHANGED <<lcd_on, whole, in_step, Beam>>
      <3>1. CASE WritePpu
        BY <3>1 DEF WritePpu, AlwaysOn, P!Write, P!engine, P!history, Beam
      <3> QED
        BY <2>1, <3>1, ElsewhereNoBeam DEF Deliver, Idle, Instruction, Compute, WriteTimer, WriteDma
    <2> QED
      BY <2>1, <2>2 DEF Takes, LoopInv
  <1>5. CASE PpuBegin
    <2>1. P!StepOn(cycles) /\ phase = "ppu" /\ phase' = "ppu" /\ UNCHANGED <<cycles, frame_cycles>>
      BY <1>5 DEF PpuBegin, P!StartOff, P!StepOff
    <2>2. /\ ppu_dots' = ppu_dots + cycles /\ in_step' /\ ~in_step
          /\ UNCHANGED <<lcd_on, whole, ly>>
      BY <2>1 DEF P!StepOn, P!registers, P!history
    <2>3. cycles \in Nat
      BY <2>1, Numbers DEF LoopInv
    <2>4. ppu_dots \in Nat /\ ly * LineDots \in Nat
      BY Numbers, LineFurther DEF PP!PpuInv, PP!TypeOK
    <2>5. Beam' = Beam + cycles
      BY <2>2, <2>3, <2>4 DEF Beam
    <2> QED
      BY <2>1, <2>2, <2>5
  <1>6. CASE PpuLoop
    <2>1. /\ P!LoopStep /\ UNCHANGED <<cycles, frame_cycles>>
          /\ phase = "ppu" /\ phase' \in {"ppu", "frame"}
          /\ (phase' = "frame" \/ in_step') /\ (phase' = "frame" => ~in_step')
      BY <1>6 DEF PpuLoop
    <2>2. in_step
      BY <2>1 DEF P!LoopStep, P!Passage, P!EnterVBlank, P!VBlankLine, P!NewFrame, P!FrameEnds,
         P!InVBlank, P!Draw, P!HBlank, P!NextLine, P!Break
    <2>3. cycles \in Nat /\ cycles <= OamDots /\ OamDots < LineDots
      BY <2>1, Numbers DEF LoopInv
    <2>4. lcd_on' /\ whole'
      BY <2>1, PassageOfBeam
    <2>5. frame_cycles + cycles = Beam' \/ frame_cycles + cycles = Beam' + CyclesPerFrame
      <3>1. CASE Beam' = Beam
        BY <2>2, <3>1
      <3>2. CASE Beam' \in Nat /\ Beam' + CyclesPerFrame = Beam
        <4>1. frame_cycles \in Nat /\ frame_cycles < CyclesPerFrame
          BY <1>a
        <4>2. frame_cycles + cycles # Beam + CyclesPerFrame
          <5>1. cycles < CyclesPerFrame /\ LineDots \in Nat
            BY <1>a, <2>3, Numbers
          <5>2. frame_cycles + cycles < CyclesPerFrame + CyclesPerFrame
            BY <1>a, <2>3, <4>1, <5>1
          <5>3. Beam + CyclesPerFrame >= CyclesPerFrame + CyclesPerFrame
            <6>1. PICK b \in Nat : b + CyclesPerFrame = Beam
              BY <3>2
            <6> QED
              BY <1>a, <6>1
          <5> QED
            BY <1>a, <2>3, <4>1, <5>2, <5>3
        <4> QED
          BY <1>a, <2>2, <3>2, <4>2
      <3> QED
        BY <2>1, <3>1, <3>2, PassageOfBeam
    <2> QED
      BY <2>1, <2>4, <2>5
  <1>7. CASE CountFrame
    <2>1. phase = "frame" /\ UNCHANGED ppuVars /\ UNCHANGED cycles /\ ~in_step
      BY <1>7 DEF CountFrame, CountUpTo, LoopInv
    <2>2. cycles \in Nat /\ cycles <= OamDots
      BY <2>1, Numbers DEF LoopInv
    <2>3. UNCHANGED <<lcd_on, whole, in_step, Beam>>
      BY <2>1, ElsewhereNoBeam
    <2>4. CASE frame_cycles + cycles >= CyclesPerFrame
      <3>1. frame_cycles' = frame_cycles + cycles - CyclesPerFrame /\ phase' = "update"
        BY <1>7, <2>4 DEF CountFrame, CountUpTo
      <3>2. frame_cycles + cycles = Beam + CyclesPerFrame
        BY <1>a, <2>1, <2>2, <2>4
      <3>3. frame_cycles' = Beam /\ frame_cycles' < OamDots
        BY <1>a, <2>2, <3>1, <3>2, Numbers
      <3> QED
        BY <1>a, <2>1, <2>3, <3>1, <3>3
    <2>5. CASE ~(frame_cycles + cycles >= CyclesPerFrame)
      <3>1. frame_cycles' = frame_cycles + cycles /\ phase' \in {"events", "exit"}
        BY <1>7, <2>5 DEF CountFrame, CountUpTo, Again
      <3>2. frame_cycles + cycles = Beam
        BY <1>a, <2>1, <2>2, <2>5
      <3> QED
        BY <1>a, <2>1, <2>3, <3>1, <3>2
    <2> QED
      BY <2>4, <2>5
  <1>8. CASE UNCHANGED vars
    BY <1>8, ElsewhereNoBeam DEF vars, loopVars
  <1> QED
    BY <1>2, <1>3, <1>4, <1>5, <1>6, <1>7, <1>8 DEF Next, Main, Exited

LEMMA FrameKept == Spec => [](FrameInv /\ PP!PpuInv /\ LoopInv)
PROOF
  <1>1. Spec => []PP!PpuInv
    BY InvariantsKept, PTL
  <1> QED
    BY <1>1, LoopKept, FrameInit, FrameNext, PTL DEF Spec

(* Between two rounds of the loop the count of main is the position of the  *)
(* PPU in its frame.                                                        *)
THEOREM FramesStayAligned == Spec => []FrameAligned
PROOF
  <1>1. FrameInv /\ LoopInv => FrameAligned
    BY DEF FrameInv, LoopInv, FrameAligned, Beam
  <1> QED
    BY <1>1, FrameKept, PTL

(* An update of the window finds the PPU in the scan of OAM of line 0, with *)
(* nothing of the next frame drawn.                                         *)
LEMMA UpdateAtTop ==
  ASSUME FrameInv, PP!PpuInv, LoopInv, AlwaysOn, phase = "show"
  PROVE  whole /\ drawn = {}
PROOF
  <1>1. ~in_step /\ whole /\ Beam < OamDots
    BY DEF FrameInv, LoopInv
  <1>2. ly \in Nat /\ ppu_dots \in Nat /\ ly * LineDots \in Nat
    BY Numbers, LineFurther DEF PP!PpuInv, PP!TypeOK
  <1>3. ly = 0
    <2>1. CASE 1 <= ly
      <3>1. 1 * LineDots <= ly * LineDots
        BY <1>2, <2>1, Numbers, FewerLines
      <3> QED
        BY <1>1, <1>2, <3>1, Numbers DEF Beam
    <2> QED
      BY <1>2, <2>1
  <1>4. ppu_dots < OamDots
    BY <1>1, <1>2, Numbers DEF Beam
  <1>5. ppu_mode = 2
    BY <1>1, <1>3, <1>4, Numbers DEF PP!PpuInv, PP!ModeFollowsPosition, PP!ModeAt
  <1>6. drawn = {n \in 0 .. Lines - 1 : n < ly}
    BY <1>1, <1>5 DEF PP!PpuInv, PP!FrameComplete
  <1> QED
    BY <1>1, <1>3, <1>6, Numbers

(* The window never shows parts of two frames.                              *)
THEOREM NothingTears == Spec => NoTearing
PROOF
  <1>1. FrameInv /\ PP!PpuInv /\ LoopInv /\ Next => (AlwaysOn /\ UiUpdate => whole /\ drawn = {})
    BY UpdateAtTop DEF UiUpdate
  <1> QED
    BY <1>1, FrameKept, PTL DEF Spec, NoTearing
-----------------------------------------------------------------------------
(* The end of a round of the loop of main.                                  *)

LEMMA SamePassage == P!LoopStep => PP!LoopStep
  BY Zenon DEF P!LoopStep, PP!LoopStep,
      P!ModeRaises, PP!ModeRaises, P!Rise, PP!Rise,
      P!StatLine, PP!StatLine, P!LYC, PP!LYC, P!LCD_STAT, PP!LCD_STAT, P!VBLANK, PP!VBLANK,
      P!RequestInterrupts, PP!RequestInterrupts, P!RequestAwake, PP!RequestAwake,
      P!registers, PP!registers, P!engine, PP!engine, P!history, PP!history,
      P!Passage, PP!Passage, P!EnterVBlank, PP!EnterVBlank, P!SetMode, PP!SetMode,
      P!VBlankLine, PP!VBlankLine, P!InVBlank, PP!InVBlank, P!Matches, PP!Matches,
      P!NewFrame, PP!NewFrame, P!FrameEnds, PP!FrameEnds, P!ScanAgain, PP!ScanAgain,
      P!Draw, PP!Draw, P!Rendered, PP!Rendered, P!HBlank, PP!HBlank,
      P!NextLine, PP!NextLine, P!Break, PP!Break,
      P!EnterVBlankRaises, PP!EnterVBlankRaises, P!VBlankLineRaises, PP!VBlankLineRaises,
      P!NewFrameRaises, PP!NewFrameRaises, P!DrawRaises, PP!DrawRaises,
      P!HBlankRaises, PP!HBlankRaises, P!NextLineRaises, PP!NextLineRaises,
      P!AfterLyc, PP!AfterLyc

(* The steps of main that a call of ppu_step for c cycles takes at most.    *)
PpuWork(c) == 4 * (ppu_dots + c) + 5

(* The steps that main has left in this round of its loop, at most.         *)
Work ==
  CASE phase = "exit"   -> 0
    [] phase = "show"   -> 1
    [] phase = "update" -> 2
    [] phase = "frame"  -> 3
    [] phase = "ppu"    -> 3 + (IF in_step THEN PP!Turns ELSE PpuWork(cycles))
    [] phase = "tick"   -> 4 + left + PpuWork(cycles)
    [] phase = "cpu"    -> 5 + OamDots + PpuWork(OamDots)
    [] phase = "events" -> 6 + OamDots + PpuWork(OamDots)

(* main begins the next round. *)
GoesRound == phase \in {"frame", "show"} /\ phase' = "events"

LEMMA WorkTyped ==
  ASSUME PP!PpuInv, LoopInv
  PROVE  /\ Work \in Nat /\ ppu_dots \in Nat /\ PP!Turns \in Nat
         /\ phase \in {"tick", "ppu", "frame"} => cycles \in Nat /\ cycles <= OamDots
PROOF
  <1>1. ppu_dots \in Nat /\ PP!Turns \in Nat
    BY PpuAssumptions, PP!TurnsTyped DEF PP!PpuInv, PP!TypeOK
  <1>2. phase \in {"tick", "ppu", "frame"} => cycles \in Nat /\ cycles <= OamDots
    BY Numbers DEF LoopInv
  <1>3. OamDots \in Nat /\ left \in Nat
    BY Numbers DEF LoopInv
  <1> QED
    BY <1>1, <1>2, <1>3 DEF Work, PpuWork, LoopInv

LEMMA WorkShrinks ==
  ASSUME PP!PpuInv, LoopInv, Main, ~GoesRound
  PROVE  Work' < Work
PROOF
  <1>1. /\ ppu_dots \in Nat /\ PP!Turns \in Nat /\ OamDots \in Nat /\ left \in Nat
        /\ phase \in {"tick", "ppu", "frame"} => cycles \in Nat /\ cycles <= OamDots
    BY WorkTyped, Numbers DEF LoopInv
  <1>2. CASE NoMoreEvents
    <2>1. /\ phase \in {"events", "update"} /\ UNCHANGED ppu_dots
          /\ phase' = IF phase = "events" THEN "cpu" ELSE "show"
      BY <1>2 DEF NoMoreEvents, HandlesEvents, ppuVars
    <2> QED
      BY <1>1, <2>1 DEF Work, PpuWork
  <1>3. CASE CpuStep
    <2>1. PICK c \in AllCycles : Takes(c) /\ (Deliver \/ Idle \/ Instruction)
      BY <1>3 DEF CpuStep, AllCycles
    <2>2. UNCHANGED ppu_dots
      BY <2>1 DEF Deliver, Idle, Instruction, Compute, WriteTimer, WritePpu, WriteDma,
         ppuVars, P!Write, P!engine
    <2>3. c \in Nat /\ c <= OamDots
      BY Numbers
    <2>4. phase = "cpu" /\ phase' = "tick" /\ cycles' = c /\ left' = c
      BY <2>1 DEF Takes
    <2> QED
      BY <1>1, <2>2, <2>3, <2>4 DEF Work, PpuWork
  <1>4. CASE EmuTick
    <2>1. /\ phase = "tick" /\ left > 0 /\ left' = left - 1
          /\ phase' = IF left = 1 THEN "ppu" ELSE "tick"
          /\ UNCHANGED <<cycles, ppu_dots, in_step>>
      BY <1>4 DEF EmuTick, ppuVars
    <2>2. ~in_step
      BY <2>1 DEF LoopInv
    <2> QED
      BY <1>1, <2>1, <2>2 DEF Work, PpuWork
  <1>5. CASE PpuBegin
    <2>1. /\ phase = "ppu" /\ UNCHANGED cycles
          /\ (P!StepOff /\ phase' = "frame") \/ (P!StepOn(cycles) /\ phase' = "ppu")
      BY <1>5 DEF PpuBegin, P!StartOff
    <2>2. CASE P!StepOff /\ phase' = "frame"
      <3>1. ~in_step
        BY <2>2 DEF P!StepOff
      <3> QED
        BY <1>1, <2>1, <2>2, <3>1 DEF Work, PpuWork
    <2>3. CASE P!StepOn(cycles) /\ phase' = "ppu"
      <3>1. /\ ~in_step /\ in_step' = TRUE
            /\ ppu_dots' = ppu_dots + cycles /\ ppu_mode' = ppu_mode
        BY <2>3 DEF P!StepOn
      <3>2. ppu_mode \in 0 .. 3
        BY DEF PP!PpuInv, PP!TypeOK
      <3>3. PICK t \in Nat : PP!Turns' = t /\ t < 4 * (ppu_dots + cycles) + 5
        BY <1>1, <2>1, <3>1, <3>2 DEF PP!Turns, PP!Weight
      <3> QED
        BY <1>1, <2>1, <2>3, <3>1, <3>3 DEF Work, PpuWork
    <2> QED
      BY <2>1, <2>2, <2>3
  <1>6. CASE PpuLoop
    <2>1. /\ phase = "ppu" /\ phase' = IF in_step' THEN "ppu" ELSE "frame"
          /\ PP!LoopStep
      BY <1>6, SamePassage DEF PpuLoop
    <2>2. in_step
      BY <2>1 DEF PP!LoopStep, PP!Passage, PP!EnterVBlank, PP!VBlankLine, PP!NewFrame,
         PP!FrameEnds, PP!InVBlank, PP!Draw, PP!HBlank, PP!NextLine, PP!Break
    <2>3. PICK t \in Nat : PP!Turns' = t /\ t < PP!Turns
      BY <2>1, PpuAssumptions, PP!PassageShrinks
    <2> QED
      BY <1>1, <2>1, <2>2, <2>3 DEF Work
  <1>7. CASE CountFrame
    <2>1. phase = "frame" /\ phase' \in {"update", "events", "exit"}
      BY <1>7 DEF CountFrame, CountUpTo, Again
    <2> QED
      BY <2>1 DEF Work, GoesRound
  <1>8. CASE UiUpdate
    <2>1. phase = "show" /\ phase' \in {"events", "exit"}
      BY <1>8 DEF UiUpdate, Again
    <2> QED
      BY <2>1 DEF Work, GoesRound
  <1> QED
    BY <1>2, <1>3, <1>4, <1>5, <1>6, <1>7, <1>8 DEF Main

(* Each step of main uses up some of the work of its round, until the next  *)
(* round begins: no round goes on for ever, with the LCD on or off.         *)
THEOREM RoundsEnd ==
  Spec => [][Main => Work \in Nat /\ ((Work' < Work) \/ GoesRound)]_vars
PROOF
  <1>1. PP!PpuInv /\ LoopInv /\ Next => (Main => Work \in Nat /\ ((Work' < Work) \/ GoesRound))
    BY WorkTyped, WorkShrinks
  <1> QED
    BY <1>1, FrameKept, PTL DEF Spec

(* Once the window is closed that stays so, main begins no further round,   *)
(* and each of its steps uses up some of the work of the last one: the      *)
(* measure for which QuitExits holds.                                       *)
THEOREM QuitCountsDown ==
  Spec => [][die => /\ die' /\ ~GoesRound
                    /\ Main => Work \in Nat /\ Work' < Work]_vars
PROOF
  <1>1. ASSUME PP!PpuInv, LoopInv, Next
        PROVE  die => die' /\ ~GoesRound /\ (Main => Work \in Nat /\ Work' < Work)
    <2>1. die => die'
      BY <1>1 DEF Next, Main, Press, Quit, Exited, NoMoreEvents, CpuStep, Takes, EmuTick,
         PpuBegin, PpuLoop, CountFrame, CountUpTo, UiUpdate, vars, loopVars
    <2>2. die => ~GoesRound
      BY <1>1 DEF Next, Main, Press, Quit, Exited, NoMoreEvents, HandlesEvents, CpuStep, Takes,
         EmuTick, PpuBegin, PpuLoop, CountFrame, CountUpTo, UiUpdate, Again, vars, loopVars,
         GoesRound
    <2> QED
      BY <1>1, <2>1, <2>2, WorkTyped, WorkShrinks
  <1> QED
    BY <1>1, FrameKept, PTL DEF Spec
=============================================================================
