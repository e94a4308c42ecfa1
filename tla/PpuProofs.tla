------------------------------ MODULE PpuProofs ------------------------------
(***************************************************************************)
(* Proofs about Ppu, for any geometry of the screen with its phases in     *)
(* order, any lengths of the steps of the CPU and any program.             *)
(*                                                                         *)
(* None of the properties is inductive alone.  Position says what the loop *)
(* of ppu_step relies on while it runs: the dots a mode has behind it, the *)
(* only mode in which the last rendered line can end, and the mode 0 in    *)
(* which an LCD that was switched on waits for its first line to pass.     *)
(***************************************************************************)
EXTENDS Ppu, TLAPS

Position ==
  /\ ly >= Lines /\ ppu_mode # 1 => in_step /\ ppu_mode = 0
  /\ ppu_mode = 3 => ppu_dots >= OamDots
  /\ ly < Lines /\ ppu_mode = 0 /\ (whole \/ ly > 0) => ppu_dots >= DrawDots
  /\ ~whole /\ ly = 0 => ppu_mode = 0

PpuInv ==
  /\ TypeOK
  /\ Position
  /\ LoopHasExit
  /\ ModeFollowsPosition
  /\ FrameComplete
  /\ VBlankOnce
  /\ WindowLineBounded

(* Line 0 is a line. *)
LEMMA TopLine == 0 \in 0 .. TotalLines - 1
  BY LineAssumption

(* The requests of any passage are bits of IF. *)
LEMMA RaisesAreBits ==
  ASSUME NEW old, NEW new, NEW old2, NEW new2
  PROVE  /\ Rise(old, new) \subseteq Bits
         /\ {VBLANK} \cup Rise(old, new) \subseteq Bits
         /\ Rise(old, new) \cup Rise(old2, new2) \subseteq Bits
  BY DEF Rise, Bits, VBLANK, LCD_STAT

(* A request keeps the types of IF and of the halt flag.                    *)
LEMMA RequestKeepsTypes ==
  ASSUME NEW S \in SUBSET Bits, if_reg \in SUBSET Bits, halt \in BOOLEAN,
         RequestInterrupts(S)
  PROVE  if_reg' \in SUBSET Bits /\ halt' \in BOOLEAN
  BY DEF RequestInterrupts

(* The STAT line is high or low.                                            *)
LEMMA LineIsBoolean ==
  ASSUME TypeOK, NEW mode, NEW flag \in BOOLEAN
  PROVE  StatLine(mode, flag) \in BOOLEAN
  BY DEF StatLine

(* The PPU powers up at the top of line 0, with nothing drawn.              *)
LEMMA InitInv == Init => PpuInv
PROOF
  <1> SUFFICES ASSUME Init PROVE PpuInv
    OBVIOUS
  <1> USE DEF Init, PpuInit
  <1> USE LineAssumption, DotAssumption
  <1>1. if_reg \in SUBSET Bits
    BY DEF Bits, VBLANK
  <1>2. TypeOK
    <2>1. ly \in 0 .. TotalLines - 1
      BY TopLine
    <2>2. stat_mode \in 0 .. 3 /\ ppu_mode \in 0 .. 3
      OBVIOUS
    <2>3. /\ stat_enables \in SUBSET StatSources
          /\ drawn \in SUBSET (0 .. Lines - 1)
          /\ ie \in SUBSET Bits
      OBVIOUS
    <2> QED
      BY <1>1, <2>1, <2>2, <2>3 DEF TypeOK
  <1>3. Position /\ LoopHasExit
    BY DEF Position, LoopHasExit
  <1>4. ModeFollowsPosition
    BY DEF ModeFollowsPosition, ModeAt
  <1>5. FrameComplete
    BY DEF FrameComplete
  <1>6. VBlankOnce /\ WindowLineBounded
    BY DEF VBlankOnce, WindowLineBounded
  <1> QED
    BY <1>2, <1>3, <1>4, <1>5, <1>6 DEF PpuInv
-----------------------------------------------------------------------------
(* The LCD is off: everything is at the top of line 0. *)
LEMMA StartOffInv ==
  ASSUME PpuInv, StartOff
  PROVE  PpuInv'
PROOF
  <1> USE DEF PpuInv, StartOff, StepOff, registers
  <1> USE LineAssumption, DotAssumption
  <1>1. if_reg' \in SUBSET Bits /\ halt' \in BOOLEAN
    BY RaisesAreBits, RequestKeepsTypes DEF TypeOK, OffRaises, ModeRaises
  <1>2. TypeOK'
    <2>1. ly' \in 0 .. TotalLines - 1
      BY TopLine
    <2>2. stat_mode' \in 0 .. 3 /\ ppu_mode' \in 0 .. 3
      OBVIOUS
    <2>3. drawn' \in SUBSET (0 .. Lines - 1)
      OBVIOUS
    <2> QED
      BY <1>1, <2>1, <2>2, <2>3 DEF TypeOK
  <1>3. Position' /\ LoopHasExit'
    BY DEF TypeOK, Position, LoopHasExit, ModeFollowsPosition
  <1>4. ModeFollowsPosition'
    BY DEF TypeOK, Position, LoopHasExit, ModeFollowsPosition, ModeAt
  <1>5. FrameComplete'
    BY DEF TypeOK, LoopHasExit, Position, FrameComplete
  <1>6. VBlankOnce'
    BY DEF TypeOK, LoopHasExit, VBlankOnce
  <1>7. WindowLineBounded'
    BY DEF TypeOK, LoopHasExit, Position, WindowLineBounded
  <1> QED
    BY <1>2, <1>3, <1>4, <1>5, <1>6, <1>7

(* The dots of a step are added. *)
LEMMA StartOnInv ==
  ASSUME PpuInv, StartOn
  PROVE  PpuInv'
PROOF
  <1> USE DEF PpuInv, StepOn, registers, history
  <1> USE LineAssumption, DotAssumption
  <1>1. PICK c \in Nat : StepOn(c) /\ UNCHANGED <<if_reg, ie, halt>>
    BY InputAssumption DEF StartOn
  <1> USE <1>1
  <1>2. TypeOK'
    BY DEF TypeOK
  <1>3. Position' /\ LoopHasExit'
    BY DEF TypeOK, Position, LoopHasExit, ModeFollowsPosition
  <1>4. ModeFollowsPosition'
    BY DEF TypeOK, Position, LoopHasExit, ModeFollowsPosition, ModeAt
  <1>5. FrameComplete'
    BY DEF TypeOK, LoopHasExit, Position, FrameComplete
  <1>6. VBlankOnce'
    BY DEF TypeOK, LoopHasExit, VBlankOnce
  <1>7. WindowLineBounded'
    BY DEF TypeOK, LoopHasExit, Position, WindowLineBounded
  <1> QED
    BY <1>2, <1>3, <1>4, <1>5, <1>6, <1>7

(* The first passage of VBlank. *)
LEMMA EnterVBlankInv ==
  ASSUME PpuInv, EnterVBlank, RequestInterrupts(EnterVBlankRaises), UNCHANGED ie
  PROVE  PpuInv'
PROOF
  <1> USE DEF PpuInv, EnterVBlank, SetMode, registers
  <1> USE LineAssumption, DotAssumption
  <1>1. if_reg' \in SUBSET Bits /\ halt' \in BOOLEAN
    BY RaisesAreBits, RequestKeepsTypes DEF TypeOK, EnterVBlankRaises, ModeRaises
  <1>0. stat_irq_line' \in BOOLEAN
    BY LineIsBoolean DEF TypeOK
  <1>2. TypeOK'
    BY <1>0, <1>1 DEF TypeOK
  <1>3. Position' /\ LoopHasExit'
    BY DEF TypeOK, Position, LoopHasExit, ModeFollowsPosition
  <1>4. ModeFollowsPosition'
    BY DEF TypeOK, Position, LoopHasExit, ModeFollowsPosition, ModeAt
  <1>5. FrameComplete'
    BY DEF TypeOK, LoopHasExit, Position, FrameComplete
  <1>6. VBlankOnce'
    BY DEF TypeOK, LoopHasExit, VBlankOnce
  <1>7. WindowLineBounded'
    BY DEF TypeOK, LoopHasExit, Position, WindowLineBounded
  <1> QED
    BY <1>2, <1>3, <1>4, <1>5, <1>6, <1>7

(* A line of VBlank passes: only LY and the LYC flag move.                  *)
LEMMA VBlankLineInv ==
  ASSUME PpuInv, VBlankLine, RequestInterrupts(VBlankLineRaises), UNCHANGED ie
  PROVE  PpuInv'
PROOF
  <1> USE DEF PpuInv, VBlankLine, InVBlank, registers, history
  <1> USE LineAssumption, DotAssumption
  <1>1. if_reg' \in SUBSET Bits /\ halt' \in BOOLEAN
    BY RaisesAreBits, RequestKeepsTypes DEF TypeOK, VBlankLineRaises
  <1>0. stat_irq_line' \in BOOLEAN
    BY LineIsBoolean DEF TypeOK, Matches
  <1>2. TypeOK'
    BY <1>0, <1>1 DEF TypeOK, Matches
  <1>3. Position' /\ LoopHasExit'
    BY DEF TypeOK, Position, LoopHasExit, ModeFollowsPosition
  <1>4. ModeFollowsPosition'
    BY DEF TypeOK, Position, LoopHasExit, ModeFollowsPosition, ModeAt
  <1>5. FrameComplete'
    BY DEF TypeOK, LoopHasExit, Position, FrameComplete
  <1>6. VBlankOnce'
    BY DEF TypeOK, LoopHasExit, VBlankOnce
  <1>7. WindowLineBounded'
    BY DEF TypeOK, LoopHasExit, Position, WindowLineBounded
  <1> QED
    BY <1>2, <1>3, <1>4, <1>5, <1>6, <1>7

(* The last line of VBlank passes: a new frame has drawn nothing yet.       *)
LEMMA NewFrameInv ==
  ASSUME PpuInv, NewFrame, RequestInterrupts(NewFrameRaises), UNCHANGED ie
  PROVE  PpuInv'
PROOF
  <1> USE DEF PpuInv, NewFrame, FrameEnds, ScanAgain, InVBlank, registers
  <1> USE LineAssumption, DotAssumption
  <1>1. if_reg' \in SUBSET Bits /\ halt' \in BOOLEAN
    BY RaisesAreBits, RequestKeepsTypes DEF TypeOK, NewFrameRaises, ModeRaises
  <1>0. stat_irq_line' \in BOOLEAN
    BY LineIsBoolean DEF TypeOK, Matches
  <1>2. TypeOK'
    BY <1>0, <1>1 DEF TypeOK, Matches
  <1>3. Position' /\ LoopHasExit'
    BY DEF TypeOK, Position, LoopHasExit, ModeFollowsPosition
  <1>4. ModeFollowsPosition'
    BY DEF TypeOK, Position, LoopHasExit, ModeFollowsPosition, ModeAt
  <1>5. FrameComplete'
    BY DEF TypeOK, LoopHasExit, Position, FrameComplete
  <1>6. VBlankOnce'
    BY DEF TypeOK, LoopHasExit, VBlankOnce
  <1>7. WindowLineBounded'
    BY DEF TypeOK, LoopHasExit, Position, WindowLineBounded
  <1> QED
    BY <1>2, <1>3, <1>4, <1>5, <1>6, <1>7

(* A line is rendered once, and the window advances by one line at most. *)
LEMMA DrawInv ==
  ASSUME PpuInv, Draw, RequestInterrupts(DrawRaises), UNCHANGED ie
  PROVE  PpuInv'
PROOF
  <1> USE DEF PpuInv, Draw, Rendered, SetMode, registers
  <1> USE LineAssumption, DotAssumption
  <1>1. if_reg' \in SUBSET Bits /\ halt' \in BOOLEAN
    BY RaisesAreBits, RequestKeepsTypes DEF TypeOK, DrawRaises, ModeRaises
  <1>0. stat_irq_line' \in BOOLEAN
    BY LineIsBoolean DEF TypeOK
  <1>2. TypeOK'
    BY <1>0, <1>1 DEF TypeOK
  <1>3. Position' /\ LoopHasExit'
    BY DEF TypeOK, Position, LoopHasExit, ModeFollowsPosition
  <1>4. ModeFollowsPosition'
    BY DEF TypeOK, Position, LoopHasExit, ModeFollowsPosition, ModeAt
  <1>5. FrameComplete'
    BY DEF TypeOK, LoopHasExit, Position, FrameComplete
  <1>6. VBlankOnce'
    BY DEF TypeOK, LoopHasExit, VBlankOnce
  <1>7. WindowLineBounded'
    BY DEF TypeOK, LoopHasExit, Position, WindowLineBounded
  <1> QED
    BY <1>2, <1>3, <1>4, <1>5, <1>6, <1>7

(* Drawing ends: HBlank begins with the dots of drawing behind it.          *)
LEMMA HBlankInv ==
  ASSUME PpuInv, HBlank, RequestInterrupts(HBlankRaises), UNCHANGED ie
  PROVE  PpuInv'
PROOF
  <1> USE DEF PpuInv, HBlank, SetMode, registers, history
  <1> USE LineAssumption, DotAssumption
  <1>1. if_reg' \in SUBSET Bits /\ halt' \in BOOLEAN
    BY RaisesAreBits, RequestKeepsTypes DEF TypeOK, HBlankRaises, ModeRaises
  <1>0. stat_irq_line' \in BOOLEAN
    BY LineIsBoolean DEF TypeOK
  <1>2. TypeOK'
    BY <1>0, <1>1 DEF TypeOK
  <1>3. Position' /\ LoopHasExit'
    BY DEF TypeOK, Position, LoopHasExit, ModeFollowsPosition
  <1>4. ModeFollowsPosition'
    BY DEF TypeOK, Position, LoopHasExit, ModeFollowsPosition, ModeAt
  <1>5. FrameComplete'
    BY DEF TypeOK, LoopHasExit, Position, FrameComplete
  <1>6. VBlankOnce'
    BY DEF TypeOK, LoopHasExit, VBlankOnce
  <1>7. WindowLineBounded'
    BY DEF TypeOK, LoopHasExit, Position, WindowLineBounded
  <1> QED
    BY <1>2, <1>3, <1>4, <1>5, <1>6, <1>7

(* A rendered line ends: every line above the new one has been drawn.       *)
LEMMA NextLineInv ==
  ASSUME PpuInv, NextLine, RequestInterrupts(NextLineRaises), UNCHANGED ie
  PROVE  PpuInv'
PROOF
  <1> USE DEF PpuInv, NextLine, registers, history
  <1> USE LineAssumption, DotAssumption
  <1>1. if_reg' \in SUBSET Bits /\ halt' \in BOOLEAN
    BY RaisesAreBits, RequestKeepsTypes DEF TypeOK, NextLineRaises
  <1>0. stat_irq_line' \in BOOLEAN
    BY LineIsBoolean DEF TypeOK, Matches
  <1>2. TypeOK'
    BY <1>0, <1>1 DEF TypeOK, Matches
  <1>3. Position' /\ LoopHasExit'
    BY DEF TypeOK, Position, LoopHasExit, ModeFollowsPosition
  <1>4. ModeFollowsPosition'
    BY DEF TypeOK, Position, LoopHasExit, ModeFollowsPosition, ModeAt
  <1>5. FrameComplete'
    BY DEF TypeOK, LoopHasExit, Position, FrameComplete
  <1>6. VBlankOnce'
    BY DEF TypeOK, LoopHasExit, VBlankOnce
  <1>7. WindowLineBounded'
    BY DEF TypeOK, LoopHasExit, Position, WindowLineBounded
  <1> QED
    BY <1>2, <1>3, <1>4, <1>5, <1>6, <1>7

(* The loop ends where the mode fits the position. *)
LEMMA BreakInv ==
  ASSUME PpuInv, Break, RequestInterrupts({}), UNCHANGED ie
  PROVE  PpuInv'
PROOF
  <1> USE DEF PpuInv, Break, registers, engine, history, RequestInterrupts
  <1> USE LineAssumption, DotAssumption
  <1>1. if_reg' \in SUBSET Bits /\ halt' \in BOOLEAN
    BY DEF TypeOK
  <1>2. TypeOK'
    BY <1>1 DEF TypeOK
  <1>3. Position' /\ LoopHasExit'
    BY DEF TypeOK, Position, LoopHasExit, ModeFollowsPosition
  <1>4. ModeFollowsPosition'
    BY DEF TypeOK, Position, LoopHasExit, ModeFollowsPosition, ModeAt
  <1>5. FrameComplete'
    BY DEF TypeOK, LoopHasExit, Position, FrameComplete
  <1>6. VBlankOnce'
    BY DEF TypeOK, LoopHasExit, VBlankOnce
  <1>7. WindowLineBounded'
    BY DEF TypeOK, LoopHasExit, Position, WindowLineBounded
  <1> QED
    BY <1>2, <1>3, <1>4, <1>5, <1>6, <1>7

(* No write of the program reaches the engine.                              *)
LEMMA WriteInv ==
  ASSUME PpuInv, WriteStep
  PROVE  PpuInv'
PROOF
  <1> USE DEF PpuInv, WriteStep, Write, WriteLcdc, WriteStat, WriteLyc, WriteWy,
              engine, history, RequestAwake
  <1> USE LineAssumption, DotAssumption
  <1>0. /\ lcd_on' \in BOOLEAN /\ window_on' \in BOOLEAN
        /\ wy' \in Nat /\ lyc' \in Nat
        /\ stat_enables' \in SUBSET StatSources
    BY InputAssumption DEF TypeOK
  <1>1. if_reg' \in SUBSET Bits /\ ie' \in SUBSET Bits /\ halt' \in BOOLEAN
    BY DEF TypeOK
  <1>2. TypeOK'
    BY <1>0, <1>1 DEF TypeOK
  <1>3. Position' /\ LoopHasExit'
    BY DEF TypeOK, Position, LoopHasExit, ModeFollowsPosition
  <1>4. ModeFollowsPosition'
    BY DEF TypeOK, Position, LoopHasExit, ModeFollowsPosition, ModeAt
  <1>5. FrameComplete'
    BY DEF TypeOK, LoopHasExit, Position, FrameComplete
  <1>6. VBlankOnce'
    BY DEF TypeOK, LoopHasExit, VBlankOnce
  <1>7. WindowLineBounded'
    BY DEF TypeOK, LoopHasExit, Position, WindowLineBounded
  <1> QED
    BY <1>2, <1>3, <1>4, <1>5, <1>6, <1>7

(* The rest of the system leaves the PPU alone.                             *)
LEMMA ElsewhereInv ==
  ASSUME PpuInv, Elsewhere \/ UNCHANGED vars
  PROVE  PpuInv'
PROOF
  <1> USE DEF PpuInv, Elsewhere, vars, ppuVars, registers, engine, history
  <1> USE LineAssumption, DotAssumption
  <1>2. TypeOK'
    BY InputAssumption DEF TypeOK
  <1>3. Position' /\ LoopHasExit'
    BY DEF TypeOK, Position, LoopHasExit, ModeFollowsPosition
  <1>4. ModeFollowsPosition'
    BY DEF TypeOK, Position, LoopHasExit, ModeFollowsPosition, ModeAt
  <1>5. FrameComplete'
    BY DEF TypeOK, LoopHasExit, Position, FrameComplete
  <1>6. VBlankOnce'
    BY DEF TypeOK, LoopHasExit, VBlankOnce
  <1>7. WindowLineBounded'
    BY DEF TypeOK, LoopHasExit, Position, WindowLineBounded
  <1> QED
    BY <1>2, <1>3, <1>4, <1>5, <1>6, <1>7

(* Every step of the PPU and of its surroundings keeps the invariant.       *)
LEMMA NextInv == PpuInv /\ [Next]_vars => PpuInv'
PROOF
  <1> SUFFICES ASSUME PpuInv, [Next]_vars PROVE PpuInv'
    OBVIOUS
  <1>1. CASE StartOff
    BY <1>1, StartOffInv
  <1>2. CASE StartOn
    BY <1>2, StartOnInv
  <1>3. CASE LoopStep
    BY <1>3, EnterVBlankInv, VBlankLineInv, NewFrameInv, DrawInv, HBlankInv,
       NextLineInv, BreakInv
    DEF LoopStep, Passage
  <1>4. CASE WriteStep
    BY <1>4, WriteInv
  <1>5. CASE Elsewhere \/ UNCHANGED vars
    BY <1>5, ElsewhereInv
  <1> QED
    BY <1>1, <1>2, <1>3, <1>4, <1>5 DEF Next

(* All the properties of the PPU hold together, always.                     *)
THEOREM Invariance == Spec => []PpuInv
PROOF
  <1> QED
    BY InitInv, NextInv, PTL DEF Spec

(* The registers and counters of the PPU always have their types.           *)
THEOREM TypeCorrect == Spec => []TypeOK
PROOF
  <1>1. PpuInv => TypeOK
    BY DEF PpuInv
  <1> QED
    BY <1>1, Invariance, PTL

(* Between two calls of ppu_step the mode is the one of the position.       *)
THEOREM ModeIsThePositions == Spec => []ModeFollowsPosition
PROOF
  <1>1. PpuInv => ModeFollowsPosition
    BY DEF PpuInv
  <1> QED
    BY <1>1, Invariance, PTL

(* The loop of ppu_step is never in a state it has no branch for.           *)
THEOREM LoopAlwaysHasExit == Spec => []LoopHasExit
PROOF
  <1>1. PpuInv => LoopHasExit
    BY DEF PpuInv
  <1> QED
    BY <1>1, Invariance, PTL

(* With the LCD on, a frame renders every scanline above the beam.          *)
THEOREM FramesAreComplete == Spec => []FrameComplete
PROOF
  <1>1. PpuInv => FrameComplete
    BY DEF PpuInv
  <1> QED
    BY <1>1, Invariance, PTL

(* A frame requests VBlank once, in its VBlank and not before.              *)
THEOREM OneVBlankAFrame == Spec => []VBlankOnce
PROOF
  <1>1. PpuInv => VBlankOnce
    BY DEF PpuInv
  <1> QED
    BY <1>1, Invariance, PTL

(* The window never runs past the lines of the screen.                      *)
THEOREM WindowStaysInMap == Spec => []WindowLineBounded
PROOF
  <1>1. PpuInv => WindowLineBounded
    BY DEF PpuInv
  <1> QED
    BY <1>1, Invariance, PTL
-----------------------------------------------------------------------------
(* The passages of a call.                                                  *)

(* A line passes through the modes in this order. *)
Weight(mode) == CASE mode = 2 -> 3 [] mode = 3 -> 2 [] mode = 0 -> 1 [] mode = 1 -> 0

(* The dots and modes that the running call has still to account for.       *)
Turns == IF in_step THEN 4 * ppu_dots + Weight(ppu_mode) + 1 ELSE 0

LEMMA TurnsTyped == PpuInv => Turns \in Nat
  BY DEF PpuInv, TypeOK, Turns, Weight

LEMMA PassageShrinks ==
  ASSUME PpuInv, LoopStep
  PROVE  Turns' \in Nat /\ Turns' < Turns
PROOF
  <1>1. /\ ppu_dots \in Nat /\ ppu_mode \in 0 .. 3
        /\ LineDots \in Nat \ {0}
    BY DotAssumption DEF PpuInv, TypeOK
  <1>2. CASE EnterVBlank
    BY <1>1, <1>2, LineAssumption DEF EnterVBlank, SetMode, Turns, Weight
  <1>3. CASE VBlankLine
    BY <1>1, <1>3 DEF VBlankLine, InVBlank, Turns, Weight
  <1>4. CASE NewFrame
    BY <1>1, <1>4 DEF NewFrame, FrameEnds, InVBlank, ScanAgain, Turns, Weight
  <1>5. CASE Draw
    BY <1>1, <1>5 DEF Draw, SetMode, Turns, Weight
  <1>6. CASE HBlank
    BY <1>1, <1>6 DEF HBlank, SetMode, Turns, Weight
  <1>7. CASE NextLine
    BY <1>1, <1>7 DEF NextLine, Turns, Weight
  <1>8. CASE Break
    BY <1>1, <1>8 DEF Break, Turns, Weight
  <1> QED
    BY <1>2, <1>3, <1>4, <1>5, <1>6, <1>7, <1>8 DEF LoopStep, Passage

(* Each passage of the loop of ppu_step brings its end nearer, however many *)
(* dots the call was given and whatever the program wrote before it: Turns  *)
(* counts down, so that the loop is left after at most as many passages.    *)
THEOREM LoopCountsDown ==
  Spec => [][LoopStep => Turns \in Nat /\ Turns' \in Nat /\ Turns' < Turns]_vars
PROOF
  <1>1. PpuInv /\ Next => (LoopStep => Turns \in Nat /\ Turns' \in Nat /\ Turns' < Turns)
    BY TurnsTyped, PassageShrinks
  <1> QED
    BY <1>1, Invariance, PTL DEF Spec
-----------------------------------------------------------------------------
(* The lines that are scanned and drawn.                                    *)

(* The order in which ppu_step calls get_sprites and render_scanline.  The  *)
(* lines of VBlank pass with the last line in hand.                         *)
LineOrder ==
  INSTANCE LineContract WITH
    line <- IF ly < Lines THEN ly ELSE Lines - 1,
    scanned <- ppu_mode = 2,
    window <- window_line

LEMMA PassageKeepsOrder ==
  ASSUME PpuInv, LoopStep
  PROVE  [LineOrder!Next]_(LineOrder!vars)
PROOF
  <1> USE DEF LineOrder!vars
  <1>1. ly \in Nat /\ Lines \in Nat /\ Lines > 0
    BY LineAssumption DEF PpuInv, TypeOK
  <1>2. CASE EnterVBlank
    <2>1. ppu_mode # 2 /\ ppu_mode' # 2 /\ UNCHANGED <<ly, window_line>>
      BY <1>2 DEF EnterVBlank, SetMode, PpuInv, Position
    <2> QED
      BY <2>1
  <1>3. CASE VBlankLine
    <2>1. /\ ppu_mode = 1 /\ ly >= Lines /\ ly' = ly + 1
          /\ UNCHANGED <<ppu_mode, window_line>>
      BY <1>3 DEF VBlankLine, InVBlank
    <2> QED
      BY <1>1, <2>1
  <1>4. CASE NewFrame
    <2>1. /\ ppu_mode = 1 /\ ly >= Lines
          /\ ly' = 0 /\ ppu_mode' = 2 /\ window_line' = 0
      BY <1>4 DEF NewFrame, FrameEnds, InVBlank, ScanAgain
    <2> QED
      BY <1>1, <2>1 DEF LineOrder!Next, LineOrder!ScanFirst
  <1>5. CASE Draw
    <2>1. /\ ppu_mode = 2 /\ ppu_mode' = 3 /\ UNCHANGED ly
          /\ window_line' \in {window_line, window_line + 1}
      BY <1>5 DEF Draw, SetMode, Rendered
    <2> QED
      BY <2>1 DEF LineOrder!Next, LineOrder!Draw
  <1>6. CASE HBlank
    <2>1. ppu_mode = 3 /\ ppu_mode' = 0 /\ UNCHANGED <<ly, window_line>>
      BY <1>6 DEF HBlank, SetMode
    <2> QED
      BY <2>1
  <1>7. CASE NextLine
    <2>1. /\ ppu_mode = 0 /\ ly < Lines /\ ly' = ly + 1 /\ UNCHANGED window_line
          /\ ppu_mode' = IF ly + 1 < Lines THEN 2 ELSE 0
      BY <1>7 DEF NextLine
    <2>2. CASE ly + 1 < Lines
      BY <1>1, <2>1, <2>2 DEF LineOrder!Next, LineOrder!ScanNext
    <2>3. CASE ~(ly + 1 < Lines)
      BY <1>1, <2>1, <2>3
    <2> QED
      BY <2>2, <2>3
  <1>8. CASE Break
    BY <1>8 DEF Break, engine
  <1> QED
    BY <1>2, <1>3, <1>4, <1>5, <1>6, <1>7, <1>8 DEF LoopStep, Passage

(* Whatever the lengths of the steps and the writes of the program, lines   *)
(* are scanned and drawn in the order of LineContract.  RenderProofs shows  *)
(* that module Render, which leaves the dots out, follows the same order.   *)
THEOREM LinesAreInOrder ==
  Spec => LineOrder!Spec
PROOF
  <1>1. Init => LineOrder!Init
    BY LineAssumption DEF Init, PpuInit, LineOrder!Init
  <1>2. PpuInv /\ [Next]_vars => [LineOrder!Next]_(LineOrder!vars)
    <2> SUFFICES ASSUME PpuInv, [Next]_vars PROVE [LineOrder!Next]_(LineOrder!vars)
      OBVIOUS
    <2>1. CASE StartOff
      <3>1. ly' = 0 /\ ppu_mode' = 0 /\ window_line' = 0
        BY <2>1 DEF StartOff, StepOff
      <3>2. Lines > 0
        BY LineAssumption
      <3> QED
        BY <3>1, <3>2 DEF LineOrder!Next, LineOrder!SwitchOff
    <2>2. CASE LoopStep
      BY <2>2, PassageKeepsOrder
    <2>3. CASE UNCHANGED <<ly, ppu_mode, window_line>>
      BY <2>3 DEF LineOrder!vars
    <2>4. StartOn \/ WriteStep \/ Elsewhere \/ UNCHANGED vars
            => UNCHANGED <<ly, ppu_mode, window_line>>
      BY DEF StartOn, StepOn, WriteStep, Write, Elsewhere, vars, ppuVars, engine
    <2> QED
      BY <2>1, <2>2, <2>3, <2>4 DEF Next
  <1> QED
    BY <1>1, <1>2, Invariance, PTL DEF Spec, LineOrder!Spec
=============================================================================
