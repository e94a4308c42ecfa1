--------------------------------- MODULE Ppu ---------------------------------
(***************************************************************************)
(* lib/ppu.cpp: the scanline engine of ppu_step with its modes, LY, the    *)
(* LYC flag, the STAT interrupt line and the window line counter.          *)
(*                                                                         *)
(* ppu_step adds the cycles of one CPU step to ppu_dots and then loops     *)
(* until no boundary is left to cross.  Each passage of that loop is an    *)
(* action; in_step is TRUE while the loop runs, and the program writes the *)
(* registers only between two calls.  The screen, the palettes and the     *)
(* sprites are abstracted to which scanlines were rendered.                *)
(*                                                                         *)
(* lines: Lines are rendered, then TotalLines - Lines lines of VBlank      *)
(* follow.  A line takes LineDots: the scan of OAM up to OamDots, drawing  *)
(* up to DrawDots, then HBlank.                                            *)
(***************************************************************************)
EXTENDS Interrupt

CONSTANTS
  Lines,         \* 144
  TotalLines,    \* 154
  OamDots,       \* 80
  DrawDots,      \* 252
  LineDots,      \* 456
  StepCycles,    \* the cycles a CPU step can take
  Coincidences,  \* the values the program writes to LYC
  WindowTops,    \* the values the program writes to WY
  StatSets,      \* the sets of STAT sources the program enables
  OtherValues    \* the values the rest of the system gives IF and IE

LYC == 3         \* STAT bit 6; the modes 0, 1 and 2 are bits 3, 4 and 5
StatSources == {0, 1, 2, LYC}

ASSUME LineAssumption ==
  /\ Lines \in Nat \ {0}
  /\ TotalLines \in Nat
  /\ Lines < TotalLines
ASSUME DotAssumption ==
  /\ OamDots \in Nat \ {0}
  /\ DrawDots \in Nat
  /\ LineDots \in Nat
  /\ OamDots < DrawDots
  /\ DrawDots < LineDots
ASSUME InputAssumption ==
  /\ StepCycles \subseteq Nat \ {0}
  /\ Coincidences \subseteq Nat
  /\ WindowTops \subseteq Nat
  /\ StatSets \subseteq SUBSET StatSources
  /\ OtherValues \subseteq SUBSET Bits

VARIABLES
  lcd_on,         \* LCDC bit 7
  window_on,      \* LCDC bit 5, and WX on the screen
  wy,             \* WY
  lyc,            \* LYC
  ly,             \* LY
  stat_mode,      \* STAT bits 0 and 1, the mode the program reads
  lyc_flag,       \* STAT bit 2
  stat_enables,   \* STAT bits 3 to 6
  ppu_mode,
  ppu_dots,
  stat_irq_line,
  window_line,
  in_step         \* the loop of ppu_step is running

(* History of the frame in progress, for the properties only. *)
VARIABLES
  drawn,          \* the scanlines rendered since LY was last reset to 0
  whole,          \* the LCD has been on since then
  vblanks         \* the VBlank interrupts requested since then

registers == <<lcd_on, window_on, wy, lyc, stat_enables>>
engine    == <<ly, stat_mode, lyc_flag, ppu_mode, ppu_dots, stat_irq_line, window_line>>
history   == <<drawn, whole, vblanks>>
ppuVars   == <<registers, engine, in_step, history>>
vars      == <<if_reg, ie, halt, ppuVars>>

(* ppu_init after io_init: STAT is 0x85, so it shows mode 1 and LYC = LY. *)
PpuInit ==
  /\ lcd_on = TRUE
  /\ window_on = FALSE
  /\ wy = 0
  /\ lyc = 0
  /\ ly = 0
  /\ stat_mode = 1
  /\ lyc_flag = TRUE
  /\ stat_enables = {}
  /\ ppu_mode = 2
  /\ ppu_dots = 0
  /\ stat_irq_line = FALSE
  /\ window_line = 0
  /\ in_step = FALSE
  /\ drawn = {}
  /\ whole = TRUE
  /\ vblanks = 0
-----------------------------------------------------------------------------
(* new_line of update_stat_irq: some enabled source holds. *)
StatLine(mode, flag) ==
  mode \in stat_enables \/ (flag /\ LYC \in stat_enables)

(* The interrupts a call of update_stat_irq requests when the line goes     *)
(* from old to new.                                                         *)
Rise(old, new) == IF new /\ ~old THEN {LCD_STAT} ELSE {}

(* set_mode(m) for m, or no change of the line *)
SetMode(m) ==
  /\ ppu_mode' = m
  /\ stat_mode' = m
  /\ stat_irq_line' = StatLine(m, lyc_flag)
ModeRaises(m) == Rise(stat_irq_line, StatLine(m, lyc_flag))

(* The flag check_lyc computes for line n. *)
Matches(n) == n = lyc
-----------------------------------------------------------------------------
(* ppu_step with the LCD off: everything goes back to the top of line 0.    *)
(* set_mode runs update_stat_irq before the line is forced low.             *)
OffRaises == ModeRaises(0)

StepOff ==
  /\ ~in_step
  /\ ~lcd_on
  /\ ppu_mode' = 0
  /\ stat_mode' = 0
  /\ ly' = 0
  /\ ppu_dots' = 0
  /\ stat_irq_line' = FALSE
  /\ window_line' = 0
  /\ drawn' = {}
  /\ whole' = FALSE
  /\ vblanks' = 0
  /\ UNCHANGED <<registers, lyc_flag, in_step>>

(* Mutant: the dots are assigned instead of added. *)
StepOnFromZero(c) ==
  /\ ~in_step
  /\ lcd_on
  /\ ppu_dots' = c
  /\ in_step' = TRUE
  /\ UNCHANGED <<registers, ly, stat_mode, lyc_flag, ppu_mode, stat_irq_line,
                 window_line, history>>

(* ppu_step with the LCD on, up to its loop. *)
StepOn(c) ==
  /\ ~in_step
  /\ lcd_on
  /\ ppu_dots' = ppu_dots + c
  /\ in_step' = TRUE
  /\ UNCHANGED <<registers, ly, stat_mode, lyc_flag, ppu_mode, stat_irq_line,
                 window_line, history>>

(* The first passage of the loop past the last rendered line. *)
EnterVBlankRaises == {VBLANK} \cup ModeRaises(1)

(* Mutant: the first passage of VBlank is not told from the others. *)
EnterVBlankAgain ==
  /\ in_step
  /\ ly >= Lines
  /\ SetMode(1)
  /\ vblanks' = vblanks + 1
  /\ UNCHANGED <<registers, ly, lyc_flag, ppu_dots, window_line, in_step, drawn, whole>>

EnterVBlank ==
  /\ in_step
  /\ ly >= Lines
  /\ ppu_mode # 1
  /\ SetMode(1)
  /\ vblanks' = vblanks + 1
  /\ UNCHANGED <<registers, ly, lyc_flag, ppu_dots, window_line, in_step, drawn, whole>>

(* A line of VBlank ends and another one follows. *)
InVBlank == in_step /\ ly >= Lines /\ ppu_mode = 1

VBlankLineRaises == Rise(stat_irq_line, StatLine(stat_mode, Matches(ly + 1)))

VBlankLine ==
  /\ InVBlank
  /\ ppu_dots >= LineDots
  /\ ly + 1 < TotalLines
  /\ ppu_dots' = ppu_dots - LineDots
  /\ ly' = ly + 1
  /\ lyc_flag' = Matches(ly + 1)
  /\ stat_irq_line' = StatLine(stat_mode, Matches(ly + 1))
  /\ UNCHANGED <<registers, stat_mode, ppu_mode, window_line, in_step, history>>

(* The last line of VBlank ends: the frame starts over. *)
FrameEnds ==
  /\ InVBlank
  /\ ppu_dots >= LineDots
  /\ ly + 1 >= TotalLines
  /\ ppu_dots' = ppu_dots - LineDots
  /\ ly' = 0
  /\ drawn' = {}
  /\ whole' = TRUE
  /\ vblanks' = 0
  /\ UNCHANGED <<registers, in_step>>

ScanAgain(flag) ==
  /\ ppu_mode' = 2
  /\ stat_mode' = 2
  /\ lyc_flag' = flag
  /\ stat_irq_line' = StatLine(2, flag)

(* Mutants: the mode is left alone; LY 0 is not compared with LYC; the      *)
(* window goes on where it was.                                             *)
NewFrameKeepsMode ==
  FrameEnds /\ window_line' = 0 /\ UNCHANGED <<ppu_mode, stat_mode, lyc_flag, stat_irq_line>>
NewFrameKeepsFlag   == FrameEnds /\ window_line' = 0 /\ ScanAgain(lyc_flag)
NewFrameKeepsWindow == FrameEnds /\ ScanAgain(Matches(0)) /\ UNCHANGED window_line

(* set_mode(2) with the old LYC flag first, then check_lyc for line 0, and  *)
(* either may raise the line.                                               *)
NewFrameRaises ==
  ModeRaises(2) \cup Rise(StatLine(2, lyc_flag), StatLine(2, Matches(0)))

NewFrame == FrameEnds /\ window_line' = 0 /\ ScanAgain(Matches(0))

(* render_scanline renders the whole line; the window takes a line of its   *)
(* own when it shows.                                                       *)
Rendered ==
  /\ window_line' = IF window_on /\ ly >= wy THEN window_line + 1 ELSE window_line
  /\ drawn' = drawn \cup {ly}

(* The scan of OAM ends: mode 3, and the line is rendered. *)
DrawRaises == ModeRaises(3)

Draw ==
  /\ in_step
  /\ ly < Lines
  /\ ppu_mode = 2
  /\ ppu_dots >= OamDots
  /\ SetMode(3)
  /\ Rendered
  /\ UNCHANGED <<registers, ly, lyc_flag, ppu_dots, in_step, whole, vblanks>>

HBlankRaises == ModeRaises(0)

(* Mutant: the mode stays 3. *)
HBlankKeepsMode ==
  /\ in_step
  /\ ly < Lines
  /\ ppu_mode = 3
  /\ ppu_dots >= DrawDots
  /\ SetMode(3)
  /\ UNCHANGED <<registers, ly, lyc_flag, ppu_dots, window_line, in_step, history>>

HBlank ==
  /\ in_step
  /\ ly < Lines
  /\ ppu_mode = 3
  /\ ppu_dots >= DrawDots
  /\ SetMode(0)
  /\ UNCHANGED <<registers, ly, lyc_flag, ppu_dots, window_line, in_step, history>>

(* A line ends: check_lyc for the next one while still in mode 0, then      *)
(* set_mode(2), unless VBlank begins there.                                 *)
AfterLyc == StatLine(0, Matches(ly + 1))

NextLineRaises ==
  Rise(stat_irq_line, AfterLyc) \cup
  (IF ly + 1 < Lines THEN Rise(AfterLyc, StatLine(2, Matches(ly + 1))) ELSE {})

(* Mutant: the scan of OAM is skipped. *)
NextLineSkipsScan ==
  /\ in_step
  /\ ly < Lines
  /\ ppu_mode = 0
  /\ ppu_dots >= LineDots
  /\ ppu_dots' = ppu_dots - LineDots
  /\ ly' = ly + 1
  /\ lyc_flag' = Matches(ly + 1)
  /\ LET next == IF ly + 1 < Lines THEN 3 ELSE 0 IN
       /\ ppu_mode' = next
       /\ stat_mode' = next
       /\ stat_irq_line' = StatLine(next, Matches(ly + 1))
  /\ UNCHANGED <<registers, window_line, in_step, history>>

NextLine ==
  /\ in_step
  /\ ly < Lines
  /\ ppu_mode = 0
  /\ ppu_dots >= LineDots
  /\ ppu_dots' = ppu_dots - LineDots
  /\ ly' = ly + 1
  /\ lyc_flag' = Matches(ly + 1)
  /\ LET next == IF ly + 1 < Lines THEN 2 ELSE 0 IN
       /\ ppu_mode' = next
       /\ stat_mode' = next
       /\ stat_irq_line' = StatLine(next, Matches(ly + 1))
  /\ UNCHANGED <<registers, window_line, in_step, history>>

(* Mutant: one passage is all a call makes. *)
BreakAtOnce ==
  /\ in_step
  /\ in_step' = FALSE
  /\ UNCHANGED <<registers, engine, history>>

(* No boundary is left to cross: the loop breaks. *)
Break ==
  /\ in_step
  /\ \/ ly >= Lines /\ ppu_mode = 1 /\ ppu_dots < LineDots
     \/ ly < Lines /\ ppu_mode = 2 /\ ppu_dots < OamDots
     \/ ly < Lines /\ ppu_mode = 3 /\ ppu_dots < DrawDots
     \/ ly < Lines /\ ppu_mode = 0 /\ ppu_dots < LineDots
  /\ in_step' = FALSE
  /\ UNCHANGED <<registers, engine, history>>

(* A passage of the loop, with the interrupts it requests. *)
Passage ==
  \/ EnterVBlank /\ RequestInterrupts(EnterVBlankRaises)
  \/ VBlankLine  /\ RequestInterrupts(VBlankLineRaises)
  \/ NewFrame    /\ RequestInterrupts(NewFrameRaises)
  \/ Draw        /\ RequestInterrupts(DrawRaises)
  \/ HBlank      /\ RequestInterrupts(HBlankRaises)
  \/ NextLine    /\ RequestInterrupts(NextLineRaises)
  \/ Break       /\ RequestInterrupts({})
-----------------------------------------------------------------------------
(* The registers the program writes.  STAT keeps its low bits, and neither  *)
(* a write to STAT nor one to LYC updates the flag or the interrupt line.   *)
WriteLcdc(on, window) ==
  /\ lcd_on' = on
  /\ window_on' = window
  /\ UNCHANGED <<wy, lyc, stat_enables>>

WriteStat(S) ==
  /\ stat_enables' = S
  /\ UNCHANGED <<lcd_on, window_on, wy, lyc>>

WriteLyc(n) ==
  /\ lyc' = n
  /\ UNCHANGED <<lcd_on, window_on, wy, stat_enables>>

WriteWy(n) ==
  /\ wy' = n
  /\ UNCHANGED <<lcd_on, window_on, lyc, stat_enables>>

Write ==
  /\ ~in_step
  /\ \/ \E on, window \in BOOLEAN : WriteLcdc(on, window)
     \/ \E S \in StatSets : WriteStat(S)
     \/ \E n \in Coincidences : WriteLyc(n)
     \/ \E n \in WindowTops : WriteWy(n)
  /\ UNCHANGED <<engine, in_step, history>>
-----------------------------------------------------------------------------
(* The PPU in its surroundings.  Between two calls of ppu_step the program  *)
(* writes the registers, and anything may happen to the interrupt registers *)
(* and to HALT.                                                             *)
Elsewhere ==
  /\ ~in_step
  /\ if_reg' \in OtherValues
  /\ ie' \in OtherValues
  /\ halt' \in BOOLEAN
  /\ UNCHANGED ppuVars

Init == PpuInit /\ if_reg = {VBLANK, 5, 6, 7} /\ ie = {} /\ halt = FALSE

StartOff  == StepOff /\ RequestInterrupts(OffRaises) /\ UNCHANGED ie
StartOn   == (\E c \in StepCycles : StepOn(c)) /\ UNCHANGED <<if_reg, ie, halt>>
LoopStep  == Passage /\ UNCHANGED ie
WriteStep == Write /\ RequestAwake({}) /\ UNCHANGED ie

Next == StartOff \/ StartOn \/ LoopStep \/ WriteStep \/ Elsewhere

Spec == Init /\ [][Next]_vars

(* main calls ppu_step after every step of the CPU. *)
FairSpec == Spec /\ WF_vars(StartOff \/ StartOn) /\ WF_vars(LoopStep)
-----------------------------------------------------------------------------
TypeOK ==
  /\ lcd_on \in BOOLEAN
  /\ window_on \in BOOLEAN
  /\ wy \in Nat
  /\ lyc \in Nat
  /\ ly \in 0 .. TotalLines - 1
  /\ stat_mode \in 0 .. 3
  /\ lyc_flag \in BOOLEAN
  /\ stat_enables \in SUBSET StatSources
  /\ ppu_mode \in 0 .. 3
  /\ ppu_dots \in Nat
  /\ stat_irq_line \in BOOLEAN
  /\ window_line \in Nat
  /\ in_step \in BOOLEAN
  /\ drawn \in SUBSET (0 .. Lines - 1)
  /\ whole \in BOOLEAN
  /\ vblanks \in Nat
  /\ if_reg \in SUBSET Bits
  /\ ie \in SUBSET Bits
  /\ halt \in BOOLEAN

(* Between two calls of ppu_step the mode is the one the position on the    *)
(* screen calls for, however many boundaries the last step crossed, and no  *)
(* dot is left over from a line that ended.  The exception is the line that *)
(* an LCD that was switched on starts with: it stays in mode 0.             *)
ModeAt(dots) == IF dots < OamDots THEN 2 ELSE IF dots < DrawDots THEN 3 ELSE 0

ModeFollowsPosition ==
  ~in_step =>
    /\ ppu_dots < LineDots
    /\ ly >= Lines <=> ppu_mode = 1
    /\ ly < Lines /\ (whole \/ ly > 0) => ppu_mode = ModeAt(ppu_dots)

(* The loop of ppu_step has an exit from every state: it has none in mode 1 *)
(* above the last rendered line, and none without a mode it knows.          *)
LoopHasExit == ppu_mode = 1 => ly >= Lines

(* As long as the LCD is on, a frame renders each of its scanlines, in      *)
(* order, before the next one begins: what is drawn is all above the beam.  *)
FrameComplete ==
  whole => drawn = IF ppu_mode = 2 \/ ly >= Lines
                   THEN {n \in 0 .. Lines - 1 : n < ly}
                   ELSE 0 .. ly

(* A frame requests the VBlank interrupt exactly once, when its VBlank      *)
(* begins, even if the LCD is switched off and on in between.               *)
VBlankOnce == vblanks = IF ppu_mode = 1 THEN 1 ELSE 0

(* The window never reads past the lines of its tile map: it takes at most  *)
(* one line of its own for each scanline, whatever the program does to      *)
(* LCDC, WX and WY in the middle of a frame.                                *)
WindowLineBounded ==
  window_line <= IF ly >= Lines THEN Lines
                 ELSE IF ppu_mode = 2 THEN ly ELSE ly + 1

(* A call of ppu_step returns. *)
LoopEnds == in_step ~> ~in_step

(* An LCD that stays on shows frame after frame. *)
FramesForever == <>[]lcd_on => []<>(ly = 0) /\ []<>(ly >= Lines)

(* An LYC the program leaves alone matches once in every frame if it is the *)
(* number of a line, line 0 included, which begins by another path.         *)
LycComesRound ==
  \A n \in 0 .. TotalLines - 1 :
    <>[](lcd_on /\ lyc = n) => []<>(lyc_flag /\ ly = n) /\ []<>~lyc_flag

(* The PPU is off once ppu_step has run with the LCD off. *)
TurnedOff == ~lcd_on /\ ~whole /\ ly = 0 /\ ppu_dots = 0 /\ ppu_mode = 0

(* A power check that finds the LCD off turns the PPU off: from then on it  *)
(* requests no interrupt.                                                   *)
OffIsQuiet == [][TurnedOff /\ StartOff => if_reg' = if_reg]_vars
=============================================================================
