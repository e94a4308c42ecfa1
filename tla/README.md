# Specifications of the Game Boy emulator

TLA+ models of the emulator in `src/`, the TLC runs that check them on small
instances, and proofs of their main properties that TLAPS checks for every
value of the constants. `PROJECT.json` holds the same information as data: the
runs, the source lines each definition translates, the hazards, the mutants
that show each property can fail, and the theorems.

    tlc -config Cpu.cfg MCCpu          # one run
    tlapm CpuProofs.tla                # one module of proofs

## 1. The system

The emulator runs on one thread. `emulator/main.cpp` loops: it polls the
window's events, calls `cpu_step` for one step of the CPU, lets `emu_cycles`
run the timer for each tick that step took and OAM DMA for every fourth tick,
calls `ppu_step` with all the ticks at once, and updates the window each time
70224 ticks have passed. There are no locks and no callbacks, and nothing is
persisted. What is hard is the interleaving inside that loop: the components
share IF (`io.if_reg`), IE (`ram.ie`) and `cpu.halt`; one instruction may
write a register of any component, which can itself raise an interrupt; a
component then catches up with a varying number of ticks and may cross several
of its own boundaries.

| Component | Source | State | Operations | Correct if |
|---|---|---|---|---|
| Interrupt logic | `interrupt.cpp`, `interrupt.h`, `stack.cpp` | IF, IE, `cpu.ime`, `ime_pending`, `halt`, PC, stack | `request_interrupt`, `cpu_handle_interrupts`, EI, DI, RETI, HALT | lowest enabled request first, master enable off in the handler, no request lost, HALT ends |
| CPU stepping | `cpu.cpp`, `cpu_proc.cpp` | the same, and registers | `cpu_step` | one step is a delivery, an idle step or an instruction, and never two of them |
| Instruction set | `cpu_proc.cpp`, `cpu_utils.cpp`, `cpu_instructions.cpp` | registers, flags, the stack | `decode`, one function for each mnemonic | the instructions of a program work together: carries, branches, the stack; cycles cover the bytes moved |
| Timer | `timer.cpp` | counter, TIMA, TMA, TAC, the edge latch | `timer_tick`, `timer_write` | TIMA counts each falling edge once; an overflow reloads and requests |
| PPU scanline engine | `ppu.cpp` | mode, dots, LY, LYC flag, STAT line, window line | `ppu_step`, writes to LCDC, STAT, LYC, WY | mode follows position, frames are complete, one VBlank a frame, the loop returns |
| PPU rendering | `ppu.cpp` | the screen, the sprites found | `get_sprites`, `render_scanline` | ten sprites of the line in order, the front one shows, sprites are shown whole, nothing stale |
| OAM DMA | `dma.cpp` | active, byte, page, start delay | `dma_start`, `dma_tick` | the last transfer copies its whole page in a fixed time |
| Main loop | `main.cpp`, `emu.cpp`, `ui.cpp` | `ticks`, `frame_cycles`, `die` | the loop, `emu_cycles`, events, update | components see only what they share; whole frames are shown; closing the window ends it |
| Cartridge | `cart.cpp` | bank registers, RAM, clock, its latch | `cart_load`, `cart_read`, `cart_write` | every bank in reach; RAM and clock kept apart |
| Joypad and I/O registers | `io.cpp` | the button matrix, the serial port, plain registers | `io_read`, `io_write`, key events | the program sees the buttons the player holds; register writes reach their component |
| Bus and RAM | `bus.cpp`, `ram.cpp` | WRAM, HRAM, VRAM, OAM | `bus_read`, `bus_write` | each address decodes to one owner |
| Window, palette, keyboard | `ui.cpp` | SDL objects, the queue of events | draw, map keys | every key event reaches its button in order |
| Instruction log | `cpu.cpp` | a file | formatted output | not part of the behaviour |

## 2. The modules

| Module | Models | Shape |
|---|---|---|
| `Interrupt` | IF, IE and `cpu.halt`, which every component shares | operators only: what a request does, what is pending, what is delivered first |
| `IrqContract` | what the interrupt logic promises | abstract specification |
| `Cpu` | `cpu_step` | one action for each way through it; implements `IrqContract` |
| `TimerContract` | a counter, and TIMA counting the falls of one signal | abstract specification, without a latch |
| `Timer` | `timer.cpp` | one action for each operation; implements `TimerContract` |
| `LineContract` | the order in which `ppu_step` calls `get_sprites` and `render_scanline` | abstract specification, implemented by `Ppu` and by `Render` |
| `Ppu` | `ppu_step` and the register writes | one action for each passage of its loop |
| `Dma` | `dma.cpp` and what the program does to its source and target | one action for each path of `dma_tick` |
| `CartContract` | stores that are in view one at a time, and a snapshot of the clock | abstract specification |
| `Cart` | the controllers of `cart.cpp` | registers as a record, writes as functions of it; implements `CartContract` |
| `Emulator` | the loop of `main.cpp` | composes `Cpu`, `Timer`, `Ppu` and `Dma` by INSTANCE |
| `Alu` | arithmetic, logic, rotations and their flags | operators only: a result and flags from operands and flags |
| `Decode` | `cpu_instructions.cpp` | operators only: the instruction of each of 512 opcodes |
| `Instructions` | the `execute_` functions | one action for each function or family of them, over `Alu` and `Decode` |
| `Render` | `get_sprites`, `render_scanline`, and the writes that come between them | the drawing as operators, the order of steps as actions |
| `Io` | P1 and the buttons, the queue of key events, the serial port and its reader in `cpu_step` | player, event loop and program as actions |
| `MC*` | the instances TLC checks | constants only |
| `*Proofs` | theorems about `Cpu`, `Ppu`, `Cart`, `Io`, `Render` and `Emulator`; `DeviceProofs` about `Timer` and `Dma`, `InstructionsProofs` about `Instructions` and `Alu` | proofs only |

Names of variables are those of the code. Operators whose name says they are a
mutant are changed forms of the definition that follows them, each a plausible
mistake; `PROJECT.json` says which property rejects which mutant.

### Cpu
`ime` and `ime_pending` are the two flags of `cpu_context`; `Ime` is the master
enable after the head of `cpu_step` has applied the latch. `enabling_ime` is
false between two calls (`cpu.cpp:101,106,354`) and is folded into the action
`Ei`. `Dispatch(i)` is the path on which `cpu_handle_interrupts` returns 20;
`HaltedStep` is the four cycles of HALT at the end of `cpu_step`; the other
actions of `Step` are instructions. The program is not fixed: any instruction may
come next and may go to any address of `Code`. An instruction that touches none
of the interrupt state is `Plain`. A program may call and enable interrupts only while
it has room on its stack (`HasRoom`); without that assumption no bound holds on
any machine. The first instruction of a handler is reached by delivery only
(`CodeAssumption`), which is what makes "a handler starts masked" a property.

### Timer
TAC is the pair of its fields. `Mask` is the table of `get_system_bit_mask`.
Each operation is an action on the registers and an operator `...Raises` with
the interrupts it requests, so that `Emulator` can join the request to the
instruction or tick that caused it.

### Ppu
`StepOff` and `StepOn` are the entry of `ppu_step`; `in_step` is true while its
loop runs; each passage of the loop is an action, and `Break` leaves it. Rendering a
line is abstracted to `Rendered`. A call of `update_stat_irq` requests an
interrupt when the line rises. The paths of the code that call it twice, once
with an intermediate LYC flag, keep both (`NewFrameRaises`, `NextLineRaises`).
`drawn`, `whole` and `vblanks` are history for the properties.

### Dma
A page is abstracted to its contents as a whole, and byte k of a page knows the
page and k, so that a byte copied to the wrong place or from another page is seen.
`disturbed` is the history of the bytes the program itself changed.

### Cart
An address is its 4 KB block: no test of the controllers is finer. Registers have
their real widths and ROM sizes are the real ones. `Write` gives the registers after
a write below 0x8000; `LowBank`, `HighBank` and `InView` say what the registers
show. The contract is refined through `InView`. Reads change nothing in the
code, so there is no action for them.

### Emulator
`phase` is the program counter of `main`: `events`, `cpu`, `tick`, `ppu`,
`frame`, `update`, `show`, `exit`. The player may press a key or close the
window whenever events are polled, which is twice in a round that updates the
window. `cpu_step`, each tick, and each passage of the PPU's loop are atomic
steps, which is finer than any component can observe. `paused` is never set in
the code, so the branch for it is left out. What the program does is chosen with
it: `program` is one of `Programs`, a set of kinds of instruction.

### Alu, Decode and Instructions
`Alu` keeps the flags as a record of four Booleans; the low nibble of F, which the
code always clears, does not exist. `Decode` writes the table of the code by the
fields of an opcode; an opcode after the prefix 0xCB is 256 more. An
`execute_` function is an action of `Instructions` with the opcode and the
bytes behind it as parameters. Functions of one shape share an action: the
eight operations on A, the rotations of A, the operations behind the prefix. A
bench is a machine and a listing, the opcodes that may come at each step; the
bytes behind an opcode are any of `operands`, and where they are fetched from is
left out. Memory is a part of RAM, echo included; an address of another component
is not reached. `done` and `pushed` are history: the last arithmetic whose flags
are still valid, and the words on the stack that nothing has disturbed.

### Render
`Ppu` says when a line is scanned and drawn; `Render` says what that does.
A pixel is the palette register and the colour number it was looked up with.
The two loops, over OAM in `get_sprites` and over the sprites found in
`render_scanline`, are the recursive functions `Scan` and `Layers`.
Video memory is one picture, given by `TileData` and `TileMaps`; LCDC, the
positions and OAM are written at any moment between the scan of a line, its drawing and
the next scan. `OffAndOn` is the LCD switched off and on, after which line 0 is
not drawn and the sprites found stay as they were. `rendered` is history: the
sprites and the background bit each line was last drawn with, and the rows of
tiles that were fetched for it (`FetchedRows`). What a sprite should look like is
defined beside the properties (`PictureRows`), without the scan or the drawing.

### Io
`events` is SDL's queue; `handling` is true while `ui_handle_events` runs.
P1 is the set of its bits that are 1. `WatchSerial` is the head of `cpu_step`,
which reads SB and SC before the instruction executes. `down`, `console`, `pad`
and `polled` are history: what the player holds, what was printed, what a
program that polls P1 knows, and the groups of which that is valid. A program may read
the actions with both groups selected, since `io_read` then shows them alone.

## 3. The runs

| Run | Question | Bounds |
|---|---|---|
| `cpu` | Does `cpu_step` keep the interrupt contract with nested handlers, and does HALT always end? | 2 addresses, stack of 2, 3 values for IF and IE |
| `timer` | Is every edge counted once, whoever makes it; are the rates right; does it go on for ever? | 4 bit counter with all four clocks, TIMA modulo 3 |
| `ppu` | Are frames complete whatever the program writes between two steps, and does the loop return? | 2 rendered lines, 2 of VBlank, lines of 7 dots, steps of 1 or 2 |
| `dma` | Does the last of several transfers copy its page in its time? | OAM of 3 bytes, 2 pages, 2 contents |
| `cart` | Is each bank in reach from every state, and are RAM and clock kept? | 6 cartridges, 6 written bytes, 2 data bytes |
| `emu` | Do the components keep their specifications inside the loop; is HALT woken by VBlank and by the timer, does a transfer end, is the window updated between frames, does closing it end the process? | 1 + 1 lines of 6 dots, steps of 2 or 4, five kinds of program |
| `instr` | Do the instructions of short programs work together: decimal and word arithmetic, branches after comparisons, the stack? Does each opcode take its time? | all 512 opcodes; all pairs of two decimal digits; edge values for the others |
| `render` | Are the right sprites found and shown whole, is the front one shown, and does anything stale show, whatever is written between scan and drawing? | 4 x 2 pixels, tiles of 2 x 2, 3 sprites of which 2 fit, 2 writes in a frame |
| `io` | Does the machine hold what the player holds, quit or not, and does the program see it through P1? | 3 keys, 2 events in the queue |

Three more runs each show a place where the code does something else than a
comment says; see section 6.

Why the bounds are enough. *Cpu*: two addresses tell a return to the wrong place
from the right one; a depth of two is the first at which a handler nests; the
values of IF hold two sources of different priority and a bit that can wake but
not be delivered. *Timer*: the counter has one bit for each clock, as the
real one, so every switch between two clocks, wrap and reset occurs with the signal high
and low; TIMA has a value that is neither the first nor the last. *Ppu*: the
first, last and VBlank lines differ; LYC takes one of each kind; steps straddle
each boundary at each offset. The longest step of the CPU, 24 ticks, is shorter than the shortest phase,
80 dots; the instance keeps that order with 2 and 2. The theorems about `Ppu` do
not need it, those about `Emulator` do (`StepAssumption`). *Dma*: first, middle and last byte, and a transfer given up at each. *Cart*: real sizes; the bytes
have each field at zero, in the middle and at its limit. *Emulator*: each of the
five programs brings a few kinds of instruction into play, since all together
are out of TLC's reach; each kind is in at least one. The one with HALT and the timer may
switch the LCD off, which leaves the timer alone to wake the CPU. Two tick rates (DMA, CPU)
stay different and a frame keeps a rendered and a VBlank line. *Instructions*: the
benches for decimal arithmetic are complete; a chain of bytes needs
two, and the bytes are those at which a carry or half carry changes; the stack
lies in the middle of work RAM, across 0, across the end of echo RAM and behind OAM.
*Render*: with two of three sprites on a line the limit bites, sprites
share an x, lie beside the screen and above it; a tall sprite has both its tiles and
is met in its lower half by a change of height; two
writes are enough to change LCDC between a scan and its drawing and to turn
the background off and on. *Io*: a key of each half and one without a button; two
events are enough for a press and a release to wait together.

Nothing in the models counts without limit except histories: `calls` of `Dma`
ends with its transfer, `window_line` and `vblanks` of `Ppu` are bounded by
invariants, and `stack` by the program's room.

Deadlock is checked in every run. A closed emulator is not a deadlock:
`Exited` stutters.

### Fairness
`main` is a plain loop on one thread, so the only thing assumed of the
scheduling is that the process runs.
- `Cpu`: `WF_vars(Step)`, because `main` calls `cpu_step` in every round. Nothing is
  assumed of devices or of the player: `HaltEnds` is about a request that
  already exists.
- `Timer`: `WF_vars(TickStep)`, because `emu_cycles` ticks after every step, idle or not.
- `Ppu`: `WF_vars(StartOff \/ StartOn)` and `WF_vars(LoopStep)`: `ppu_step` is
  called after every step, and its loop runs.
- `Emulator`: one condition, `WF_vars(Main)`. In particular the fairness the
  components assume when checked alone is not assumed again: `HaltIsWoken` and
  `TransferEnds` show that the loop provides it. It also excludes a player who presses keys
  without end inside one poll of the events, as SDL's queue does.
- `Dma`, `Cart`, `Instructions`, `Render` and `Io` state safety only.

### Properties worth a remark
- `ContractKept` (Cpu, Timer, Cart) is refinement: each step of the component is a step
  of the abstract specification or a stutter, under the mapping in the module.
- `ComponentsKept` (Emulator) is the composition: projected to its own
  variables, the loop is a behaviour of each component with "anything may happen
  to IF, IE and HALT" as its surroundings. It is why the runs and theorems of
  the components hold inside the emulator.
- `FrameAligned` holds for programs that leave the LCD on. It does not hold otherwise:
  after the LCD was off, the count of `main` and the beam stay apart
  and the window may show parts of two frames. The code has no claim to the contrary,
  so this is a condition of the property, not a finding.
- `ModeFollowsPosition` and `FrameComplete` leave out the first line after
  the LCD is switched on, which stays in mode 0 until its end (`ppu.cpp:59`),
  unlike the modes `README.md:50-52` of the repository gives for a line.
- `LycComesRound` says that a match comes, not that it comes at once: the flag
  of STAT is computed when LY or the mode change, so it is stale after a
  write to LYC (`io.cpp:219`) until then.
- `CarriesChain`, `BranchFollowsCompare` and `DecimalAdjust` are about
  sequences of instructions. What may stand between them is what the code leaves
  the flags alone in (`KeepsCarry`, `KeepsFlags`).
- `BytesTakeTime` is a lower bound only: it does not say that the cycles are
  those of the machine.
- `SpritesAreWhole` is about frames in which nothing is written: it takes the scan of
  a line, its drawing and the place at which a frame starts to agree. With writes in
  between a sprite may lose rows; `FrontmostWins` then says that what is drawn of it is
  of the picture its present height gives, and nothing where the line no longer
  crosses it (`ppu.cpp:299`).
- `SpritesOfTheLine` holds because of the scan at both places where mode 2 begins; the
  LCD switched off and on skips the drawing of line 0, so what was found before is never
  drawn.
- `HaltIsWoken` holds with the LCD off as well if the timer is enabled. There it is
  `OverflowsForever` of `Timer` inside the loop, without its fairness: no VBlank hides a
  timer that stands still in HALT.
- `KeysFollowed` covers the events that a quit leaves unread: the button of each key
  with none of them is right, and the process ends before the others matter. A key
  event that SDL drops, or a window that loses the keyboard while a key is held, is
  outside of the model.
- `PadAgrees` lets events come between the two reads of a program. What was read of a
  group stays valid until an event of one of its own buttons.

## 4. The proofs

All theorems are for every value of the constants that meets the named assumptions
of the modules: any stack, any set of addresses, any counter width of which each
mask is a bit, any geometry of the screen with its phases in order, any picture in
video memory, any size of OAM, any RAM and any program that runs in it. Every
invariant and every action property that a passing run checks is a theorem.

**Cpu** (`CpuProofs`). `CpuInv` joins the type, `StackBounded` and
`HandlerStartsMasked`. None suffices alone: a delivery keeps the stack bounded because
room was kept while the effective enable, latch included, was on; what it pushes
is an address of the program because a vector is masked. Steps that leave
the stack alone share `StraightStep`; delivery, calls and returns have a lemma
each. `ContractIsKept` then maps each action to an action of `IrqContract`.

**Timer** (`DeviceProofs`). `TimerInv` is the type and `LatchInSync`. With the
latch equal to the signal of the registers, each operation is the contract's
operation (`StepKeepsContract`), which gives `ContractIsKept`. A write to DIV
needs that a zero counter has no bit set (`ZeroIsLow`), a wrap of the counter that
each mask divides it (`MaskAssumption`). `RateIsKept` gives `CountsAtItsRate`: a bit is
set in the second half of each of its periods (`BitOfCount`), and a tick leaves its
period only for the start of the next, also where the counter wraps (`NextInPeriod`);
both rest on the uniqueness of quotient and remainder. `OverflowIsDue` gives
`OverflowsForever` its measure: `TicksLeft`, computed from the registers, goes down by
one with each tick, and the tick at which it is 1 is the one that overflows.

**Ppu** (`PpuProofs`). The six invariants of the run hold between two calls,
but the loop breaks some of what they rest on. `Position` is the strengthening: what each
mode has behind it, that LY can reach the last line only in mode 0 inside the loop,
and the mode 0 of the first line after the LCD was off. One lemma for each passage,
with one step for each conjunct. `LoopCountsDown` gives `LoopEnds` its measure: each
passage lowers `Turns`, which weighs the dots of the call and the mode, because a
passage either uses up dots or goes to a mode of smaller weight. `LinesAreInOrder` is refinement of
`LineContract`: a mode of 2 is a line that waits to be drawn, and the lines of VBlank
pass with the last line in hand.

**Dma** (`DeviceProofs`). `DmaInv` is the conjunction of the type, `CopiedSoFar` and
`TakesItsTime`: a copy lands inside OAM because `TakesItsTime` says so of a
transfer under way.

**Cart** (`CartProofs`). `CartInv` is the type and `ClockSelected`: a clock register
is selected whenever the clock is mapped, without which a write could miss the
registers it has. Each controller has a lemma that its writes keep the
widths. For the contract, `ViewIsStore` says that what is in view is a bank the
cartridge has or a register of the clock, and `WindowPuts` that a write changes
this store alone. `SelectionKeepsRom` rests on `UpperBitsCut`: in a ROM of at
most 32 banks the bits that an MBC1 shares with RAM are cut off. `BanksAreInReach` joins
the registers of a bank number for each controller (`SevenBits`, `NineBitsJoined`). It
assumes that no MBC1 has more than 128 banks, which is what its two registers can
number; the cartridges of the run meet that.

**Alu** (`InstructionsProofs`). Theorems about operators, for all operands: DAA turns each
sum and difference of decimal bytes into the decimal result (`DecimalSum`,
`DecimalDifference`, from one lemma for each direction of DAA that goes by the digits);
ADC and SBC complete sums and differences of words (`WordSum`,
`WordDifference`); ADD HL,rr is two additions by bytes (`WordsByBytes`);
RR undoes RL (`RotationsInvert`).

**Instructions** (`InstructionsProofs`). The history variables say what a program
did; the theorems need that the machine still agrees with them. `Remembers` says so of
the flags and of A: the carry is that of the last arithmetic as long as
only instructions of `KeepsCarry` followed (`Kept` goes through the switch of
`cpu_step` for that), the other flags and A as far as the history tells. With the
theorems about `Alu` it gives `DecimalAdjust`, `CarriesChain` and
`BranchFollowsCompare`. `OnStack` says it of the stack: the words pushed lie in memory
from SP upwards. A store of two bytes does not overwrite itself because neighbours
are different cells, also where the echo begins and SP wraps (`Neighbours`), and SP
comes back to where it was (`Around`); a word that is written over leaves
the history. Both need the widths, `Typed`, which needs of the decoder that
every one of the 512 opcodes names registers its execute function can
read (`AllFormed`, by the fields of the opcode). `BytesAlwaysTakeTime` compares, for each
type of instruction, the bytes it fetches (`Sized`, of the decoder) and moves (`Moved`)
with the cycles it returns (`EnoughTime`).

**Io** (`IoProofs`). `KeysFollowed` speaks of keys without events in the queue. Its
strengthening `QueueAgrees` speaks of each key: while events of it wait, the last of them
tells whether the key is held, and when none does, the button tells. Sending appends the new
last event; handling takes one out and, if it was the last of its key, moves what it tells to
the button. `PadAgrees` needs nothing but the types: an event changes the buttons of one group, and a
read of P1 shows the group it was meant for, whatever else is selected.

**Render** (`RenderProofs`). What the two loops compute needs induction over
their rounds. The induction theorem of the library takes an operator as a parameter, so
`SetInduction` is derived for a set instead, from the least element that `<` has in each
set of naturals; `Recursion` and `LoopInduction` then give the values and the
invariants of a loop. For the scan, `Collected` says of each round which sprites are taken:
the first of OAM that are on the line, as many as fit. `Sorted` says that the
ranks of the sort are places, each taken once, so that it loses none and
keeps the order of OAM among sprites that share an x. For the drawing, `LayersShow` says
after each round that a pixel shows the last sprite so far that covers it,
which is the first in priority since drawing goes backwards. `PictureTyped` says which row
of which tile the k-th row of a picture is, and `RowOfPicture` that the row the drawing
computes is the one at which the line crosses the picture. `ScanIsCurrent` ties the two
ends of a line together: as long as nothing is written, the sprites found are those that OAM
and the height still give, so that what is fetched for them is `SpritesAreWhole`
(`RowsFetched`). `RenderInv` joins the types, among
them that every look-up in tile maps and tile data is of one they have, with
`SpritesOfTheLine`, `NothingLeftBehind`, `ScanIsCurrent` and `SpritesAreWhole`; `FirstInOrder` and `FrontmostWins` follow
for each step. `LinesAreInOrder` refines the same `LineContract` as `Ppu`: since `Render` leaves
out the dots, this is what ties its order of steps to the order `ppu_step` has.

**Emulator** (`EmulatorProofs`). The proofs of the components are instances here (`CP`,
`TP`, `PP`), with the assumptions of each shown to follow from those of
`Emulator`. `ComponentsAreKept` goes through the actions of the loop: each is a step of
each component, or of its surroundings. `InvariantsCompose` and `ContractsCompose` then carry over
to the machine what was proved of each component alone. `LoopInv` says what
each phase of `main` has in hand. `FrameInv` is why `FrameAligned` and
`NoTearing` hold: while the LCD stays on, `frame_cycles` is the position of the beam, except
inside `ppu_step` and until `main` counts the ticks, when it is behind by these
ticks, modulo a frame. The window is updated only if the ticks of the last step crossed
the end of the frame, so that the beam is less than a step into line 0; this
needs `StepAssumption`, that no step is longer than the scan of OAM. In the code the longest
is CALL with 24 ticks and the scan takes 80 (`ppu.cpp:94`). `Work` counts the steps left in a round:
`RoundsEnd` says that every step of `main` lowers it until the next round begins, and
`QuitCountsDown` that after the window was closed no further round does.

Only checked by TLC: the liveness properties `HaltEnds`, `OverflowsForever`,
`LoopEnds`, `FramesForever`, `LycComesRound`, `HaltIsWoken`, `TransferEnds` and `QuitExits`,
since fairness and ENABLED are beyond the prover. For `OverflowsForever`, `LoopEnds` and
`QuitExits` the part that is not about fairness is proved, as the measures above.

## 5. What is not modelled

- *Where instructions are fetched from.* `Instructions` takes opcodes from a listing
  and the bytes behind them from a set; self-modifying code and code in echo RAM are not
  met.
- *Shades.* `palette_lookup` and the colours of the window are pure functions of a
  colour number and a register. Writes to video memory during a frame are
  left out of `Render`: they change a constant picture to another one.
- *Sound registers.* They are stored and read back and have no effect.
- *Dispatch of addresses over components.* `Instructions` has RAM in all its
  regions; the I/O registers are reached in the modules of their components, and
  `Emulator` lets an instruction write them directly.
- *Header parsing, file I/O, SDL, logging.* I/O; no state of the system depends
  on how they are written. A read of 0xA000 on a cartridge without controller
  lies past a 32 KB ROM; the model has no reads, so it says nothing of it.
- *Timing inside an instruction.* As in the code, an instruction takes effect at
  once and the other components catch up afterwards.

## 6. Where the code differs from what it says

1. `cpu_ei_delay`: `cpu.h:9` and `cpu_proc.cpp:936` say that EI takes effect after
   one instruction; `cpu_step` applies the latch before it tests for interrupts, so one is delivered
   in front of that instruction.
2. `ppu_off`: `ppu.cpp:58` says the PPU is turned off; each call with the LCD off
   enters mode 0 anew and forces the STAT line low afterwards, so with
   the HBlank source enabled each step requests another interrupt.
3. `serial`: `cpu.cpp:69` and `cpu.cpp:74` say that cpu_step watches serial output for
   "Passed" while bit 7 of SC is set; a program that prints writes 0x81, and `io_write`
   clears SC in the same call (`io.cpp:155-160`), so that nothing a program prints is
   ever seen.

## 7. Plan

Done: `Interrupt`, `Cpu`, `Timer`, `Ppu`, `Dma`, `Emulator`, `Cart`, in this order, because
the interrupt state is what all others share and what tests reach least; then
`Alu`, `Decode` and `Instructions`, `Render`, and `Io`.

Proved: every invariant, action property and refinement the runs check.

What could follow:
1. `Ppu` and `Render` in one machine, so that the pixels are drawn at the dots they are due;
   the two refinements of `LineContract` are the first half of it.
2. Measures for `FramesForever` and `TransferEnds`, as there are for the other loops.
3. The decoding of the header, and of I/O addresses, as pure functions.
