-------------------------------- MODULE Timer --------------------------------
(***************************************************************************)
(* lib/timer.cpp: the system counter whose upper byte is DIV, and TIMA,    *)
(* which counts the falling edges of "enable and selected counter bit".    *)
(* The code keeps the last value of that signal in prev_and_result.  Three *)
(* operations have to keep the latch right: the tick, a write to TAC and a *)
(* write to DIV.                                                           *)
(*                                                                         *)
(* timer.interrupt_pending is set by an overflow and read nowhere; it is   *)
(* left out.  TAC is the pair of fields the code extracts from it.         *)
(***************************************************************************)
EXTENDS Interrupt

CONSTANTS
  CounterMod,       \* 2^16: the counter is a uint16_t
  TimaMod,          \* 2^8: TIMA is a uint8_t
  PowerUpCount,     \* 0xABCC
  Mask,             \* get_system_bit_mask, by clock select
  OtherValues       \* the values the rest of the system gives IF and IE

ASSUME ModAssumption ==
  /\ CounterMod \in Nat \ {0}
  /\ TimaMod \in Nat \ {0}
  /\ PowerUpCount \in 0 .. CounterMod - 1

(* Every selected bit is a bit of the counter: twice its weight divides the *)
(* number of values the counter has.                                        *)
ASSUME MaskAssumption ==
  /\ DOMAIN Mask \subseteq Nat
  /\ 0 \in DOMAIN Mask
  /\ \A k \in DOMAIN Mask : Mask[k] \in Nat \ {0} /\ CounterMod % (2 * Mask[k]) = 0

ASSUME OtherAssumption == OtherValues \subseteq SUBSET Bits

VARIABLES
  counter,          \* timer.counter
  tima,             \* timer.tima
  tma,              \* timer.tma
  tac,              \* timer.tac: enable is bit 2, clock bits 0 and 1
  prev_and_result   \* the signal as the last operation left it

timerVars == <<counter, tima, tma, tac, prev_and_result>>
vars == <<if_reg, ie, halt, timerVars>>

Tacs == [enable : BOOLEAN, clock : DOMAIN Mask]
TimaValues == 0 .. TimaMod - 1

(* enable && (counter & get_system_bit_mask(tac)) *)
Signal(c, t) == t.enable /\ (c \div Mask[t.clock]) % 2 = 1

TimerInit ==
  /\ counter = PowerUpCount
  /\ tima = 0
  /\ tma = 0
  /\ tac = [enable |-> FALSE, clock |-> 0]
  /\ prev_and_result = FALSE

(* Mutant: an overflow restarts TIMA from zero. *)
TimaFromZero(falls) == IF falls THEN (tima + 1) % TimaMod ELSE tima

(* tima_increment, called when falls holds: the next TIMA, and the          *)
(* interrupts it requests.                                                  *)
TimaAfter(falls) ==
  CASE ~falls                        -> tima
    [] falls /\ tima = TimaMod - 1   -> tma
    [] falls /\ tima # TimaMod - 1   -> tima + 1

(* Mutant: the overflow is tested one count too late. *)
RaisedLate(falls) == IF falls /\ tima = TimaMod THEN {TIMER} ELSE {}

Raised(falls) == IF falls /\ tima = TimaMod - 1 THEN {TIMER} ELSE {}

(* Mutant: rising edges count. *)
RisesInstead(c, t) == ~prev_and_result /\ Signal(c, t)

(* The signal becomes that of counter value c and TAC value t. *)
Falls(c, t) == prev_and_result /\ ~Signal(c, t)
-----------------------------------------------------------------------------
(* timer_tick *)
TickCount == (counter + 1) % CounterMod

TickRaises == Raised(Falls(TickCount, tac))

Tick ==
  /\ counter' = TickCount
  /\ prev_and_result' = Signal(TickCount, tac)
  /\ tima' = TimaAfter(Falls(TickCount, tac))
  /\ UNCHANGED <<tma, tac>>

(* timer_write_tac *)
WriteTacRaises(t) == Raised(Falls(counter, t))

WriteTac(t) ==
  /\ tac' = t
  /\ prev_and_result' = Signal(counter, t)
  /\ tima' = TimaAfter(Falls(counter, t))
  /\ UNCHANGED <<counter, tma>>

(* timer_write_div: a zero counter has no bit set, so the latch is cleared. *)
WriteDivRaises == Raised(prev_and_result)

(* Mutant: the latch is forgotten. *)
WriteDivKeepsLatch ==
  /\ counter' = 0
  /\ tima' = TimaAfter(prev_and_result)
  /\ UNCHANGED <<tma, tac, prev_and_result>>

WriteDiv ==
  /\ counter' = 0
  /\ prev_and_result' = FALSE
  /\ tima' = TimaAfter(prev_and_result)
  /\ UNCHANGED <<tma, tac>>

WriteTima(v) ==
  /\ tima' = v
  /\ UNCHANGED <<counter, tma, tac, prev_and_result>>

WriteTma(v) ==
  /\ tma' = v
  /\ UNCHANGED <<counter, tima, tac, prev_and_result>>
-----------------------------------------------------------------------------
(* The timer in its surroundings.  The program writes the registers, and    *)
(* between two operations of the timer anything may happen to the interrupt *)
(* registers and to HALT.                                                   *)
TickStep     == Tick /\ RequestInterrupts(TickRaises) /\ UNCHANGED ie
WriteTacStep ==
  \E t \in Tacs : WriteTac(t) /\ RequestAwake(WriteTacRaises(t)) /\ UNCHANGED ie
WriteDivStep == WriteDiv /\ RequestAwake(WriteDivRaises) /\ UNCHANGED ie
LoadStep     ==
  /\ \E v \in TimaValues : WriteTima(v) \/ WriteTma(v)
  /\ RequestAwake({}) /\ UNCHANGED ie

Elsewhere ==
  /\ if_reg' \in OtherValues
  /\ ie' \in OtherValues
  /\ halt' \in BOOLEAN
  /\ UNCHANGED timerVars

Init ==
  /\ TimerInit
  /\ if_reg = {VBLANK, 5, 6, 7}
  /\ ie = {}
  /\ halt = FALSE

Next == TickStep \/ WriteTacStep \/ WriteDivStep \/ LoadStep \/ Elsewhere

Spec == Init /\ [][Next]_vars

(* emu_cycles ticks the timer after every step of the CPU, halted or not. *)
FairSpec == Spec /\ WF_vars(TickStep)
-----------------------------------------------------------------------------
TypeOK ==
  /\ counter \in 0 .. CounterMod - 1
  /\ tima \in TimaValues
  /\ tma \in TimaValues
  /\ tac \in Tacs
  /\ prev_and_result \in BOOLEAN
  /\ if_reg \in SUBSET Bits
  /\ ie \in SUBSET Bits
  /\ halt \in BOOLEAN

(* The latch always holds the signal of the registers as they are, so no    *)
(* edge is missed and none is counted twice, whichever operation came last. *)
LatchInSync == prev_and_result = Signal(counter, tac)

(* The timer with its latch keeps the promise of the timer without one:     *)
(* TIMA counts exactly the falls of the signal, by ticks, by writes to DIV  *)
(* and by writes to TAC, and a wrap always requests the interrupt.          *)
Contract ==
  INSTANCE TimerContract WITH
    count <- counter, requested <- if_reg, TimerBit <- TIMER
ContractKept == Contract!Spec

(* Left alone by the program, TIMA counts once every 2 * Mask ticks, in     *)
(* step with the system counter: the 4096, 262144, 65536 and 16384 Hz of    *)
(* get_system_bit_mask at 4194304 ticks a second.                           *)
CountsAtItsRate ==
  [][TickStep => (tima' # tima \/ TickRaises # {} <=>
        tac.enable /\ counter' % (2 * Mask[tac.clock]) = 0)]_vars

(* A timer that stays enabled and is left alone requests its interrupt      *)
(* again and again, even while the CPU sleeps and whatever the value of TMA *)
(* it reloads.                                                              *)
LeftAlone == <>[][TickStep \/ Elsewhere]_vars
OverflowsForever ==
  LeftAlone /\ <>[](tac.enable) => []<><<TickStep /\ TickRaises # {}>>_vars
=============================================================================
