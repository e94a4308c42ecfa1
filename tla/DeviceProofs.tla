---------------------------- MODULE DeviceProofs ----------------------------
(***************************************************************************)
(* Proofs about Timer and Dma, the devices that emu_cycles ticks, for any  *)
(* width of the counters, any choice of bits, any size of OAM, any start   *)
(* delay, any pages and any program.                                       *)
(*                                                                         *)
(* Timer: the latch in step with the registers is inductive together with  *)
(* the types, and it is what turns the comparison of the old latch with    *)
(* the new signal, in three places of the code, into the fall of one       *)
(* signal that TimerContract speaks of.                                    *)
(*                                                                         *)
(* Dma: that a copy lands inside OAM is what TakesItsTime says of a        *)
(* transfer under way, and that the bytes before it are still those of the *)
(* page is what CopiedSoFar says of it; DmaInv is inductive.               *)
(***************************************************************************)
EXTENDS Timer, Dma, TLAPS

TimerInv == TypeOK /\ LatchInSync

(* The signal is high or low.                                               *)
LEMMA SignalIsBoolean ==
  ASSUME NEW c, NEW t \in Tacs
  PROVE  Signal(c, t) \in BOOLEAN
  BY DEF Signal, Tacs

(* A zero counter has no bit set. *)
LEMMA ZeroIsLow ==
  ASSUME NEW t \in Tacs
  PROVE  Signal(0, t) = FALSE
PROOF
  <1>1. Mask[t.clock] \in Nat \ {0}
    BY MaskAssumption DEF Tacs
  <1>2. 0 \div Mask[t.clock] = 0
    BY <1>1
  <1> QED
    BY <1>2 DEF Signal

(* The system counter wraps within its width.                               *)
LEMMA CountWraps ==
  ASSUME NEW c \in 0 .. CounterMod - 1
  PROVE  (c + 1) % CounterMod \in 0 .. CounterMod - 1
  BY ModAssumption

(* TIMA wraps to TMA and so keeps its width.                                *)
LEMMA TimaStaysByte ==
  ASSUME TypeOK, NEW falls \in BOOLEAN
  PROVE  TimaAfter(falls) \in TimaValues
  BY ModAssumption DEF TypeOK, TimaAfter, TimaValues

(* What the timer requests is a bit of IF.                                  *)
LEMMA RaisesTimerOnly ==
  ASSUME TypeOK, NEW falls
  PROVE  if_reg \cup Raised(falls) \in SUBSET Bits
  BY DEF TypeOK, Raised, Bits, TIMER
-----------------------------------------------------------------------------
(* The timer is disabled at power up, and so its signal is low.             *)
LEMMA InitInv == Init => TimerInv
PROOF
  <1> SUFFICES ASSUME Init PROVE TimerInv
    OBVIOUS
  <1> USE DEF Init, TimerInit
  <1>1. if_reg \in SUBSET Bits
    BY DEF Bits, VBLANK
  <1>2. tima \in TimaValues /\ tma \in TimaValues
    BY ModAssumption DEF TimaValues
  <1>3. tac \in Tacs
    BY MaskAssumption DEF Tacs
  <1>4. TypeOK
    BY <1>1, <1>2, <1>3, ModAssumption DEF TypeOK
  <1>5. LatchInSync
    BY DEF LatchInSync, Signal
  <1> QED
    BY <1>4, <1>5 DEF TimerInv

(* Tick, write to TAC and write to DIV each leave the latch with the signal. *)
LEMMA NextInv == TimerInv /\ [Next]_vars => TimerInv'
PROOF
  <1> SUFFICES ASSUME TimerInv, [Next]_vars PROVE TimerInv'
    OBVIOUS
  <1> USE DEF TimerInv
  <1>1. CASE TickStep
    <2>1. TickCount \in 0 .. CounterMod - 1
      BY CountWraps DEF TickCount, TypeOK
    <2>2. Signal(TickCount, tac) \in BOOLEAN
      BY SignalIsBoolean DEF TypeOK
    <2>3. TimaAfter(Falls(TickCount, tac)) \in TimaValues
      BY <2>2, TimaStaysByte DEF Falls, TypeOK
    <2>4. TypeOK'
      BY <1>1, <2>1, <2>2, <2>3, RaisesTimerOnly
      DEF TypeOK, TickStep, Tick, TickRaises, RequestInterrupts
    <2>5. LatchInSync'
      BY <1>1 DEF TickStep, Tick, LatchInSync, Signal
    <2> QED
      BY <2>4, <2>5
  <1>2. CASE WriteTacStep
    <2>1. PICK t \in Tacs : WriteTac(t) /\ RequestAwake(WriteTacRaises(t)) /\ UNCHANGED ie
      BY <1>2 DEF WriteTacStep
    <2>2. Signal(counter, t) \in BOOLEAN
      BY SignalIsBoolean
    <2>3. TimaAfter(Falls(counter, t)) \in TimaValues
      BY <2>2, TimaStaysByte DEF Falls, TypeOK
    <2>4. TypeOK'
      BY <2>1, <2>2, <2>3, RaisesTimerOnly
      DEF TypeOK, WriteTac, WriteTacRaises, RequestAwake
    <2>5. LatchInSync'
      BY <2>1 DEF WriteTac, LatchInSync, Signal
    <2> QED
      BY <2>4, <2>5
  <1>3. CASE WriteDivStep
    <2>1. TimaAfter(prev_and_result) \in TimaValues
      BY TimaStaysByte DEF TypeOK
    <2>2. TypeOK'
      <3>1. counter' \in 0 .. CounterMod - 1
        BY <1>3, ModAssumption DEF WriteDivStep, WriteDiv
      <3>2. if_reg' \in SUBSET Bits /\ halt' = FALSE
        BY <1>3, RaisesTimerOnly DEF WriteDivStep, WriteDivRaises, RequestAwake
      <3> QED
        BY <1>3, <2>1, <3>1, <3>2 DEF TypeOK, WriteDivStep, WriteDiv
    <2>3. Signal(0, tac) = FALSE
      BY ZeroIsLow DEF TypeOK
    <2>4. LatchInSync'
      BY <1>3, <2>3 DEF WriteDivStep, WriteDiv, LatchInSync, Signal
    <2> QED
      BY <2>2, <2>4
  <1>4. CASE LoadStep
    BY <1>4 DEF LoadStep, WriteTima, WriteTma, RequestAwake, TypeOK, LatchInSync, Signal
  <1>5. CASE Elsewhere
    BY <1>5, OtherAssumption DEF Elsewhere, timerVars, TypeOK, LatchInSync, Signal
  <1>6. CASE UNCHANGED vars
    BY <1>6 DEF vars, timerVars, TypeOK, LatchInSync, Signal
  <1> QED
    BY <1>1, <1>2, <1>3, <1>4, <1>5, <1>6 DEF Next

(* The types of the timer hold and its latch is in step, always.            *)
THEOREM Invariance == Spec => []TimerInv
PROOF
  <1> QED
    BY InitInv, NextInv, PTL DEF Spec

(* The registers of the timer keep their widths: TypeOK of Timer.           *)
THEOREM TypeCorrect == Spec => []TypeOK
PROOF
  <1>1. TimerInv => TypeOK
    BY DEF TimerInv
  <1> QED
    BY <1>1, Invariance, PTL

(* prev_and_result is the signal, after every operation of the timer.       *)
THEOREM LatchStaysInSync == Spec => []LatchInSync
PROOF
  <1>1. TimerInv => LatchInSync
    BY DEF TimerInv
  <1> QED
    BY <1>1, Invariance, PTL
-----------------------------------------------------------------------------
(* Under the invariant, a fall in the code is a fall of the contract.       *)
LEMMA SignalIsTheContracts == LatchInSync => (prev_and_result <=> Contract!Signal)
  BY DEF LatchInSync, Signal, Contract!Signal

(* The comparison of old latch and new signal counts what the contract counts. *)
LEMMA CountFallOf ==
  ASSUME TypeOK, LatchInSync, NEW falls \in BOOLEAN,
         falls <=> Contract!Signal /\ ~Contract!Signal',
         tima' = TimaAfter(falls), if_reg' = if_reg \cup Raised(falls), tma' = tma
  PROVE  Contract!CountFall
  BY DEF TimaAfter, Raised, Contract!CountFall, Contract!Increment

(* Every operation of the timer is one of the contract, or a stutter.       *)
LEMMA StepKeepsContract ==
  ASSUME TimerInv, Next
  PROVE  Contract!Next
PROOF
  <1> USE DEF TimerInv
  <1>1. CASE TickStep
    <2> DEFINE falls == Falls(TickCount, tac)
    <2>1. Contract!Signal' = Signal(TickCount, tac)
      BY <1>1 DEF TickStep, Tick, Contract!Signal, Signal
    <2>2. falls \in BOOLEAN /\ (falls <=> Contract!Signal /\ ~Contract!Signal')
      BY <2>1, SignalIsTheContracts, SignalIsBoolean DEF Falls, TypeOK
    <2>3. Contract!CountFall
      BY <1>1, <2>2, CountFallOf DEF TickStep, Tick, TickRaises, RequestInterrupts
    <2> QED
      BY <1>1, <2>3 DEF TickStep, Tick, TickCount, Contract!Next, Contract!Pass
  <1>2. CASE WriteTacStep
    <2>1. PICK t \in Tacs : WriteTac(t) /\ RequestAwake(WriteTacRaises(t)) /\ UNCHANGED ie
      BY <1>2 DEF WriteTacStep
    <2> DEFINE falls == Falls(counter, t)
    <2>2. Contract!Signal' = Signal(counter, t)
      BY <2>1 DEF WriteTac, Contract!Signal, Signal
    <2>3. falls \in BOOLEAN /\ (falls <=> Contract!Signal /\ ~Contract!Signal')
      BY <2>2, SignalIsTheContracts, SignalIsBoolean DEF Falls, TypeOK
    <2>4. Contract!CountFall
      BY <2>1, <2>3, CountFallOf DEF WriteTac, WriteTacRaises, RequestAwake
    <2> QED
      BY <2>1, <2>4 DEF WriteTac, Tacs, Contract!Tacs, Contract!Next, Contract!Select
  <1>3. CASE WriteDivStep
    <2>1. Contract!Signal' = FALSE
      BY <1>3, ZeroIsLow DEF TypeOK, WriteDivStep, WriteDiv, Contract!Signal, Signal
    <2>2. prev_and_result <=> Contract!Signal /\ ~Contract!Signal'
      BY <2>1, SignalIsTheContracts
    <2>3. Contract!CountFall
      BY <1>3, <2>2, CountFallOf
      DEF TypeOK, WriteDivStep, WriteDiv, WriteDivRaises, RequestAwake
    <2> QED
      BY <1>3, <2>3 DEF WriteDivStep, WriteDiv, Contract!Next, Contract!Reset
  <1>4. CASE LoadStep
    <2>1. Contract!Load
      BY <1>4 DEF LoadStep, WriteTima, WriteTma, RequestAwake, TimaValues, Contract!Load
    <2> QED
      BY <2>1 DEF Contract!Next
  <1>5. CASE Elsewhere
    BY <1>5 DEF Elsewhere, timerVars, Contract!Next, Contract!Elsewhere
  <1> QED
    BY <1>1, <1>2, <1>3, <1>4, <1>5 DEF Next

(* The timer with its latch implements the timer whose TIMA counts the      *)
(* falls of a signal, and so misses no fall and counts none twice.          *)
THEOREM ContractIsKept == Spec => ContractKept
PROOF
  <1>1. Init => Contract!Init
    BY ModAssumption, MaskAssumption DEF Init, TimerInit, Contract!Init, Contract!Tacs
  <1>2. TimerInv /\ [Next]_vars => [Contract!Next]_(Contract!vars)
    <2> SUFFICES ASSUME TimerInv, [Next]_vars PROVE [Contract!Next]_(Contract!vars)
      OBVIOUS
    <2>1. CASE Next
      BY <2>1, StepKeepsContract
    <2>2. CASE UNCHANGED vars
      BY <2>2 DEF vars, timerVars, Contract!vars
    <2> QED
      BY <2>1, <2>2
  <1> QED
    BY <1>1, <1>2, Invariance, PTL DEF Spec, ContractKept, Contract!Spec
-----------------------------------------------------------------------------
(* A count is a multiple of the period and what is left over.               *)
LEMMA Division ==
  ASSUME NEW m \in Nat \ {0}, NEW c \in Nat
  PROVE  c \div m \in Nat /\ c % m \in 0 .. m - 1 /\ c = m * (c \div m) + (c % m)
  OBVIOUS

(* Multiples of m lie at least m apart.                                     *)
LEMMA MultiplesApart ==
  ASSUME NEW m \in Nat, NEW a \in Nat, NEW b \in Nat, a < b
  PROVE  m * a + m <= m * b
PROOF
  <1>1. m * b = m * a + m * (b - a)
    OBVIOUS
  <1>2. b - a >= 1
    OBVIOUS
  <1>3. m * (b - a) >= m
    BY <1>2
  <1> QED
    BY <1>1, <1>3

(* There is one way to write a count as a multiple and what is left over.   *)
LEMMA DivisionUnique ==
  ASSUME NEW m \in Nat \ {0}, NEW q \in Nat, NEW r \in 0 .. m - 1,
         NEW c \in Nat, c = m * q + r
  PROVE  c \div m = q /\ c % m = r
PROOF
  <1> DEFINE p == c \div m
             s == c % m
  <1>1. p \in Nat /\ s \in 0 .. m - 1 /\ c = m * p + s
    BY Division
  <1> HIDE DEF p, s
  <1>2. p = q
    <2>1. ~(p < q)
      <3>1. p < q => m * p + m <= m * q
        BY <1>1, MultiplesApart
      <3>2. m * p \in Nat /\ m * q \in Nat
        BY <1>1
      <3> QED
        BY <1>1, <3>1, <3>2
    <2>2. ~(q < p)
      <3>1. q < p => m * q + m <= m * p
        BY <1>1, MultiplesApart
      <3>2. m * p \in Nat /\ m * q \in Nat
        BY <1>1
      <3> QED
        BY <1>1, <3>1, <3>2
    <2> QED
      BY <1>1, <2>1, <2>2
  <1>3. s = r
    BY <1>1, <1>2
  <1> QED
    BY <1>2, <1>3 DEF p, s

(* Inside a period, one more count leaves one more over.                    *)
LEMMA OneMore ==
  ASSUME NEW n \in Nat \ {0}, NEW q \in Nat, NEW r \in 0 .. n - 1, r < n - 1,
         NEW c \in Nat, c = n * q + r
  PROVE  (c + 1) % n = r + 1
PROOF
  <1> DEFINE d == c + 1
             s == r + 1
  <1>1. n * q \in Nat
    OBVIOUS
  <1>2. d \in Nat /\ s \in 0 .. n - 1 /\ d = n * q + s
    BY <1>1
  <1> HIDE DEF d, s
  <1>3. d % n = s
    BY <1>2, DivisionUnique
  <1> QED
    BY <1>3 DEF d, s

(* The bit of weight m is set in the second half of each period of 2 * m.   *)
LEMMA BitOfCount ==
  ASSUME NEW m \in Nat \ {0}, NEW c \in Nat
  PROVE  (c \div m) % 2 = 1 <=> c % (2 * m) >= m
PROOF
  <1> DEFINE n == 2 * m
             q == c \div n
             r == c % n
  <1>1. n \in Nat \ {0} /\ n = m + m
    OBVIOUS
  <1>2. q \in Nat /\ r \in 0 .. n - 1 /\ c = n * q + r
    BY <1>1, Division
  <1>3. n * q = m * (2 * q) /\ m * (2 * q) \in Nat /\ m * (2 * q + 1) = m * (2 * q) + m
    BY <1>2
  <1> HIDE DEF n, q, r
  <1>4. CASE r < m
    <2>1. c = m * (2 * q) + r /\ r \in 0 .. m - 1 /\ 2 * q \in Nat
      BY <1>1, <1>2, <1>3, <1>4
    <2>2. c \div m = 2 * q
      BY <2>1, DivisionUnique
    <2> QED
      BY <1>2, <1>4, <2>2 DEF n, r
  <1>5. CASE r >= m
    <2>1. c = m * (2 * q + 1) + (r - m) /\ r - m \in 0 .. m - 1 /\ 2 * q + 1 \in Nat
      BY <1>1, <1>2, <1>3, <1>5
    <2>2. c \div m = 2 * q + 1
      BY <2>1, DivisionUnique
    <2> QED
      BY <1>2, <1>5, <2>2 DEF n, r
  <1> QED
    BY <1>1, <1>2, <1>4, <1>5

(* A count that goes up by one stays in its period, except from the end of  *)
(* one to the start of the next; the wrap of the counter is such an end.    *)
LEMMA NextInPeriod ==
  ASSUME NEW n \in Nat \ {0}, CounterMod % n = 0, NEW c \in 0 .. CounterMod - 1
  PROVE  ((c + 1) % CounterMod) % n = IF c % n = n - 1 THEN 0 ELSE (c % n) + 1
PROOF
  <1> DEFINE q == c \div n
             r == c % n
  <1>1. CounterMod \in Nat \ {0} /\ c \in Nat /\ c < CounterMod
    BY ModAssumption
  <1>2. q \in Nat /\ r \in 0 .. n - 1 /\ c = n * q + r
    BY <1>1, Division
  <1>3. n * q \in Nat /\ n * (q + 1) = n * q + n
    BY <1>2
  <1>4. 0 % n = 0
    OBVIOUS
  <1>5. c + 1 < CounterMod => (c + 1) % CounterMod = c + 1
    BY <1>1
  <1>6. c + 1 = CounterMod => (c + 1) % CounterMod = 0
    BY <1>1
  <1> HIDE DEF q, r
  <1>7. CASE r = n - 1
    <2>1. c + 1 = n * (q + 1) + 0
      BY <1>2, <1>3, <1>7
    <2>2. (c + 1) % n = 0
      BY <1>1, <1>2, <2>1, DivisionUnique
    <2> QED
      BY <1>1, <1>4, <1>5, <1>6, <1>7, <2>2 DEF r
  <1>8. CASE r < n - 1
    <2>1. (c + 1) % n = r + 1
      BY <1>1, <1>2, <1>8, OneMore
    <2>2. c + 1 # CounterMod
      BY <1>2, <2>1
    <2> QED
      BY <1>1, <1>2, <1>5, <1>8, <2>1, <2>2 DEF r
  <1> QED
    BY <1>2, <1>7, <1>8

(* On a tick, the signal falls where a period of the counter begins.        *)
LEMMA FallsAtPeriod ==
  ASSUME TypeOK, LatchInSync
  PROVE  Falls(TickCount, tac) <=> tac.enable /\ TickCount % (2 * Mask[tac.clock]) = 0
PROOF
  <1> DEFINE m == Mask[tac.clock]
             n == 2 * m
             next == TickCount % n
  <1>1. m \in Nat \ {0} /\ CounterMod % n = 0
    BY MaskAssumption DEF TypeOK, Tacs
  <1>2. n \in Nat \ {0} /\ n = m + m
    BY <1>1
  <1>3. counter \in Nat /\ TickCount \in Nat
    BY CountWraps DEF TypeOK, TickCount
  <1>4. ((counter \div m) % 2 = 1) <=> counter % n >= m
    BY <1>1, <1>3, BitOfCount
  <1>5. ((TickCount \div m) % 2 = 1) <=> next >= m
    BY <1>1, <1>3, BitOfCount
  <1>6. next = IF counter % n = n - 1 THEN 0 ELSE (counter % n) + 1
    BY <1>1, <1>2, NextInPeriod DEF TypeOK, TickCount
  <1>7. counter % n \in 0 .. n - 1
    BY <1>2, <1>3, Division
  <1>8. Falls(TickCount, tac) <=>
          tac.enable /\ ((counter \div m) % 2 = 1) /\ ~((TickCount \div m) % 2 = 1)
    BY DEF Falls, LatchInSync, Signal
  <1> HIDE DEF m, n, next
  <1>9. (counter % n >= m /\ ~(next >= m)) <=> next = 0
    BY <1>1, <1>2, <1>6, <1>7
  <1> QED
    BY <1>4, <1>5, <1>8, <1>9 DEF m, n, next

(* A fall shows: TIMA changes or, where it wraps, requests its interrupt.   *)
LEMMA FallShows ==
  ASSUME TypeOK, NEW falls \in BOOLEAN, tima' = TimaAfter(falls)
  PROVE  (tima' # tima \/ Raised(falls) # {}) <=> falls
  BY DEF TimaAfter, Raised, TypeOK, TimaValues

(* TIMA of an enabled timer counts once in every period of the selected     *)
(* bit, in step with the counter, whatever bits there are to select.        *)
THEOREM RateIsKept == Spec => CountsAtItsRate
PROOF
  <1>1. TimerInv /\ TickStep =>
          (tima' # tima \/ TickRaises # {} <=>
             tac.enable /\ counter' % (2 * Mask[tac.clock]) = 0)
    <2> SUFFICES ASSUME TimerInv, TickStep
                 PROVE  tima' # tima \/ TickRaises # {} <=>
                          tac.enable /\ counter' % (2 * Mask[tac.clock]) = 0
      OBVIOUS
    <2> DEFINE falls == Falls(TickCount, tac)
    <2>1. TypeOK /\ LatchInSync
      BY DEF TimerInv
    <2>2. counter' = TickCount /\ tima' = TimaAfter(falls) /\ TickRaises = Raised(falls)
      BY DEF TickStep, Tick, TickRaises
    <2>3. falls \in BOOLEAN
      BY <2>1, SignalIsBoolean DEF Falls, TypeOK
    <2>4. falls <=> tac.enable /\ counter' % (2 * Mask[tac.clock]) = 0
      BY <2>1, <2>2, FallsAtPeriod
    <2> HIDE DEF falls
    <2>5. (tima' # tima \/ Raised(falls) # {}) <=> falls
      BY <2>1, <2>2, <2>3, FallShows
    <2> QED
      BY <2>2, <2>4, <2>5
  <1> QED
    BY <1>1, Invariance, PTL DEF Spec, CountsAtItsRate
-----------------------------------------------------------------------------
(* When the timer overflows.                                                *)

Period == 2 * Mask[tac.clock]

(* The ticks to the next overflow of an enabled timer that is left alone.   *)
TicksLeft == (TimaMod - tima) * Period - (counter % Period)

LEMMA CountDown ==
  ASSUME TimerInv, TickStep, tac.enable
  PROVE  /\ TicksLeft \in Nat \ {0}
         /\ TickRaises # {} <=> TicksLeft = 1
         /\ TicksLeft # 1 => TicksLeft' = TicksLeft - 1
PROOF
  <1> DEFINE n == Period
             r == counter % n
             k == TimaMod - tima
             falls == Falls(TickCount, tac)
  <1>1. TypeOK /\ LatchInSync
    BY DEF TimerInv
  <1>2. /\ Mask[tac.clock] \in Nat \ {0} /\ n \in Nat \ {0}
        /\ CounterMod % n = 0
    BY <1>1, MaskAssumption DEF TypeOK, Tacs, Period
  <1>3. counter \in Nat /\ r \in 0 .. n - 1
    BY <1>1, <1>2, CountWraps, Division DEF TypeOK
  <1>4. TickCount % n = IF r = n - 1 THEN 0 ELSE r + 1
    BY <1>1, <1>2, NextInPeriod DEF TypeOK, TickCount
  <1>5. falls <=> r = n - 1
    <2>1. falls <=> TickCount % n = 0
      BY <1>1, FallsAtPeriod DEF Period
    <2> HIDE DEF n, r, falls
    <2> QED
      BY <1>2, <1>3, <1>4, <2>1
  <1>6. k \in Nat \ {0} /\ TimaMod \in Nat /\ tima \in Nat
    BY <1>1, ModAssumption DEF TypeOK, TimaValues
  <1>7. /\ counter' = TickCount /\ UNCHANGED tac
        /\ tima' = TimaAfter(falls)
    BY DEF TickStep, Tick
  <1>8. n' = n
    BY <1>7 DEF Period
  <1>9. TicksLeft = k * n - r /\ TicksLeft' = (TimaMod - tima') * n - (TickCount % n)
    BY <1>7, <1>8 DEF TicksLeft
  <1>10. TickRaises # {} <=> falls /\ k = 1
    BY <1>1, <1>6 DEF TickRaises, Raised, TypeOK, TimaValues
  <1>11. ~falls => tima' = tima
    BY <1>7 DEF TimaAfter
  <1>12. falls /\ k # 1 => tima' = tima + 1
    BY <1>1, <1>6, <1>7, ModAssumption DEF TimaAfter, TypeOK, TimaValues
  <1> HIDE DEF n, r, falls
  <1>13. k * n \in Nat /\ (k - 1) * n = k * n - n /\ (k = 1 => k * n = n) /\ (k # 1 => k * n >= n + n)
    <2> HIDE DEF k
    <2>1. k * n \in Nat /\ (k - 1) * n = k * n - n
      BY <1>2, <1>6
    <2>2. k = 1 => k * n = n
      BY <1>2
    <2>3. ASSUME k # 1 PROVE k * n >= n + n
      <3>1. n * 1 + n <= n * k /\ n * 1 = n /\ n * k = k * n
        BY <1>2, <1>6, <2>3, MultiplesApart
      <3> QED
        BY <3>1
    <2> QED
      BY <2>1, <2>2, <2>3
  <1>14. TimaMod - (tima + 1) = k - 1 /\ TimaMod - tima = k
    BY <1>6
  <1> HIDE DEF k
  <1>15. TicksLeft \in Nat \ {0} /\ (TicksLeft = 1 <=> r = n - 1 /\ k = 1)
    BY <1>2, <1>3, <1>6, <1>9, <1>13
  <1>16. ASSUME TicksLeft # 1 PROVE TicksLeft' = TicksLeft - 1
    <2>1. CASE r # n - 1
      BY <1>2, <1>3, <1>4, <1>5, <1>9, <1>11, <1>13, <1>14, <2>1
    <2>2. CASE r = n - 1
      <3>1. k # 1
        BY <1>15, <1>16, <2>2
      <3>2. TicksLeft' = (k - 1) * n - 0
        BY <1>4, <1>5, <1>9, <1>12, <1>14, <2>2, <3>1
      <3> QED
        BY <1>2, <1>9, <1>13, <2>2, <3>2
    <2> QED
      BY <2>1, <2>2
  <1> QED
    BY <1>5, <1>10, <1>15, <1>16

(* The overflow of an enabled timer that is left alone comes with the very  *)
(* tick that its registers say, whatever the clock was chosen and however   *)
(* the counter stood then: the measure for which OverflowsForever holds.    *)
THEOREM OverflowIsDue ==
  Spec => [][TickStep /\ tac.enable =>
               /\ TicksLeft \in Nat \ {0}
               /\ TickRaises # {} <=> TicksLeft = 1
               /\ TicksLeft # 1 => TicksLeft' = TicksLeft - 1]_vars
PROOF
  <1>1. TimerInv /\ Next => (TickStep /\ tac.enable =>
               /\ TicksLeft \in Nat \ {0}
               /\ TickRaises # {} <=> TicksLeft = 1
               /\ TicksLeft # 1 => TicksLeft' = TicksLeft - 1)
    BY CountDown
  <1> QED
    BY <1>1, Invariance, PTL DEF Spec
-----------------------------------------------------------------------------
(* The transfer. *)

DmaInv == DmaTypeOK /\ CopiedSoFar /\ TakesItsTime

(* The first byte, and the delay at its start and its end, are in range.    *)
LEMMA DmaBounds ==
  /\ 0 \in 0 .. OamSize
  /\ 0 \in 0 .. StartDelay
  /\ StartDelay \in 0 .. StartDelay
  /\ 0 \in Nat
  BY SizeAssumption

(* The bus returns bytes.                                                   *)
LEMMA DmaBusReadsBytes ==
  ASSUME DmaTypeOK, NEW k \in Cells
  PROVE  BusRead(k) \in Bytes
  BY DEF DmaTypeOK, BusRead, Bytes

(* Before the first transfer nothing is claimed of OAM.                     *)
LEMMA DmaInitInv == DmaInit => DmaInv
PROOF
  <1> SUFFICES ASSUME DmaInit PROVE DmaInv
    OBVIOUS
  <1> USE SizeAssumption DEF DmaInit
  <1>1. oam \in [Cells -> Bytes]
    BY DEF Bytes
  <1>2. DmaTypeOK
    BY <1>1, DmaBounds DEF DmaTypeOK
  <1>3. CopiedSoFar /\ TakesItsTime
    BY DEF CopiedSoFar, TakesItsTime
  <1> QED
    BY <1>2, <1>3 DEF DmaInv

(* A transfer that starts has copied nothing yet, whatever was under way.   *)
LEMMA DmaStartInv ==
  ASSUME DmaInv, NEW page \in Pages, Start(page)
  PROVE  DmaInv'
PROOF
  <1> USE SizeAssumption DEF DmaInv, Start
  <1>1. DmaTypeOK'
    <2>1. /\ byte' \in 0 .. OamSize
          /\ start_delay' \in 0 .. StartDelay
          /\ calls' \in Nat
      BY DmaBounds
    <2>2. active' \in BOOLEAN /\ value' \in Pages /\ started' \in BOOLEAN
      OBVIOUS
    <2> QED
      BY <2>1, <2>2 DEF DmaTypeOK
  <1>2. CopiedSoFar'
    BY DEF CopiedSoFar, Cells
  <1>3. TakesItsTime'
    BY DEF TakesItsTime
  <1> QED
    BY <1>1, <1>2, <1>3

(* A call that waits takes one off the delay and adds one to the calls.     *)
LEMMA DmaWaitInv ==
  ASSUME DmaInv, Wait
  PROVE  DmaInv'
PROOF
  <1> USE SizeAssumption DEF DmaInv, Wait
  <1>1. DmaTypeOK'
    BY DEF DmaTypeOK
  <1>2. CopiedSoFar'
    BY DEF CopiedSoFar, BusRead
  <1>3. TakesItsTime'
    BY DEF TakesItsTime, DmaTypeOK
  <1> QED
    BY <1>1, <1>2, <1>3

(* A copy fills the next cell and leaves the ones before it; the one that   *)
(* ends the transfer is the last cell of OAM.                               *)
LEMMA DmaCopyInv ==
  ASSUME DmaInv, Copy
  PROVE  DmaInv'
PROOF
  <1> USE SizeAssumption DEF DmaInv, Copy
  <1>1. /\ byte \in Cells
        /\ byte + 1 \in 0 .. OamSize
        /\ byte + 1 < OamSize \/ byte + 1 = OamSize
    BY DEF DmaTypeOK, TakesItsTime, Cells
  <1>2. oam' \in [Cells -> Bytes]
    BY <1>1, DmaBusReadsBytes DEF DmaTypeOK
  <1>3. DmaTypeOK'
    BY <1>1, <1>2 DEF DmaTypeOK
  <1>4. ASSUME NEW k \in Cells, k # byte
        PROVE  oam'[k] = oam[k]
    BY <1>4 DEF DmaTypeOK
  <1>5. oam'[byte] = BusRead(byte)
    BY <1>1 DEF DmaTypeOK
  <1>6. ASSUME NEW k \in Cells \ disturbed, k < byte + 1, started
        PROVE  oam'[k] = BusRead(k)
    <2>1. k < byte \/ k = byte
      BY <1>6 DEF Cells, DmaTypeOK
    <2>2. CASE k < byte
      BY <1>4, <1>6, <2>2 DEF CopiedSoFar, Cells, DmaTypeOK
    <2>3. CASE k = byte
      BY <1>5, <2>3
    <2> QED
      BY <2>1, <2>2, <2>3
  <1>7. CopiedSoFar'
    <2>1. \A k \in Cells : BusRead(k)' = BusRead(k)
      BY DEF BusRead
    <2>2. started => (~active' => byte' = OamSize)
      BY <1>1
    <2>3. started => \A k \in Cells \ disturbed : k < byte' => oam'[k] = BusRead(k)'
      BY <1>6, <2>1
    <2> QED
      BY <2>2, <2>3 DEF CopiedSoFar
  <1>8. TakesItsTime'
    <2>1. active' => byte' < OamSize
      OBVIOUS
    <2>2. started' => calls' = StartDelay - start_delay' + byte'
      BY DEF TakesItsTime, DmaTypeOK
    <2> QED
      BY <2>1, <2>2 DEF TakesItsTime
  <1> QED
    BY <1>3, <1>7, <1>8

(* A page that is written under the transfer is given up as disturbed; any  *)
(* other write leaves what the transfer has copied equal to its page.       *)
LEMMA DmaWritePageInv ==
  ASSUME DmaInv, NEW page \in Pages, NEW c \in Contents, WritePage(page, c)
  PROVE  DmaInv'
PROOF
  <1> USE DEF DmaInv, WritePage, registers
  <1>1. DmaTypeOK'
    <2>1. mem' \in [Pages -> Contents]
      BY DEF DmaTypeOK
    <2>2. disturbed' \in SUBSET Cells
      BY DEF DmaTypeOK
    <2> QED
      BY <2>1, <2>2 DEF DmaTypeOK
  <1>2. ASSUME page = value /\ c # mem[page]
        PROVE  CopiedSoFar'
    BY <1>2 DEF CopiedSoFar
  <1>3. ASSUME ~(page = value /\ c # mem[page])
        PROVE  CopiedSoFar'
    <2>1. mem'[value] = mem[value]
      BY <1>3 DEF DmaTypeOK
    <2>2. \A k \in Cells : BusRead(k)' = BusRead(k)
      BY <2>1 DEF BusRead
    <2>3. disturbed' = disturbed /\ CopiedSoFar
      BY <1>3
    <2> QED
      BY <2>2, <2>3 DEF CopiedSoFar
  <1> QED
    BY <1>1, <1>2, <1>3 DEF TakesItsTime

(* A cell that the program writes is no longer the transfer's.              *)
LEMMA DmaWriteOamInv ==
  ASSUME DmaInv, NEW c \in Cells, WriteOam(c)
  PROVE  DmaInv'
PROOF
  <1> USE DEF DmaInv, WriteOam, registers
  <1>1. DmaTypeOK'
    BY DEF DmaTypeOK, Bytes
  <1>2. \A k \in Cells \ disturbed' : oam'[k] = oam[k]
    BY DEF DmaTypeOK
  <1>3. CopiedSoFar'
    BY <1>2 DEF CopiedSoFar, BusRead
  <1>4. TakesItsTime'
    BY DEF TakesItsTime
  <1> QED
    BY <1>1, <1>3, <1>4

(* Every step keeps the invariant.                                          *)
LEMMA DmaNextInv == DmaInv /\ [DmaNext]_dmaVars => DmaInv'
PROOF
  <1> SUFFICES ASSUME DmaInv, [DmaNext]_dmaVars PROVE DmaInv'
    OBVIOUS
  <1>1. CASE UNCHANGED dmaVars
    BY <1>1 DEF dmaVars, registers, history, DmaInv, DmaTypeOK, CopiedSoFar, TakesItsTime, BusRead
  <1> QED
    BY <1>1, DmaStartInv, DmaWaitInv, DmaCopyInv, DmaWritePageInv, DmaWriteOamInv DEF DmaNext, DmaTick, ProgramActs
-----------------------------------------------------------------------------
(* Every behaviour of the transfer keeps the inductive invariant.           *)
THEOREM DmaInvariance == DmaSpec => []DmaInv
PROOF
  <1> QED
    BY DmaInitInv, DmaNextInv, PTL DEF DmaSpec

(* The registers of the transfer stay in their ranges, OAM in its size.     *)
THEOREM DmaTypeCorrect == DmaSpec => []DmaTypeOK
PROOF
  <1>1. DmaInv => DmaTypeOK
    BY DEF DmaInv
  <1> QED
    BY <1>1, DmaInvariance, PTL

(* A transfer that ended has copied its whole page, and no byte of OAM      *)
(* belongs to a transfer that was given up.                                 *)
THEOREM PageIsCopied == DmaSpec => []CopiedSoFar
PROOF
  <1>1. DmaInv => CopiedSoFar
    BY DEF DmaInv
  <1> QED
    BY <1>1, DmaInvariance, PTL

(* The time of a transfer depends on nothing but the size of OAM and the    *)
(* start delay, and it never writes outside OAM.                            *)
THEOREM TransferTakesItsTime == DmaSpec => []TakesItsTime
PROOF
  <1>1. DmaInv => TakesItsTime
    BY DEF DmaInv
  <1> QED
    BY <1>1, DmaInvariance, PTL
=============================================================================
