------------------------------ MODULE CartProofs ------------------------------
(***************************************************************************)
(* Proofs about Cart, for any set of cartridges, any bytes the program     *)
(* writes and any bytes it stores.                                         *)
(*                                                                         *)
(* CartInv is inductive.  The type of the registers alone does not say     *)
(* that a clock register is selected when the clock is mapped, which is    *)
(* what keeps a write to the clock inside the registers it has.            *)
(***************************************************************************)
EXTENDS Cart, TLAPS

ClockSelected == regs.rtc_mapped => regs.rtc_select \in 8 .. 12

CartInv == TypeOK /\ ClockSelected

Byte == 0 .. 255

(* What a controller of a cartridge is made of.                             *)
LEMMA CartFields ==
  ASSUME cart \in Carts
  PROVE  /\ cart.mbc \in Controllers
         /\ cart.rom_banks \in Nat \ {0}
         /\ cart.ram_banks \in 0 .. 16
  BY CartsAssumption DEF PowersOfTwo, RamSizes

(* The fields the controllers cut out of a byte fit their registers.        *)
LEMMA FieldsFit ==
  ASSUME NEW v \in Byte
  PROVE  /\ v % 4 \in 0 .. 15 /\ v % 16 \in 0 .. 15
         /\ v % 2 \in 0 .. 1
         /\ NotZero(v % 32) \in 1 .. 31
         /\ NotZero(v % 128) \in 0 .. 511
         /\ v \in 0 .. 511
         /\ v <= 3 => v \in 0 .. 15
  BY DEF Byte, NotZero

(* The ninth bit of the bank of an MBC5 and the eight below it.             *)
LEMMA NineBits ==
  ASSUME NEW v \in Byte, NEW bank \in 0 .. 511
  PROVE  /\ (bank \div 256) * 256 + v \in 0 .. 511
         /\ (v % 2) * 256 + (bank % 256) \in 0 .. 511
  BY DEF Byte

(* The same clock register, or none, is mapped by both.                     *)
SameClock(r, s) == s.rtc_mapped = r.rtc_mapped /\ s.rtc_select = r.rtc_select

(* What a write does to one register leaves the widths of all.              *)
LEMMA Updates ==
  ASSUME NEW r \in Registers
  PROVE  /\ \A x \in BOOLEAN : [r EXCEPT !.ram_enabled = x] \in Registers
         /\ \A x \in 0 .. 15 : [r EXCEPT !.ram_bank_reg = x] \in Registers
         /\ \A x \in 1 .. 31 : [r EXCEPT !.rom_bank_reg = x] \in Registers
         /\ \A x \in 0 .. 1 : [r EXCEPT !.banking_mode = x] \in Registers
         /\ \A x \in 0 .. 511 : [r EXCEPT !.rom_bank = x] \in Registers
         /\ \A x \in 0 .. 255 : [r EXCEPT !.rtc_latch_prev = x] \in Registers
         /\ \A x \in BOOLEAN : [r EXCEPT !.rtc_mapped = x] \in Registers
         /\ \A x \in 8 .. 12 : [r EXCEPT !.rtc_select = x] \in Registers
PROOF
  <1>1. ASSUME NEW x \in BOOLEAN PROVE [r EXCEPT !.ram_enabled = x] \in Registers
    BY DEF Registers
  <1>2. ASSUME NEW x \in 0 .. 15 PROVE [r EXCEPT !.ram_bank_reg = x] \in Registers
    BY DEF Registers
  <1>3. ASSUME NEW x \in 1 .. 31 PROVE [r EXCEPT !.rom_bank_reg = x] \in Registers
    BY DEF Registers
  <1>4. ASSUME NEW x \in 0 .. 1 PROVE [r EXCEPT !.banking_mode = x] \in Registers
    BY DEF Registers
  <1>5. ASSUME NEW x \in 0 .. 511 PROVE [r EXCEPT !.rom_bank = x] \in Registers
    BY DEF Registers
  <1>6. ASSUME NEW x \in 0 .. 255 PROVE [r EXCEPT !.rtc_latch_prev = x] \in Registers
    BY DEF Registers
  <1>7. ASSUME NEW x \in BOOLEAN PROVE [r EXCEPT !.rtc_mapped = x] \in Registers
    BY DEF Registers
  <1>8. ASSUME NEW x \in 8 .. 12 PROVE [r EXCEPT !.rtc_select = x] \in Registers
    BY DEF Registers
  <1> QED
    BY <1>1, <1>2, <1>3, <1>4, <1>5, <1>6, <1>7, <1>8

(* A register of a bank, or the latch, does not map the clock.              *)
LEMMA BanksKeepClock ==
  ASSUME NEW r \in Registers, NEW x
  PROVE  /\ SameClock(r, [r EXCEPT !.ram_enabled = x])
         /\ SameClock(r, [r EXCEPT !.ram_bank_reg = x])
         /\ SameClock(r, [r EXCEPT !.rom_bank_reg = x])
         /\ SameClock(r, [r EXCEPT !.banking_mode = x])
         /\ SameClock(r, [r EXCEPT !.rom_bank = x])
         /\ SameClock(r, [r EXCEPT !.rtc_latch_prev = x])
  BY DEF Registers, SameClock

(* The two selections of an MBC3 in the window.                             *)
LEMMA WindowUpdates ==
  ASSUME NEW r \in Registers
  PROVE  /\ \A x \in 0 .. 15 :
              LET s == [r EXCEPT !.ram_bank_reg = x, !.rtc_mapped = FALSE]
              IN  s \in Registers /\ s.rtc_mapped = FALSE
         /\ \A x \in 8 .. 12 :
              LET s == [r EXCEPT !.rtc_select = x, !.rtc_mapped = TRUE]
              IN  s \in Registers /\ s.rtc_select = x
PROOF
  <1>1. ASSUME NEW x \in 0 .. 15
        PROVE  LET s == [r EXCEPT !.ram_bank_reg = x, !.rtc_mapped = FALSE]
               IN  s \in Registers /\ s.rtc_mapped = FALSE
    <2>1. [r EXCEPT !.ram_bank_reg = x, !.rtc_mapped = FALSE]
            = [[r EXCEPT !.ram_bank_reg = x] EXCEPT !.rtc_mapped = FALSE]
      BY DEF Registers
    <2>2. [[r EXCEPT !.ram_bank_reg = x] EXCEPT !.rtc_mapped = FALSE] \in Registers
      BY Updates
    <2>3. [r EXCEPT !.ram_bank_reg = x, !.rtc_mapped = FALSE].rtc_mapped = FALSE
      BY DEF Registers
    <2> QED
      BY <2>1, <2>2, <2>3
  <1>2. ASSUME NEW x \in 8 .. 12
        PROVE  LET s == [r EXCEPT !.rtc_select = x, !.rtc_mapped = TRUE]
               IN  s \in Registers /\ s.rtc_select = x
    <2>1. [r EXCEPT !.rtc_select = x, !.rtc_mapped = TRUE]
            = [[r EXCEPT !.rtc_select = x] EXCEPT !.rtc_mapped = TRUE]
      BY DEF Registers
    <2>2. [[r EXCEPT !.rtc_select = x] EXCEPT !.rtc_mapped = TRUE] \in Registers
      BY Updates
    <2>3. [r EXCEPT !.rtc_select = x, !.rtc_mapped = TRUE].rtc_select = x
      BY DEF Registers
    <2> QED
      BY <2>1, <2>2, <2>3
  <1> QED
    BY <1>1, <1>2

(* A write to the enable register.                                          *)
LEMMA EnableKeeps ==
  ASSUME NEW r \in Registers, NEW v
  PROVE  EnableRam(r, v) \in Registers /\ SameClock(r, EnableRam(r, v))
PROOF
  <1>1. (v % 16 = 10) \in BOOLEAN
    OBVIOUS
  <1> QED
    BY <1>1, Updates, BanksKeepClock DEF EnableRam

(* A write keeps the registers of an MBC1 in their widths.                  *)
LEMMA Mbc1Keeps ==
  ASSUME NEW r \in Registers, NEW block \in 0 .. 7, NEW v \in Byte
  PROVE  /\ Mbc1Write(r, block, v) \in Registers
         /\ SameClock(r, Mbc1Write(r, block, v))
PROOF
  <1>1. CASE block \in 0 .. 1
    <2>1. Mbc1Write(r, block, v) = EnableRam(r, v)
      BY <1>1 DEF Mbc1Write
    <2> QED
      BY <2>1, <1>1, EnableKeeps DEF Byte, SameClock
  <1>2. CASE block \in 2 .. 3
    <2> DEFINE x == NotZero(v % 32)
    <2>1. Mbc1Write(r, block, v) = [r EXCEPT !.rom_bank_reg = x]
      BY <1>2 DEF Mbc1Write
    <2>2. x \in 1 .. 31
      BY FieldsFit
    <2> HIDE DEF x
    <2> QED
      BY <2>1, <2>2, Updates, BanksKeepClock
  <1>3. CASE block \in 4 .. 5
    <2> DEFINE x == v % 4
    <2>1. Mbc1Write(r, block, v) = [r EXCEPT !.ram_bank_reg = x]
      BY <1>3 DEF Mbc1Write
    <2>2. x \in 0 .. 15
      BY FieldsFit
    <2> HIDE DEF x
    <2> QED
      BY <2>1, <2>2, Updates, BanksKeepClock
  <1>4. CASE block \in 6 .. 7
    <2> DEFINE x == v % 2
    <2>1. Mbc1Write(r, block, v) = [r EXCEPT !.banking_mode = x]
      BY <1>4 DEF Mbc1Write
    <2>2. x \in 0 .. 1
      BY FieldsFit
    <2> HIDE DEF x
    <2> QED
      BY <2>1, <2>2, Updates, BanksKeepClock
  <1> QED
    BY <1>1, <1>2, <1>3, <1>4 DEF Byte

(* A write keeps the registers of an MBC3 in their widths, and maps the     *)
(* clock only by selecting one of its registers.                            *)
LEMMA Mbc3Keeps ==
  ASSUME NEW r \in Registers, NEW block \in 0 .. 7, NEW v \in Byte,
         r.rtc_mapped => r.rtc_select \in 8 .. 12
  PROVE  /\ Mbc3Write(r, block, v) \in Registers
         /\ Mbc3Write(r, block, v).rtc_mapped => Mbc3Write(r, block, v).rtc_select \in 8 .. 12
PROOF
  <1>1. CASE block \in 0 .. 1
    <2>1. Mbc3Write(r, block, v) = EnableRam(r, v)
      BY <1>1 DEF Mbc3Write
    <2> QED
      BY <2>1, <1>1, EnableKeeps DEF Byte, SameClock
  <1>2. CASE block \in 2 .. 3
    <2> DEFINE x == NotZero(v % 128)
    <2>1. Mbc3Write(r, block, v) = [r EXCEPT !.rom_bank = x]
      BY <1>2 DEF Mbc3Write
    <2>2. x \in 0 .. 511
      BY FieldsFit
    <2> HIDE DEF x
    <2>3. SameClock(r, Mbc3Write(r, block, v)) /\ Mbc3Write(r, block, v) \in Registers
      BY <2>1, <2>2, Updates, BanksKeepClock
    <2> QED
      BY <2>3 DEF SameClock
  <1>3. CASE block \in 4 .. 5 /\ v <= 3
    <2> DEFINE w == [r EXCEPT !.ram_bank_reg = v, !.rtc_mapped = FALSE]
    <2>1. Mbc3Write(r, block, v) = w
      BY <1>3 DEF Mbc3Write, Byte
    <2>2. w \in Registers /\ w.rtc_mapped = FALSE
      BY <1>3, FieldsFit, WindowUpdates
    <2> HIDE DEF w
    <2> QED
      BY <2>1, <2>2
  <1>4. CASE block \in 4 .. 5 /\ v \in 8 .. 12
    <2> DEFINE w == [r EXCEPT !.rtc_select = v, !.rtc_mapped = TRUE]
    <2>1. Mbc3Write(r, block, v) = w
      BY <1>4 DEF Mbc3Write
    <2>2. w \in Registers /\ w.rtc_select = v
      BY <1>4, WindowUpdates
    <2> HIDE DEF w
    <2> QED
      BY <1>4, <2>1, <2>2
  <1>5. CASE block \in 4 .. 5 /\ v > 3 /\ v \notin 8 .. 12
    <2>1. Mbc3Write(r, block, v) = r
      BY <1>5 DEF Mbc3Write
    <2> QED
      BY <2>1, <1>5, Updates, BanksKeepClock DEF Byte, SameClock
  <1>6. CASE block \in 6 .. 7
    <2> DEFINE x == v
    <2>1. Mbc3Write(r, block, v) = [r EXCEPT !.rtc_latch_prev = x]
      BY <1>6 DEF Mbc3Write
    <2>2. x \in 0 .. 255
      BY <1>6 DEF Byte
    <2> HIDE DEF x
    <2>3. SameClock(r, Mbc3Write(r, block, v)) /\ Mbc3Write(r, block, v) \in Registers
      BY <2>1, <2>2, Updates, BanksKeepClock
    <2> QED
      BY <2>3 DEF SameClock
  <1> QED
    BY <1>1, <1>2, <1>3, <1>4, <1>5, <1>6 DEF Byte

(* The bank of an MBC5 has nine bits.                                       *)
LEMMA RomBankFits == ASSUME NEW r \in Registers PROVE r.rom_bank \in 0 .. 511
  BY DEF Registers

(* A write keeps the registers of an MBC5 in their widths.                  *)
LEMMA Mbc5Keeps ==
  ASSUME NEW r \in Registers, NEW block \in 0 .. 7, NEW v \in Byte
  PROVE  /\ Mbc5Write(r, block, v) \in Registers
         /\ SameClock(r, Mbc5Write(r, block, v))
PROOF
  <1>1. CASE block \in 0 .. 1
    <2>1. Mbc5Write(r, block, v) = EnableRam(r, v)
      BY <1>1 DEF Mbc5Write
    <2> QED
      BY <2>1, <1>1, EnableKeeps DEF Byte, SameClock
  <1>2. CASE block = 2
    <2> DEFINE x == (r.rom_bank \div 256) * 256 + v
    <2>1. Mbc5Write(r, block, v) = [r EXCEPT !.rom_bank = x]
      BY <1>2 DEF Mbc5Write
    <2>2. x \in 0 .. 511
      BY <1>2, RomBankFits, NineBits DEF Byte
    <2> HIDE DEF x
    <2> QED
      BY <2>1, <2>2, Updates, BanksKeepClock
  <1>3. CASE block = 3
    <2> DEFINE x == (v % 2) * 256 + (r.rom_bank % 256)
    <2>1. Mbc5Write(r, block, v) = [r EXCEPT !.rom_bank = x]
      BY <1>3 DEF Mbc5Write
    <2>2. x \in 0 .. 511
      BY <1>3, RomBankFits, NineBits DEF Byte
    <2> HIDE DEF x
    <2> QED
      BY <2>1, <2>2, Updates, BanksKeepClock
  <1>4. CASE block \in 4 .. 5
    <2> DEFINE x == v % 16
    <2>1. Mbc5Write(r, block, v) = [r EXCEPT !.ram_bank_reg = x]
      BY <1>4 DEF Mbc5Write
    <2>2. x \in 0 .. 15
      BY FieldsFit
    <2> HIDE DEF x
    <2> QED
      BY <2>1, <2>2, Updates, BanksKeepClock
  <1>5. CASE block \in 6 .. 7
    <2>1. Mbc5Write(r, block, v) = r
      BY <1>5 DEF Mbc5Write
    <2> QED
      BY <2>1, <1>5, Updates, BanksKeepClock DEF Byte, SameClock
  <1> QED
    BY <1>1, <1>2, <1>3, <1>4, <1>5 DEF Byte

-----------------------------------------------------------------------------
(* A write below 0x8000 keeps the registers in their widths.                *)
LEMMA WriteKeeps ==
  ASSUME CartInv, NEW block \in 0 .. 7, NEW v \in Byte
  PROVE  /\ Write(regs, block, v) \in Registers
         /\ Write(regs, block, v).rtc_mapped => Write(regs, block, v).rtc_select \in 8 .. 12
PROOF
  <1>1. /\ regs \in Registers
        /\ regs.rtc_mapped => regs.rtc_select \in 8 .. 12
        /\ cart.mbc \in Controllers
    BY CartFields DEF CartInv, TypeOK, ClockSelected
  <1>2. CASE cart.mbc = "mbc1"
    <2>1. Write(regs, block, v) = Mbc1Write(regs, block, v)
      BY <1>2 DEF Write
    <2>2. SameClock(regs, Write(regs, block, v)) /\ Write(regs, block, v) \in Registers
      BY <1>1, <2>1, Mbc1Keeps
    <2> QED
      BY <1>1, <2>2 DEF SameClock
  <1>3. CASE cart.mbc = "mbc3"
    <2>1. Write(regs, block, v) = Mbc3Write(regs, block, v)
      BY <1>3 DEF Write
    <2> QED
      BY <1>1, <2>1, Mbc3Keeps
  <1>4. CASE cart.mbc = "mbc5"
    <2>1. Write(regs, block, v) = Mbc5Write(regs, block, v)
      BY <1>4 DEF Write
    <2>2. SameClock(regs, Write(regs, block, v)) /\ Write(regs, block, v) \in Registers
      BY <1>1, <2>1, Mbc5Keeps
    <2> QED
      BY <1>1, <2>2 DEF SameClock
  <1>5. CASE cart.mbc = "none"
    <2>1. Write(regs, block, v) = regs
      BY <1>5 DEF Write
    <2> QED
      BY <1>1, <2>1
  <1> QED
    BY <1>1, <1>2, <1>3, <1>4, <1>5 DEF Controllers

(* A cartridge that was just loaded.                                        *)
LEMMA InitInv == Init => CartInv
PROOF
  <1> SUFFICES ASSUME Init PROVE CartInv
    OBVIOUS
  <1>1. regs \in Registers /\ regs.rtc_mapped = FALSE
    BY DEF Init, PowerUp, Registers
  <1>2. /\ ram_data \in [0 .. cart.ram_banks - 1 -> 0 .. 255]
        /\ rtc_regs \in [ClockRegs -> 0 .. 255]
        /\ rtc_latched \in [ClockRegs -> 0 .. 255]
    BY DEF Init
  <1> QED
    BY <1>1, <1>2 DEF Init, CartInv, TypeOK, ClockSelected

(* A write to the controller keeps the invariant.                           *)
LEMMA WriteControllerInv ==
  ASSUME CartInv, NEW block \in 0 .. 7, NEW v \in Written, WriteController(block, v)
  PROVE  CartInv'
PROOF
  <1>1. v \in Byte
    BY ByteAssumption DEF Byte
  <1>2. regs' \in Registers /\ ClockSelected'
    BY <1>1, WriteKeeps DEF WriteController, ClockSelected
  <1>3. rtc_latched' \in [ClockRegs -> 0 .. 255]
    BY DEF WriteController, CartInv, TypeOK
  <1> QED
    BY <1>2, <1>3 DEF WriteController, CartInv, TypeOK

(* A write to the window keeps the invariant.                               *)
LEMMA WriteWindowInv ==
  ASSUME CartInv, NEW v \in Data, WriteWindow(v)
  PROVE  CartInv'
PROOF
  <1>1. v \in 0 .. 255
    BY ByteAssumption
  <1>2. rtc_regs' \in [ClockRegs -> 0 .. 255]
    BY <1>1 DEF WriteWindow, CartInv, TypeOK
  <1>3. ram_data' \in [0 .. cart.ram_banks - 1 -> 0 .. 255]
    BY <1>1 DEF WriteWindow, CartInv, TypeOK
  <1> QED
    BY <1>2, <1>3 DEF WriteWindow, CartInv, TypeOK, ClockSelected

(* Every step keeps the invariant.                                          *)
LEMMA NextInv == CartInv /\ [Next]_vars => CartInv'
PROOF
  <1> SUFFICES ASSUME CartInv, [Next]_vars PROVE CartInv'
    OBVIOUS
  <1>1. CASE UNCHANGED vars
    BY <1>1 DEF vars, CartInv, TypeOK, ClockSelected
  <1> QED
    BY <1>1, WriteControllerInv, WriteWindowInv DEF Next
-----------------------------------------------------------------------------
(* Every behaviour of the cartridge keeps the inductive invariant.          *)
THEOREM Invariance == Spec => []CartInv
PROOF
  <1> QED
    BY InitInv, NextInv, PTL DEF Spec

(* The registers of each controller keep their widths.                      *)
THEOREM TypeCorrect == Spec => []TypeOK
PROOF
  <1>1. CartInv => TypeOK
    BY DEF CartInv
  <1> QED
    BY <1>1, Invariance, PTL
-----------------------------------------------------------------------------
(* In a ROM of at most 32 banks the upper bits of the number of a bank are  *)
(* cut off.                                                                 *)
LEMMA UpperBitsCut ==
  ASSUME NEW n \in PowersOfTwo, n <= 32, NEW x \in Nat, NEW y \in Nat
  PROVE  (x * 32) % n = 0 /\ (x * 32 + y) % n = y % n
PROOF
  <1>1. n \in {2, 4, 8, 16, 32}
    BY DEF PowersOfTwo
  <1>2. CASE n = 2
    BY <1>2
  <1>3. CASE n = 4
    BY <1>3
  <1>4. CASE n = 8
    BY <1>4
  <1>5. CASE n = 16
    BY <1>5
  <1>6. CASE n = 32
    BY <1>6
  <1> QED
    BY <1>1, <1>2, <1>3, <1>4, <1>5, <1>6

(* The bank of ROM that an MBC1 was asked for is left alone by a selection  *)
(* of RAM or of the mode.                                                   *)
LEMMA Mbc1SelectKeeps ==
  ASSUME NEW r \in Registers, NEW block \in 4 .. 7, NEW v \in Byte
  PROVE  Mbc1Write(r, block, v).rom_bank_reg = r.rom_bank_reg
PROOF
  <1>1. CASE block \in 4 .. 5
    BY <1>1 DEF Mbc1Write, Registers
  <1>2. CASE block \in 6 .. 7
    BY <1>2 DEF Mbc1Write, Registers
  <1> QED
    BY <1>1, <1>2

(* The same of an MBC3, also when it maps or latches the clock.             *)
LEMMA Mbc3SelectKeeps ==
  ASSUME NEW r \in Registers, NEW block \in 4 .. 7, NEW v \in Byte
  PROVE  Mbc3Write(r, block, v).rom_bank = r.rom_bank
PROOF
  <1>1. CASE block \in 4 .. 5 /\ v <= 3
    <2>1. Mbc3Write(r, block, v) = [r EXCEPT !.ram_bank_reg = v, !.rtc_mapped = FALSE]
      BY <1>1 DEF Mbc3Write, Byte
    <2> QED
      BY <2>1 DEF Registers
  <1>2. CASE block \in 4 .. 5 /\ v \in 8 .. 12
    <2>1. Mbc3Write(r, block, v) = [r EXCEPT !.rtc_select = v, !.rtc_mapped = TRUE]
      BY <1>2 DEF Mbc3Write
    <2> QED
      BY <2>1 DEF Registers
  <1>3. CASE block \in 4 .. 5 /\ v > 3 /\ v \notin 8 .. 12
    BY <1>3 DEF Mbc3Write
  <1>4. CASE block \in 6 .. 7
    BY <1>4 DEF Mbc3Write, Registers
  <1> QED
    BY <1>1, <1>2, <1>3, <1>4 DEF Byte

(* The same of an MBC5.                                                     *)
LEMMA Mbc5SelectKeeps ==
  ASSUME NEW r \in Registers, NEW block \in 4 .. 7, NEW v \in Byte
  PROVE  Mbc5Write(r, block, v).rom_bank = r.rom_bank
PROOF
  <1>1. CASE block \in 4 .. 5
    BY <1>1 DEF Mbc5Write, Registers
  <1>2. CASE block \in 6 .. 7
    BY <1>2 DEF Mbc5Write, Registers
  <1> QED
    BY <1>1, <1>2

(* A selection of RAM or of the mode keeps both banks of ROM, or on an MBC1 *)
(* it does so for a small ROM.                                              *)
LEMMA SelectKeepsRom ==
  ASSUME CartInv, NEW block \in 4 .. 7, NEW v \in Written, WriteController(block, v),
         cart.mbc = "mbc1" => cart.rom_banks <= 32
  PROVE  LowBank(regs') = LowBank(regs) /\ HighBank(regs') = HighBank(regs)
PROOF
  <1>1. v \in Byte /\ block \in 0 .. 7
    BY ByteAssumption DEF Byte
  <1>2. /\ regs \in Registers
        /\ regs' = Write(regs, block, v)
        /\ regs' \in Registers
        /\ cart.mbc \in Controllers
        /\ cart.rom_banks \in PowersOfTwo
    BY <1>1, WriteKeeps, CartsAssumption DEF CartInv, TypeOK, WriteController
  <1>3. CASE cart.mbc = "mbc1"
    <2>1. regs'.rom_bank_reg = regs.rom_bank_reg
      BY <1>1, <1>2, <1>3, Mbc1SelectKeeps DEF Write
    <2>2. /\ regs.ram_bank_reg \in Nat /\ regs.rom_bank_reg \in Nat
          /\ regs'.ram_bank_reg \in Nat
      BY <1>2 DEF Registers
    <2>3. /\ (regs.ram_bank_reg * 32) % cart.rom_banks = 0
          /\ (regs'.ram_bank_reg * 32) % cart.rom_banks = 0
      BY <1>2, <1>3, <2>2, UpperBitsCut
    <2>4. Mbc1HighBank(regs) = regs.rom_bank_reg % cart.rom_banks
      BY <1>2, <1>3, <2>2, UpperBitsCut DEF Mbc1HighBank
    <2>5. Mbc1HighBank(regs') = regs.rom_bank_reg % cart.rom_banks
      BY <1>2, <1>3, <2>1, <2>2, UpperBitsCut DEF Mbc1HighBank
    <2> QED
      BY <1>3, <2>3, <2>4, <2>5 DEF LowBank, HighBank
  <1>4. CASE cart.mbc = "mbc3"
    <2>1. regs'.rom_bank = regs.rom_bank
      BY <1>1, <1>2, <1>4, Mbc3SelectKeeps DEF Write
    <2> QED
      BY <1>4, <2>1 DEF LowBank, HighBank
  <1>5. CASE cart.mbc = "mbc5"
    <2>1. regs'.rom_bank = regs.rom_bank
      BY <1>1, <1>2, <1>5, Mbc5SelectKeeps DEF Write
    <2> QED
      BY <1>5, <2>1 DEF LowBank, HighBank
  <1>6. CASE cart.mbc = "none"
    BY <1>6 DEF LowBank, HighBank
  <1> QED
    BY <1>2, <1>3, <1>4, <1>5, <1>6 DEF Controllers

(* A program never sees its code move when it selects a bank of RAM, a      *)
(* register of the clock or the mode, unless the ROM is larger than the 32  *)
(* banks that the other register of an MBC1 can number.                     *)
THEOREM SelectionKeepsRom == Spec => RamSelectKeepsRom
PROOF
  <1>1. CartInv /\ [Next]_vars =>
          [\A block \in 4 .. 7, v \in Written :
             WriteController(block, v) /\ (cart.mbc = "mbc1" => cart.rom_banks <= 32) =>
               LowBank(regs') = LowBank(regs) /\ HighBank(regs') = HighBank(regs)]_vars
    BY SelectKeepsRom
  <1> QED
    BY <1>1, Invariance, PTL DEF Spec, RamSelectKeepsRom
-----------------------------------------------------------------------------
Stores   == RamStores \cup ClockStores
Contents == [s \in Stores |->
               IF s[1] = "clock" THEN rtc_regs[s[2]]
               ELSE IF s[2] < cart.ram_banks THEN ram_data[s[2]] ELSE 0]
Snapshot == [s \in ClockStores |-> rtc_latched[s[2]]]

(* A store is a bank of RAM or a register of the clock, and never both.     *)
LEMMA StoresApart ==
  /\ \A b \in 0 .. 15 : RamStore(b) \in Stores /\ RamStore(b)[1] = "ram" /\ RamStore(b)[2] = b
  /\ \A k \in ClockRegs :
       /\ ClockStore(k) \in ClockStores
       /\ ClockStore(k) \in Stores
       /\ ClockStore(k)[1] = "clock"
       /\ ClockStore(k)[2] = k
  /\ \A s \in Stores : \/ \E b \in 0 .. 15 : s = RamStore(b)
                       \/ \E k \in ClockRegs : s = ClockStore(k)
  BY DEF Stores, RamStores, ClockStores, RamStore, ClockStore

(* The bank of RAM in view is one the cartridge has.                        *)
LEMMA RamBankExists ==
  ASSUME CartInv, cart.ram_banks > 0
  PROVE  RamBank(regs) \in 0 .. cart.ram_banks - 1 /\ RamBank(regs) \in 0 .. 15
PROOF
  <1>1. cart.ram_banks \in 1 .. 16 /\ regs.ram_bank_reg \in Nat
    BY CartFields DEF CartInv, TypeOK, Registers
  <1> DEFINE n == cart.ram_banks
             x == regs.ram_bank_reg
  <1>2. x % n \in 0 .. n - 1
    <2> HIDE DEF x, n
    <2>1. n \in Nat \ {0} /\ x \in Nat
      BY <1>1 DEF x, n
    <2> QED
      BY <2>1
  <1> QED
    BY <1>1, <1>2 DEF RamBank

(* What is in view is one store of the cartridge, or none.                  *)
LEMMA ViewIsStore ==
  ASSUME CartInv
  PROVE  /\ ClockInView(regs) =>
              /\ regs.rtc_select - 8 \in ClockRegs
              /\ InView = ClockStore(regs.rtc_select - 8)
         /\ RamInView(regs) =>
              /\ RamBank(regs) \in 0 .. cart.ram_banks - 1
              /\ RamBank(regs) \in 0 .. 15
              /\ InView = RamStore(RamBank(regs))
              /\ ~ClockInView(regs)
         /\ ~ClockInView(regs) /\ ~RamInView(regs) => InView = <<"none", 0>>
         /\ InView \in Stores \cup {<<"none", 0>>}
PROOF
  <1>1. ASSUME ClockInView(regs) PROVE regs.rtc_select - 8 \in ClockRegs
    BY <1>1 DEF ClockInView, CartInv, ClockSelected, ClockRegs
  <1>2. ASSUME RamInView(regs)
        PROVE  /\ RamBank(regs) \in 0 .. cart.ram_banks - 1
               /\ RamBank(regs) \in 0 .. 15
               /\ ~ClockInView(regs)
    BY <1>2, RamBankExists DEF RamInView
  <1> QED
    BY <1>1, <1>2, StoresApart DEF InView

(* A write to the window reaches the store in view and no other.            *)
LEMMA WindowPuts ==
  ASSUME CartInv, NEW v \in Data, WriteWindow(v), ClockInView(regs) \/ RamInView(regs)
  PROVE  Contents' = [Contents EXCEPT ![InView] = v] /\ InView \in Stores
PROOF
  <1>1. CASE ClockInView(regs)
    <2> DEFINE k == regs.rtc_select - 8
    <2>1. k \in ClockRegs /\ InView = ClockStore(k) /\ ~RamInView(regs)
      BY <1>1, ViewIsStore DEF RamInView
    <2>2. /\ rtc_regs' = [rtc_regs EXCEPT ![k] = v]
          /\ ram_data' = ram_data /\ cart' = cart
      BY <1>1, <2>1 DEF WriteWindow
    <2>3. rtc_regs'[k] = v /\ \A j \in ClockRegs : j # k => rtc_regs'[j] = rtc_regs[j]
      BY <2>1, <2>2 DEF CartInv, TypeOK
    <2> HIDE DEF k
    <2>4. ASSUME NEW s \in Stores PROVE Contents'[s] = [Contents EXCEPT ![InView] = v][s]
      <3>1. CASE \E b \in 0 .. 15 : s = RamStore(b)
        BY <2>1, <2>2, <3>1, StoresApart DEF Contents
      <3>2. CASE \E j \in ClockRegs : s = ClockStore(j)
        BY <2>1, <2>2, <2>3, <3>2, StoresApart DEF Contents
      <3> QED
        BY <3>1, <3>2, StoresApart
    <2> QED
      BY <2>1, <2>4, StoresApart DEF Contents
  <1>2. CASE RamInView(regs)
    <2> DEFINE b == RamBank(regs)
    <2>1. /\ b \in 0 .. cart.ram_banks - 1 /\ b \in 0 .. 15
          /\ InView = RamStore(b) /\ ~ClockInView(regs)
      BY <1>2, ViewIsStore
    <2>2. /\ ram_data' = [ram_data EXCEPT ![b] = v]
          /\ rtc_regs' = rtc_regs /\ cart' = cart
      BY <1>2, <2>1 DEF WriteWindow
    <2>3. /\ ram_data'[b] = v
          /\ b < cart.ram_banks
          /\ \A a \in 0 .. 15 : a # b => ram_data'[a] = ram_data[a]
      BY <2>1, <2>2, CartFields DEF CartInv, TypeOK
    <2> HIDE DEF b
    <2>4. ASSUME NEW s \in Stores PROVE Contents'[s] = [Contents EXCEPT ![InView] = v][s]
      <3>1. CASE \E a \in 0 .. 15 : s = RamStore(a)
        BY <2>1, <2>2, <2>3, <3>1, StoresApart DEF Contents
      <3>2. CASE \E j \in ClockRegs : s = ClockStore(j)
        BY <2>1, <2>2, <3>2, StoresApart DEF Contents
      <3> QED
        BY <3>1, <3>2, StoresApart
    <2> QED
      BY <2>1, <2>4, StoresApart DEF Contents
  <1> QED
    BY <1>1, <1>2

(* At first every store holds zero and none is in view.                     *)
LEMMA InitKeepsContract == Init => Contract!Init
PROOF
  <1> SUFFICES ASSUME Init PROVE Contract!Init
    OBVIOUS
  <1>1. \A k \in ClockRegs : rtc_regs[k] = 0 /\ rtc_latched[k] = 0
    BY DEF Init
  <1>2. \A b \in 0 .. 15 : b < cart.ram_banks => ram_data[b] = 0
    BY CartFields DEF Init
  <1>3. Contents \in [Stores -> {0}]
    <2>1. ASSUME NEW s \in Stores PROVE Contents[s] \in {0}
      BY <1>1, <1>2, StoresApart DEF Contents
    <2> QED
      BY <2>1 DEF Contents
  <1>4. Snapshot \in [ClockStores -> {0}]
    <2>1. ASSUME NEW s \in ClockStores PROVE Snapshot[s] \in {0}
      BY <1>1, StoresApart DEF Snapshot, ClockStores
    <2> QED
      BY <2>1 DEF Snapshot
  <1>5. InView = <<"none", 0>>
    BY DEF Init, PowerUp, InView, ClockInView, RamInView
  <1> QED
    BY <1>3, <1>4, <1>5 DEF Contract!Init, Contents, Snapshot, Stores

(* The latch of the clock moves nothing in the window.                      *)
LEMMA LatchKeepsView ==
  ASSUME CartInv, NEW block \in 0 .. 7, NEW v \in Written, WriteController(block, v),
         Latches(regs, block, v)
  PROVE  InView' = InView
PROOF
  <1>1. Write(regs, block, v) = [regs EXCEPT !.rtc_latch_prev = v]
    BY DEF Latches, Write, Mbc3Write
  <1>2. /\ regs'.rtc_mapped = regs.rtc_mapped
        /\ regs'.rtc_select = regs.rtc_select
        /\ regs'.ram_enabled = regs.ram_enabled
        /\ regs'.ram_bank_reg = regs.ram_bank_reg
        /\ regs'.banking_mode = regs.banking_mode
        /\ cart' = cart
    BY <1>1 DEF WriteController, CartInv, TypeOK, Registers
  <1>3. /\ ClockInView(regs)' = ClockInView(regs)
        /\ RamInView(regs)' = RamInView(regs)
        /\ RamBank(regs)' = RamBank(regs)
    BY <1>2 DEF ClockInView, RamInView, RamBank
  <1> QED
    BY <1>2, <1>3 DEF InView

(* The view after a step is one store or none, too.                         *)
LEMMA NextViewIsStore == CartInv' => (InView \in Stores \cup {<<"none", 0>>})'
PROOF
  <1>1. CartInv => InView \in Stores \cup {<<"none", 0>>}
    BY ViewIsStore
  <1> QED
    BY <1>1, PTL

(* A write to the controller moves the window, or latches the clock.        *)
LEMMA ControllerKeepsContract ==
  ASSUME CartInv, CartInv', NEW block \in 0 .. 7, NEW v \in Written,
         WriteController(block, v)
  PROVE  Contract!Next
PROOF
  <1>1. Contents' = Contents
    BY DEF WriteController, Contents
  <1>2. CASE Latches(regs, block, v)
    <2>1. InView' = InView
      BY <1>2, LatchKeepsView
    <2>2. Snapshot' = [s \in ClockStores |-> Contents[s]]
      <3>1. ASSUME NEW s \in ClockStores PROVE Snapshot'[s] = Contents[s]
        BY <1>2, StoresApart DEF WriteController, Snapshot, Contents, ClockStores, Stores
      <3> QED
        BY <3>1 DEF Snapshot
    <2> QED
      BY <1>1, <2>1, <2>2 DEF Contract!Next, Contract!Latch, Contents, Snapshot, Stores
  <1>3. CASE ~Latches(regs, block, v)
    <2>1. Snapshot' = Snapshot
      BY <1>3 DEF WriteController, Snapshot
    <2>2. InView' \in Stores \cup {<<"none", 0>>}
      BY NextViewIsStore
    <2> QED
      BY <1>1, <2>1, <2>2 DEF Contract!Next, Contract!Move, Contents, Snapshot, Stores
  <1> QED
    BY <1>2, <1>3

(* A write to the window writes the store in view, or nothing.              *)
LEMMA WindowKeepsContract ==
  ASSUME CartInv, NEW v \in Data, WriteWindow(v)
  PROVE  [Contract!Next]_(Contract!vars)
PROOF
  <1>1. Snapshot' = Snapshot /\ InView' = InView
    BY DEF WriteWindow, Snapshot, InView, ClockInView, RamInView, RamBank
  <1>2. CASE ClockInView(regs) \/ RamInView(regs)
    BY <1>1, <1>2, WindowPuts
    DEF Contract!Next, Contract!Put, Contents, Snapshot, Stores
  <1>3. CASE ~(ClockInView(regs) \/ RamInView(regs))
    BY <1>1, <1>3 DEF WriteWindow, Contract!vars, Contents, Snapshot, Stores
  <1> QED
    BY <1>2, <1>3

(* The controllers implement the contract of the cartridge: a byte written  *)
(* to the window reaches the store in view and no other, and a store that   *)
(* comes back into view holds what was last written to it.                  *)
THEOREM ContractIsKept == Spec => ContractKept
PROOF
  <1>1. CartInv /\ CartInv' /\ [Next]_vars => [Contract!Next]_(Contract!vars)
    <2> SUFFICES ASSUME CartInv, CartInv', [Next]_vars
                 PROVE  [Contract!Next]_(Contract!vars)
      OBVIOUS
    <2>1. CASE UNCHANGED vars
      BY <2>1 DEF vars, Contract!vars, InView, ClockInView, RamInView, RamBank
    <2>2. ASSUME NEW block \in 0 .. 7, NEW v \in Written, WriteController(block, v)
          PROVE  [Contract!Next]_(Contract!vars)
      BY <2>2, ControllerKeepsContract
    <2>3. ASSUME NEW v \in Data, WriteWindow(v)
          PROVE  [Contract!Next]_(Contract!vars)
      BY <2>3, WindowKeepsContract
    <2> QED
      BY <2>1, <2>2, <2>3 DEF Next
  <1> QED
    BY <1>1, InitKeepsContract, Invariance, PTL DEF Spec, ContractKept, Contract!Spec
-----------------------------------------------------------------------------
(* Banks are asked for in two parts.  The number an MBC1 puts together of   *)
(* seven bits is the bank, and where the lower five are zero the next one.  *)
LEMMA SevenBits ==
  ASSUME NEW n \in PowersOfTwo, n <= 128, NEW b \in 0 .. n - 1
  PROVE  (((b \div 32) % 4) * 32 + NotZero((b % 32) % 32)) % n
           = IF b % 32 = 0 THEN b + 1 ELSE b
PROOF
  <1>1. n \in {2, 4, 8, 16, 32, 64, 128}
    BY DEF PowersOfTwo
  <1>2. b \in 0 .. 127
    BY <1>1
  <1> DEFINE q == b \div 32
             s == b % 32
             seen == IF s = 0 THEN b + 1 ELSE b
  <1>3. q \in 0 .. 3 /\ s \in 0 .. 31 /\ b = 32 * q + s
    BY <1>2
  <1> HIDE DEF q, s
  <1>4. q % 4 = q /\ s % 32 = s
    BY <1>3
  <1>5. q * 32 + NotZero(s) = seen
    BY <1>3 DEF NotZero
  <1>6. seen \in 0 .. n - 1
    <2>1. CASE n <= 32
      BY <1>1, <1>3, <2>1
    <2>2. CASE n = 64
      BY <1>3, <2>2
    <2>3. CASE n = 128
      BY <1>3, <2>3
    <2> QED
      BY <1>1, <2>1, <2>2, <2>3
  <1>7. seen % n = seen
    BY <1>1, <1>6
  <1> HIDE DEF seen
  <1>8. ((q % 4) * 32 + NotZero(s % 32)) % n = seen
    BY <1>4, <1>5, <1>7, Zenon
  <1> QED
    BY <1>8 DEF q, s, seen

LEMMA SevenBitsOfMbc3 ==
  ASSUME NEW n \in PowersOfTwo, NEW b \in 0 .. n - 1, b < 128
  PROVE  NotZero(b % 128) % n = NotZero(b)
PROOF
  <1>1. b % 128 = b
    OBVIOUS
  <1>2. n \in {2, 4, 8, 16, 32, 64, 128, 256, 512} /\ NotZero(b) \in 0 .. n - 1
    BY DEF PowersOfTwo, NotZero
  <1>3. ASSUME NEW x \in 0 .. n - 1
        PROVE  x % n = x
    BY <1>2, <1>3
  <1> QED
    BY <1>1, <1>2, <1>3

(* The nine bits of an MBC5, whichever part is written first and whatever   *)
(* the bank was.                                                            *)
WithLow(bank, v)   == (bank \div 256) * 256 + v
WithNinth(bank, v) == (v % 2) * 256 + (bank % 256)

LEMMA NineBitsJoined ==
  ASSUME NEW b \in 0 .. 511, NEW bank \in 0 .. 511
  PROVE  /\ WithNinth(WithLow(bank, b % 256), b \div 256) = b
         /\ WithLow(WithNinth(bank, b \div 256), b % 256) = b
PROOF
  <1> DEFINE h == b \div 256
             l == b % 256
             p == bank \div 256
             r == bank % 256
  <1>1. h \in 0 .. 1 /\ l \in 0 .. 255 /\ b = h * 256 + l
    OBVIOUS
  <1>2. p \in 0 .. 1 /\ r \in 0 .. 255
    OBVIOUS
  <1> HIDE DEF h, l, p, r
  <1>3. h % 2 = h /\ (p * 256 + l) % 256 = l /\ (h * 256 + r) \div 256 = h
    BY <1>1, <1>2
  <1>4. (h % 2) * 256 + ((p * 256 + l) % 256) = b
    BY <1>1, <1>3
  <1>5. (((h % 2) * 256 + r) \div 256) * 256 + l = b
    BY <1>1, <1>3
  <1> QED
    BY <1>4, <1>5, Zenon DEF h, l, p, r, WithLow, WithNinth

LEMMA InRom ==
  ASSUME NEW n \in PowersOfTwo, NEW b \in 0 .. n - 1
  PROVE  b \in 0 .. 511 /\ b % n = b
PROOF
  <1>1. n \in {2, 4, 8, 16, 32, 64, 128, 256, 512}
    BY DEF PowersOfTwo
  <1> QED
    BY <1>1

LEMMA Mbc1Reaches ==
  ASSUME TypeOK, cart.mbc = "mbc1", cart.rom_banks <= 128, NEW b \in 0 .. cart.rom_banks - 1
  PROVE  LET seen == IF b % 32 = 0 THEN b + 1 ELSE b
         IN  AfterTwo(2, b % 32, 4, b \div 32) = seen /\ AfterTwo(4, b \div 32, 2, b % 32) = seen
PROOF
  <1> DEFINE low == NotZero((b % 32) % 32)
             high == (b \div 32) % 4
             seen == IF b % 32 = 0 THEN b + 1 ELSE b
  <1>1. regs \in Registers /\ cart.rom_banks \in PowersOfTwo
    BY CartsAssumption DEF TypeOK
  <1>2. (high * 32 + low) % cart.rom_banks = seen
    BY <1>1, SevenBits, Zenon
  <1>3. \A r : Write(r, 2, b % 32) = [r EXCEPT !.rom_bank_reg = low]
    BY DEF Write, Mbc1Write
  <1>4. \A r : Write(r, 4, b \div 32) = [r EXCEPT !.ram_bank_reg = high]
    BY DEF Write, Mbc1Write
  <1>5. \A r : HighBank(r) = (r.ram_bank_reg * 32 + r.rom_bank_reg) % cart.rom_banks
    BY DEF HighBank, Mbc1HighBank
  <1> HIDE DEF low, high, seen
  <1>6. ASSUME NEW r, \/ r = [[regs EXCEPT !.rom_bank_reg = low] EXCEPT !.ram_bank_reg = high]
                      \/ r = [[regs EXCEPT !.ram_bank_reg = high] EXCEPT !.rom_bank_reg = low]
        PROVE  r.ram_bank_reg = high /\ r.rom_bank_reg = low
    BY <1>1, <1>6 DEF Registers
  <1>7. AfterTwo(2, b % 32, 4, b \div 32) = seen
    BY <1>2, <1>3, <1>4, <1>5, <1>6 DEF AfterTwo
  <1>8. AfterTwo(4, b \div 32, 2, b % 32) = seen
    BY <1>2, <1>3, <1>4, <1>5, <1>6 DEF AfterTwo
  <1> QED
    BY <1>7, <1>8 DEF seen

LEMMA Mbc3Reaches ==
  ASSUME TypeOK, cart.mbc = "mbc3", NEW b \in 0 .. cart.rom_banks - 1, b < 128
  PROVE  HighBank(Write(regs, 2, b)) = NotZero(b)
PROOF
  <1> DEFINE bank == NotZero(b % 128)
  <1>1. regs \in Registers /\ cart.rom_banks \in PowersOfTwo
    BY CartsAssumption DEF TypeOK
  <1>2. bank % cart.rom_banks = NotZero(b)
    BY <1>1, SevenBitsOfMbc3
  <1>3. Write(regs, 2, b) = [regs EXCEPT !.rom_bank = bank]
    BY DEF Write, Mbc3Write
  <1> HIDE DEF bank
  <1>4. Write(regs, 2, b).rom_bank = bank
    BY <1>1, <1>3 DEF Registers
  <1> QED
    BY <1>2, <1>4 DEF HighBank

LEMMA Mbc5Reaches ==
  ASSUME TypeOK, cart.mbc = "mbc5", NEW b \in 0 .. cart.rom_banks - 1
  PROVE  /\ AfterTwo(2, b % 256, 3, b \div 256) = b
         /\ AfterTwo(3, b \div 256, 2, b % 256) = b
PROOF
  <1> DEFINE l == b % 256
             h == b \div 256
  <1>1. regs \in Registers /\ cart.rom_banks \in PowersOfTwo /\ regs.rom_bank \in 0 .. 511
    BY CartsAssumption, RomBankFits DEF TypeOK
  <1>2. /\ WithNinth(WithLow(regs.rom_bank, l), h) % cart.rom_banks = b
        /\ WithLow(WithNinth(regs.rom_bank, h), l) % cart.rom_banks = b
    <2>1. b \in 0 .. 511 /\ b % cart.rom_banks = b
      BY <1>1, InRom
    <2>2. WithNinth(WithLow(regs.rom_bank, l), h) = b /\ WithLow(WithNinth(regs.rom_bank, h), l) = b
      BY <1>1, <2>1, NineBitsJoined, Zenon
    <2> QED
      BY <2>1, <2>2, Zenon
  <1>3. \A r : Write(r, 2, l) = [r EXCEPT !.rom_bank = WithLow(r.rom_bank, l)]
    BY DEF Write, Mbc5Write, WithLow, WithNinth
  <1>4. \A r : Write(r, 3, h) = [r EXCEPT !.rom_bank = WithNinth(r.rom_bank, h)]
    BY DEF Write, Mbc5Write, WithLow, WithNinth
  <1>5. \A r : HighBank(r) = r.rom_bank % cart.rom_banks
    BY DEF HighBank
  <1> HIDE DEF l, h
  <1>6. \A x : "rom_bank" \in DOMAIN [regs EXCEPT !.rom_bank = x]
               /\ [regs EXCEPT !.rom_bank = x].rom_bank = x
    BY <1>1 DEF Registers
  <1>7. AfterTwo(2, l, 3, h) = b
    <2> DEFINE r == Write(regs, 2, l)
    <2>1. r.rom_bank = WithLow(regs.rom_bank, l) /\ "rom_bank" \in DOMAIN r
      BY <1>3, <1>6
    <2> HIDE DEF r
    <2>2. Write(r, 3, h).rom_bank = WithNinth(r.rom_bank, h)
      BY <1>4, <2>1
    <2> QED
      BY <1>2, <1>5, <2>1, <2>2 DEF AfterTwo, r
  <1>8. AfterTwo(3, h, 2, l) = b
    <2> DEFINE r == Write(regs, 3, h)
    <2>1. r.rom_bank = WithNinth(regs.rom_bank, h) /\ "rom_bank" \in DOMAIN r
      BY <1>4, <1>6
    <2> HIDE DEF r
    <2>2. Write(r, 2, l).rom_bank = WithLow(r.rom_bank, l)
      BY <1>3, <2>1
    <2> QED
      BY <1>2, <1>5, <2>1, <2>2 DEF AfterTwo, r
  <1> QED
    BY <1>7, <1>8 DEF l, h

(* On every cartridge a program brings any bank of ROM into view, from any  *)
(* state of the controller.  The two registers of an MBC1 number 128 banks, *)
(* so that a larger ROM must not come with one.                             *)
THEOREM BanksAreInReach ==
  ASSUME \A c \in Carts : c.mbc = "mbc1" => c.rom_banks <= 128
  PROVE  Spec => []EveryBankInReach
PROOF
  <1>1. TypeOK => EveryBankInReach
    <2> SUFFICES ASSUME TypeOK, NEW b \in 0 .. cart.rom_banks - 1
                 PROVE  /\ cart.mbc = "mbc1" =>
                             LET seen == IF b % 32 = 0 THEN b + 1 ELSE b IN
                               /\ AfterTwo(2, b % 32, 4, b \div 32) = seen
                               /\ AfterTwo(4, b \div 32, 2, b % 32) = seen
                        /\ cart.mbc = "mbc3" /\ b < 128 => HighBank(Write(regs, 2, b)) = NotZero(b)
                        /\ cart.mbc = "mbc5" =>
                             /\ AfterTwo(2, b % 256, 3, b \div 256) = b
                             /\ AfterTwo(3, b \div 256, 2, b % 256) = b
      BY DEF EveryBankInReach
    <2>1. cart.mbc = "mbc1" => cart.rom_banks <= 128
      BY DEF TypeOK
    <2> QED
      BY <2>1, Mbc1Reaches, Mbc3Reaches, Mbc5Reaches, Zenon
  <1> QED
    BY <1>1, TypeCorrect, PTL
=============================================================================
