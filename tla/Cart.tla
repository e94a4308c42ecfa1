-------------------------------- MODULE Cart --------------------------------
(***************************************************************************)
(* lib/cart.cpp: the memory bank controllers.  A write below 0x8000 sets a *)
(* register of the controller; the registers decide which bank of ROM is   *)
(* seen at 0x0000 and at 0x4000, and which bank of RAM or register of the  *)
(* clock is seen at 0xA000.                                                *)
(*                                                                         *)
(* An address is the 4 KB block it lies in, since no test of the code is   *)
(* finer.  The offset in a bank goes through unchanged, so that one cell   *)
(* stands for a bank.  Registers have their real widths.  The number of    *)
(* banks is a power of two, so that "& (n - 1)" is "% n"; the file of a    *)
(* cartridge holds all the banks its header announces, so that the         *)
(* "% ctx.rom_size" that follows changes nothing.                          *)
(***************************************************************************)
EXTENDS Naturals

CONSTANTS
  Carts,     \* cartridges: [mbc, rtc, rom_banks, ram_banks]
  Written,   \* the bytes the program writes to the controller
  Data       \* the bytes the program stores

Controllers == {"none", "mbc1", "mbc3", "mbc5"}
PowersOfTwo == {2, 4, 8, 16, 32, 64, 128, 256, 512}
RamSizes    == {0, 1, 4, 8, 16}

ASSUME CartsAssumption ==
  Carts \subseteq [mbc : Controllers, rtc : BOOLEAN,
                   rom_banks : PowersOfTwo, ram_banks : RamSizes]
ASSUME ByteAssumption == Written \subseteq 0 .. 255 /\ Data \subseteq 0 .. 255 /\ 0 \in Data

VARIABLES
  cart,          \* ctx.header: the cartridge that was loaded
  regs,          \* the registers of the controller, see Registers
  ram_data,      \* ctx.ram_data, a cell for each bank
  rtc_regs,      \* ctx.rtc_regs
  rtc_latched    \* ctx.rtc_latched

vars == <<cart, regs, ram_data, rtc_regs, rtc_latched>>

ClockRegs == 0 .. 4

Registers ==
  [ram_enabled : BOOLEAN, ram_bank_reg : 0 .. 15, rom_bank_reg : 1 .. 31,
   banking_mode : 0 .. 1, rom_bank : 0 .. 511,
   rtc_mapped : BOOLEAN, rtc_select : {0} \cup 8 .. 12, rtc_latch_prev : 0 .. 255]

(* cart_load *)
PowerUp ==
  [ram_enabled |-> FALSE, ram_bank_reg |-> 0, rom_bank_reg |-> 1,
   banking_mode |-> 0, rom_bank |-> 1,
   rtc_mapped |-> FALSE, rtc_select |-> 0, rtc_latch_prev |-> 255]

Init ==
  /\ cart \in Carts
  /\ regs = PowerUp
  /\ ram_data = [b \in 0 .. cart.ram_banks - 1 |-> 0]
  /\ rtc_regs = [k \in ClockRegs |-> 0]
  /\ rtc_latched = [k \in ClockRegs |-> 0]
-----------------------------------------------------------------------------
(* Writes to the controller, as functions of the registers r. *)

EnableRam(r, v) == [r EXCEPT !.ram_enabled = (v % 16 = 10)]

(* Bank 0 cannot be asked for. *)
NotZero(n) == IF n = 0 THEN 1 ELSE n

Mbc1Write(r, block, v) ==
  CASE block \in 0 .. 1 -> EnableRam(r, v)
    [] block \in 2 .. 3 -> [r EXCEPT !.rom_bank_reg = NotZero(v % 32)]
    [] block \in 4 .. 5 -> [r EXCEPT !.ram_bank_reg = v % 4]
    [] block \in 6 .. 7 -> [r EXCEPT !.banking_mode = v % 2]

Mbc3Write(r, block, v) ==
  CASE block \in 0 .. 1 -> EnableRam(r, v)
    [] block \in 2 .. 3 -> [r EXCEPT !.rom_bank = NotZero(v % 128)]
    [] block \in 4 .. 5 /\ v <= 3 ->
         [r EXCEPT !.ram_bank_reg = v, !.rtc_mapped = FALSE]
    [] block \in 4 .. 5 /\ v \in 8 .. 12 ->
         [r EXCEPT !.rtc_select = v, !.rtc_mapped = TRUE]
    [] block \in 4 .. 5 /\ v > 3 /\ v \notin 8 .. 12 -> r
    [] block \in 6 .. 7 -> [r EXCEPT !.rtc_latch_prev = v]

(* Mutant: the lower byte of the bank clears the ninth bit. *)
Mbc5Forgets(r, block, v) ==
  CASE block \in 0 .. 1 -> EnableRam(r, v)
    [] block = 2        -> [r EXCEPT !.rom_bank = v]
    [] block = 3        -> [r EXCEPT !.rom_bank = (v % 2) * 256 + (@ % 256)]
    [] block \in 4 .. 5 -> [r EXCEPT !.ram_bank_reg = v % 16]
    [] block \in 6 .. 7 -> r

Mbc5Write(r, block, v) ==
  CASE block \in 0 .. 1 -> EnableRam(r, v)
    [] block = 2        -> [r EXCEPT !.rom_bank = (@ \div 256) * 256 + v]
    [] block = 3        -> [r EXCEPT !.rom_bank = (v % 2) * 256 + (@ % 256)]
    [] block \in 4 .. 5 -> [r EXCEPT !.ram_bank_reg = v % 16]
    [] block \in 6 .. 7 -> r

(* cart_write below 0x8000 *)
Write(r, block, v) ==
  CASE cart.mbc = "mbc1" -> Mbc1Write(r, block, v)
    [] cart.mbc = "mbc3" -> Mbc3Write(r, block, v)
    [] cart.mbc = "mbc5" -> Mbc5Write(r, block, v)
    [] cart.mbc = "none" -> r

(* The clock is latched by a 1 that follows a 0. *)
Latches(r, block, v) ==
  /\ cart.mbc = "mbc3"
  /\ block \in 6 .. 7
  /\ r.rtc_latch_prev = 0
  /\ v = 1
-----------------------------------------------------------------------------
(* What the registers r bring into the three windows. *)

(* Mutant: the bank is not cut to the size of the ROM. *)
LowBankUncut(r) ==
  IF cart.mbc = "mbc1" /\ r.banking_mode = 1 THEN r.ram_bank_reg * 32 ELSE 0

(* The bank of ROM at 0x0000. *)
LowBank(r) ==
  IF cart.mbc = "mbc1" /\ r.banking_mode = 1
  THEN (r.ram_bank_reg * 32) % cart.rom_banks
  ELSE 0

(* The bank of ROM at 0x4000.  Both registers count in both modes of MBC1. *)
Mbc1HighBank(r) == (r.ram_bank_reg * 32 + r.rom_bank_reg) % cart.rom_banks

HighBank(r) ==
  CASE cart.mbc = "mbc1" -> Mbc1HighBank(r)
    [] cart.mbc \in {"mbc3", "mbc5"} -> r.rom_bank % cart.rom_banks
    [] cart.mbc = "none" -> 1

RamBank(r) ==
  IF cart.mbc = "mbc1" /\ (r.banking_mode = 0 \/ cart.ram_banks = 1)
  THEN 0
  ELSE r.ram_bank_reg % cart.ram_banks

ClockInView(r) == cart.mbc = "mbc3" /\ r.ram_enabled /\ r.rtc_mapped /\ cart.rtc

(* Mutant: the RAM is written behind the clock. *)
RamBehindClock(r) == cart.mbc # "none" /\ r.ram_enabled /\ cart.ram_banks > 0

RamInView(r) ==
  cart.mbc # "none" /\ r.ram_enabled /\ ~ClockInView(r) /\ cart.ram_banks > 0
-----------------------------------------------------------------------------
(* A write below 0x8000. *)
WriteController(block, v) ==
  /\ regs' = Write(regs, block, v)
  /\ rtc_latched' = IF Latches(regs, block, v) THEN rtc_regs ELSE rtc_latched
  /\ UNCHANGED <<cart, ram_data, rtc_regs>>

(* A write at 0xA000 and above, to what is in view. *)
WriteWindow(v) ==
  /\ IF ClockInView(regs)
     THEN rtc_regs' = [rtc_regs EXCEPT ![regs.rtc_select - 8] = v]
     ELSE UNCHANGED rtc_regs
  /\ IF RamInView(regs)
     THEN ram_data' = [ram_data EXCEPT ![RamBank(regs)] = v]
     ELSE UNCHANGED ram_data
  /\ UNCHANGED <<cart, regs, rtc_latched>>

Next ==
  \/ \E block \in 0 .. 7, v \in Written : WriteController(block, v)
  \/ \E v \in Data : WriteWindow(v)

Spec == Init /\ [][Next]_vars
-----------------------------------------------------------------------------
TypeOK ==
  /\ cart \in Carts
  /\ regs \in Registers
  /\ ram_data \in [0 .. cart.ram_banks - 1 -> 0 .. 255]
  /\ rtc_regs \in [ClockRegs -> 0 .. 255]
  /\ rtc_latched \in [ClockRegs -> 0 .. 255]

(* From whatever state the registers are in, a program brings any bank of   *)
(* ROM into view by writing the two parts of its number, in either order.   *)
(* Only a bank whose lower part cannot be asked for is out of reach, and    *)
(* then the next one is seen.                                               *)
AfterTwo(block1, v1, block2, v2) == HighBank(Write(Write(regs, block1, v1), block2, v2))

EveryBankInReach ==
  \A b \in 0 .. cart.rom_banks - 1 :
    /\ cart.mbc = "mbc1" =>
         LET seen == IF b % 32 = 0 THEN b + 1 ELSE b IN
           /\ AfterTwo(2, b % 32, 4, b \div 32) = seen
           /\ AfterTwo(4, b \div 32, 2, b % 32) = seen
    /\ cart.mbc = "mbc3" /\ b < 128 => HighBank(Write(regs, 2, b)) = NotZero(b)
    /\ cart.mbc = "mbc5" =>
         /\ AfterTwo(2, b % 256, 3, b \div 256) = b
         /\ AfterTwo(3, b \div 256, 2, b % 256) = b

(* The MBC1 has one register for the upper bits of the bank of ROM and for  *)
(* the bank of RAM.  A program on a cartridge of up to 32 banks of ROM      *)
(* never sees its code move when it selects a bank of RAM, or the mode.     *)
RamSelectKeepsRom ==
  [][\A block \in 4 .. 7, v \in Written :
        WriteController(block, v) /\ (cart.mbc = "mbc1" => cart.rom_banks <= 32) =>
          LowBank(regs') = LowBank(regs) /\ HighBank(regs') = HighBank(regs)]_vars

(* The controller keeps the promise of CartContract: a store is reached     *)
(* only through the window, only while it is in view, and keeps its byte    *)
(* while other stores, or none, are in view.                                *)
RamStore(b)   == <<"ram", b>>
ClockStore(k) == <<"clock", k>>
RamStores     == {RamStore(b) : b \in 0 .. 15}
ClockStores   == {ClockStore(k) : k \in ClockRegs}

InView ==
  IF ClockInView(regs) THEN ClockStore(regs.rtc_select - 8)
  ELSE IF RamInView(regs) THEN RamStore(RamBank(regs))
  ELSE <<"none", 0>>

Contract ==
  INSTANCE CartContract WITH
    Stores     <- RamStores \cup ClockStores,
    ClockParts <- ClockStores,
    NoStore    <- <<"none", 0>>,
    contents   <- [s \in RamStores \cup ClockStores |->
                     IF s[1] = "clock" THEN rtc_regs[s[2]]
                     ELSE IF s[2] < cart.ram_banks THEN ram_data[s[2]] ELSE 0],
    snapshot   <- [s \in ClockStores |-> rtc_latched[s[2]]],
    view       <- InView
ContractKept == Contract!Spec
=============================================================================
