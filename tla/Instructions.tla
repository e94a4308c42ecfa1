------------------------------ MODULE Instructions ------------------------------
(***************************************************************************)
(* The execute functions of lib/cpu_proc.cpp: what one instruction does to *)
(* the registers, the flags, the stack and memory, and how many cycles it  *)
(* takes.                                                                  *)
(*                                                                         *)
(* A bench is a machine at some point of a program, with what the program  *)
(* executes from there on: a listing, which for each step is the set of    *)
(* opcodes that may come next.  The bytes that follow an opcode are any    *)
(* of operands; fetch8 takes the low byte of one.  Memory is the RAM at    *)
(* the addresses Ram; the other addresses a bench reaches are those of the *)
(* unusable area, where a read gives 0xFF and a write is ignored.          *)
(*                                                                         *)
(* What EI, DI, HALT, STOP and RETI do to ime, halt and the timer is in    *)
(* the module Cpu.                                                         *)
(***************************************************************************)
EXTENDS Alu, Decode, Sequences

CONSTANTS
  Ram,        \* the addresses of the RAM
  Benches     \* the machines and listings to begin with

ASSUME RamAssumption == Ram \subseteq Word
ASSUME BenchAssumption ==
  \A b \in Benches :
    /\ b.reg \in [Reg8 -> Byte]
    /\ b.F \in FlagSet
    /\ b.SP \in Word
    /\ b.PC \in Word
    /\ b.mem \in [Ram -> Byte]
    /\ b.operands \in SUBSET Word
    /\ b.listing \in Seq(SUBSET Opcodes)

VARIABLES
  reg,        \* cpu.A, cpu.B, cpu.C, cpu.D, cpu.E, cpu.H, cpu.L
  F,          \* cpu.F
  SP,         \* cpu.SP
  PC,         \* cpu.PC
  mem,        \* the RAM
  cycles,     \* what the execute function returned
  op,         \* the opcode that was executed
  operands,   \* the bytes that may follow an opcode
  listing     \* what is still to be executed

(* History, for the properties only. *)
VARIABLES
  done,       \* the last arithmetic that the flags tell of
  pushed      \* the words pushed and not popped, the last one first

vars == <<reg, F, SP, PC, mem, cycles, op, operands, listing, done, pushed>>

(* No arithmetic: the flags come from somewhere else. *)
None == [type |-> "NONE", a |-> 0, s |-> 0, c |-> 0, inA |-> FALSE, flags |-> FALSE]

Init ==
  \E b \in Benches :
    /\ reg = b.reg
    /\ F = b.F
    /\ SP = b.SP
    /\ PC = b.PC
    /\ mem = b.mem
    /\ cycles = 0
    /\ op = 0
    /\ operands = b.operands
    /\ listing = b.listing
    /\ done = None
    /\ pushed = <<>>
-----------------------------------------------------------------------------
(* bus_read and bus_write: echo RAM is the work RAM 0x2000 below. *)
Cell(a) == IF a \in 57344 .. 65023 THEN a - 8192 ELSE a
BusRead(a) == IF Cell(a) \in Ram THEN mem[Cell(a)] ELSE 255
Put(m, a, v) == IF Cell(a) \in Ram THEN [m EXCEPT ![Cell(a)] = v] ELSE m

Wrap(n) == n % 65536

(* bus_read16, stack_pop16: the low byte is at the lower address. *)
BusRead16(a) == BusRead(a) + 256 * BusRead(Wrap(a + 1))

(* Mutant: the high byte goes to the lower address. *)
Put16Swapped(m, a, v) == Put(Put(m, Wrap(a + 1), v % 256), a, v \div 256)

(* bus_write16, stack_push16 *)
Put16(m, a, v) == Put(Put(m, Wrap(a + 1), v \div 256), a, v % 256)

FlagByte(f) ==
  (IF f.Z THEN 128 ELSE 0) + (IF f.N THEN 64 ELSE 0) +
  (IF f.H THEN 32 ELSE 0) + (IF f.C THEN 16 ELSE 0)
FlagsOf(b) == Flags(7 \in BitsOf(b), 6 \in BitsOf(b), 5 \in BitsOf(b), 4 \in BitsOf(b))

High(r) == CASE r = "BC" -> "B" [] r = "DE" -> "D" [] r = "HL" -> "H"
Low(r)  == CASE r = "BC" -> "C" [] r = "DE" -> "E" [] r = "HL" -> "L"

read_reg16(r) ==
  CASE r = "SP" -> SP
    [] r = "AF" -> 256 * reg["A"] + FlagByte(F)
    [] r \in {"BC", "DE", "HL"} -> 256 * reg[High(r)] + reg[Low(r)]

(* write_reg16 of the pairs that are not AF *)
write_reg16(r, v) ==
  \/ r = "SP" /\ SP' = v /\ UNCHANGED reg
  \/ /\ r \in {"BC", "DE", "HL"}
     /\ reg' = [reg EXCEPT ![High(r)] = v \div 256, ![Low(r)] = v % 256]
     /\ UNCHANGED SP
-----------------------------------------------------------------------------
(* The bytes an execute function fetches behind the opcode. *)
OneByteModes == {"REG8_IMM8", "MEM_REG16_IMM8", "MEM_FF00_IMM8_REG8", "REG8_MEM_FF00_IMM8",
                 "REG16_IMM8", "REG16_SP_IMM8", "REL8"}
TwoByteModes == {"REG16_IMM16", "MEM_IMM16_REG16", "MEM_IMM16_REG8", "REG8_MEM_IMM16", "ABS16"}

Fetched(i) == IF i.mode \in OneByteModes THEN 1 ELSE IF i.mode \in TwoByteModes THEN 2 ELSE 0

(* The prefix 0xCB is a byte of its own. *)
Length(o) == (IF o > 255 THEN 2 ELSE 1) + Fetched(decode(o))

(* cpu.PC when the instruction o has been fetched. *)
After(o) == Wrap(PC + Length(o))
Fetch(o) == PC' = After(o)

Imm8(n) == n % 256

(* The address an instruction names for its byte in memory. *)
Address(i, n) ==
  CASE i.mode \in {"MEM_REG16", "MEM_REG16_REG8", "MEM_REG16_IMM8"} -> read_reg16(i.reg_1)
    [] i.mode = "REG8_MEM_REG16" -> read_reg16(i.reg_2)
    [] i.mode \in {"MEM_HLI_REG8", "MEM_HLD_REG8", "REG8_MEM_HLI", "REG8_MEM_HLD"} ->
         read_reg16("HL")
    [] i.mode \in {"MEM_FF00_IMM8_REG8", "REG8_MEM_FF00_IMM8"} -> 65280 + Imm8(n)
    [] i.mode \in {"MEM_FF00_C_REG8", "REG8_MEM_FF00_C"} -> 65280 + reg["C"]
    [] i.mode \in {"MEM_IMM16_REG8", "REG8_MEM_IMM16"} -> n

Holds(c) ==
  CASE c = "CT_NONE" -> TRUE
    [] c = "CT_Z"  -> F.Z
    [] c = "CT_NZ" -> ~F.Z
    [] c = "CT_C"  -> F.C
    [] c = "CT_NC" -> ~F.C
-----------------------------------------------------------------------------
(* execute_ld *)
ToRegister == {"REG8_REG8", "REG8_IMM8", "REG8_MEM_REG16", "REG8_MEM_HLI", "REG8_MEM_HLD",
               "REG8_MEM_FF00_IMM8", "REG8_MEM_FF00_C", "REG8_MEM_IMM16"}
ToMemory   == {"MEM_REG16_REG8", "MEM_REG16_IMM8", "MEM_HLI_REG8", "MEM_HLD_REG8",
               "MEM_FF00_IMM8_REG8", "MEM_FF00_C_REG8", "MEM_IMM16_REG8"}

LdCycles(m) ==
  CASE m = "REG8_REG8" -> 4
    [] m \in {"REG8_IMM8", "REG16_REG16", "MEM_REG16_REG8", "REG8_MEM_REG16", "MEM_HLI_REG8",
              "REG8_MEM_HLI", "MEM_HLD_REG8", "REG8_MEM_HLD", "MEM_FF00_C_REG8",
              "REG8_MEM_FF00_C"} -> 8
    [] m \in {"REG16_IMM16", "REG16_SP_IMM8", "MEM_REG16_IMM8", "MEM_FF00_IMM8_REG8",
              "REG8_MEM_FF00_IMM8"} -> 12
    [] m \in {"REG8_MEM_IMM16", "MEM_IMM16_REG8"} -> 16
    [] m = "MEM_IMM16_REG16" -> 20

(* HL steps behind a transfer by LD (HL+) or LD (HL-). *)
Stepped(r, m) ==
  LET hl == 256 * r["H"] + r["L"]
      d  == IF m \in {"MEM_HLI_REG8", "REG8_MEM_HLI"} THEN 1
            ELSE IF m \in {"MEM_HLD_REG8", "REG8_MEM_HLD"} THEN -1 ELSE 0
  IN  [r EXCEPT !["H"] = Wrap(hl + d) \div 256, !["L"] = Wrap(hl + d) % 256]

LoadRegister(i, n) ==
  LET v == CASE i.mode = "REG8_REG8" -> reg[i.reg_2]
             [] i.mode = "REG8_IMM8" -> Imm8(n)
             [] i.mode \notin {"REG8_REG8", "REG8_IMM8"} -> BusRead(Address(i, n))
  IN  /\ i.mode \in ToRegister
      /\ reg' = Stepped([reg EXCEPT ![i.reg_1] = v], i.mode)
      /\ UNCHANGED <<F, SP, mem>>

LoadMemory(i, n) ==
  LET v == IF i.mode = "MEM_REG16_IMM8" THEN Imm8(n) ELSE reg[i.reg_2]
  IN  /\ i.mode \in ToMemory
      /\ mem' = Put(mem, Address(i, n), v)
      /\ reg' = Stepped(reg, i.mode)
      /\ UNCHANGED <<F, SP>>

LoadPair(i, n) ==
  /\ i.mode \in {"REG16_IMM16", "REG16_REG16"}
  /\ write_reg16(i.reg_1, IF i.mode = "REG16_IMM16" THEN n ELSE read_reg16(i.reg_2))
  /\ UNCHANGED <<F, mem>>

StorePair(i, n) ==
  /\ i.mode = "MEM_IMM16_REG16"
  /\ mem' = Put16(mem, n, read_reg16(i.reg_2))
  /\ UNCHANGED <<reg, F, SP>>

(* LD HL,SP+e8 *)
LoadOffset(i, n) ==
  LET r == AddOffset(read_reg16(i.reg_2), Imm8(n))
  IN  /\ i.mode = "REG16_SP_IMM8"
      /\ reg' = [reg EXCEPT !["H"] = r.value \div 256, !["L"] = r.value % 256]
      /\ F' = r.flags
      /\ UNCHANGED <<SP, mem>>

execute_ld(o, n) ==
  LET i == decode(o)
  IN  /\ i.type = "LD"
      /\ \/ LoadRegister(i, n)
         \/ LoadMemory(i, n)
         \/ LoadPair(i, n)
         \/ StorePair(i, n)
         \/ LoadOffset(i, n)
      /\ Fetch(o)
      /\ cycles' = LdCycles(i.mode)
-----------------------------------------------------------------------------
(* The arithmetic on A: ADD, ADC, SUB, SBC, AND, XOR, OR, CP *)
Operation(t, a, s, f) ==
  CASE t = "ADD" -> Add(a, s)
    [] t = "ADC" -> Adc(a, s, f)
    [] t = "SUB" -> Sub(a, s)
    [] t = "SBC" -> Sbc(a, s, f)
    [] t = "AND" -> And(a, s)
    [] t = "XOR" -> Xor(a, s)
    [] t = "OR"  -> Or(a, s)
    [] t = "CP"  -> Result(a, Cp(a, s))

AluTypes == {"ADD", "ADC", "SUB", "SBC", "AND", "XOR", "OR", "CP"}
AluModes == {"REG8_REG8", "REG8_IMM8", "REG8_MEM_REG16"}

Source(i, n) ==
  CASE i.mode = "REG8_REG8" -> reg[i.reg_2]
    [] i.mode = "REG8_IMM8" -> Imm8(n)
    [] i.mode = "REG8_MEM_REG16" -> BusRead(Address(i, n))

Arithmetic(o, n) ==
  LET i == decode(o)
      r == Operation(i.type, reg["A"], Source(i, n), F)
  IN  /\ i.type \in AluTypes /\ i.mode \in AluModes
      /\ reg' = [reg EXCEPT !["A"] = r.value]
      /\ F' = r.flags
      /\ Fetch(o)
      /\ cycles' = IF i.mode = "REG8_REG8" THEN 4 ELSE 8
      /\ UNCHANGED <<SP, mem>>

(* ADD HL,rr *)
AddPair(o) ==
  LET i == decode(o)
      r == AddWords(read_reg16("HL"), read_reg16(i.reg_2), F)
  IN  /\ i.type = "ADD" /\ i.mode = "REG16_REG16"
      /\ reg' = [reg EXCEPT !["H"] = r.value \div 256, !["L"] = r.value % 256]
      /\ F' = r.flags
      /\ Fetch(o)
      /\ cycles' = 8
      /\ UNCHANGED <<SP, mem>>

(* ADD SP,e8 *)
AddToSP(o, n) ==
  LET i == decode(o)
      r == AddOffset(SP, Imm8(n))
  IN  /\ i.type = "ADD" /\ i.mode = "REG16_IMM8"
      /\ SP' = r.value
      /\ F' = r.flags
      /\ Fetch(o)
      /\ cycles' = 16
      /\ UNCHANGED <<reg, mem>>

(* execute_rlca to execute_ccf *)
OnAccumulator(t, a, f) ==
  CASE t = "RLCA" -> OfA(Rlc(a))
    [] t = "RRCA" -> OfA(Rrc(a))
    [] t = "RLA"  -> OfA(Rl(a, f))
    [] t = "RRA"  -> OfA(Rr(a, f))
    [] t = "DAA"  -> Daa(a, f)
    [] t = "CPL"  -> Result(Cpl(a), [f EXCEPT !.N = TRUE, !.H = TRUE])
    [] t = "SCF"  -> Result(a, Scf(f))
    [] t = "CCF"  -> Result(a, Ccf(f))

AccumulatorTypes == {"RLCA", "RRCA", "RLA", "RRA", "DAA", "CPL", "SCF", "CCF"}

Accumulator(o) ==
  LET i == decode(o)
      r == OnAccumulator(i.type, reg["A"], F)
  IN  /\ i.type \in AccumulatorTypes
      /\ reg' = [reg EXCEPT !["A"] = r.value]
      /\ F' = r.flags
      /\ Fetch(o)
      /\ cycles' = 4
      /\ UNCHANGED <<SP, mem>>
-----------------------------------------------------------------------------
(* An instruction that reads a register or the byte at HL and writes it back. *)
TargetByte(i) == IF i.mode = "REG8" THEN reg[i.reg_1] ELSE BusRead(read_reg16(i.reg_1))

WriteBack(i, v) ==
  \/ /\ i.mode = "REG8"
     /\ reg' = [reg EXCEPT ![i.reg_1] = v]
     /\ UNCHANGED mem
  \/ /\ i.mode = "MEM_REG16"
     /\ mem' = Put(mem, read_reg16(i.reg_1), v)
     /\ UNCHANGED reg

execute_inc_dec(o) ==
  LET i == decode(o)
      r == IF i.type = "INC" THEN Inc(TargetByte(i), F) ELSE Dec(TargetByte(i), F)
  IN  /\ i.type \in {"INC", "DEC"} /\ i.mode \in {"REG8", "MEM_REG16"}
      /\ WriteBack(i, r.value)
      /\ F' = r.flags
      /\ Fetch(o)
      /\ cycles' = IF i.mode = "REG8" THEN 4 ELSE 12
      /\ UNCHANGED SP

IncDecPair(o) ==
  LET i == decode(o)
  IN  /\ i.type \in {"INC", "DEC"} /\ i.mode = "REG16"
      /\ write_reg16(i.reg_1, Wrap(read_reg16(i.reg_1) + IF i.type = "INC" THEN 1 ELSE -1))
      /\ Fetch(o)
      /\ cycles' = 8
      /\ UNCHANGED <<F, mem>>

(* The instructions behind the prefix 0xCB. *)
Bitwise(i, v, f) ==
  CASE i.type = "RLC"  -> Rlc(v)
    [] i.type = "RRC"  -> Rrc(v)
    [] i.type = "RL"   -> Rl(v, f)
    [] i.type = "RR"   -> Rr(v, f)
    [] i.type = "SLA"  -> Sla(v)
    [] i.type = "SRA"  -> Sra(v)
    [] i.type = "SWAP" -> Swap(v)
    [] i.type = "SRL"  -> Srl(v)
    [] i.type = "RES"  -> Result(Res(v, i.param), f)
    [] i.type = "SET"  -> Result(Set(v, i.param), f)

BitwiseTypes == {"RLC", "RRC", "RL", "RR", "SLA", "SRA", "SWAP", "SRL", "RES", "SET"}

(* Mutant: memory costs one access, as for BIT, and not two. *)
CbCyclesOfBit(m) == IF m = "REG8" THEN 8 ELSE 12

CbCycles(m) == IF m = "REG8" THEN 8 ELSE 16

ChangeBits(o) ==
  LET i == decode(o)
      r == Bitwise(i, TargetByte(i), F)
  IN  /\ i.type \in BitwiseTypes
      /\ WriteBack(i, r.value)
      /\ F' = r.flags
      /\ Fetch(o)
      /\ cycles' = CbCycles(i.mode)
      /\ UNCHANGED SP

execute_bit(o) ==
  LET i == decode(o)
  IN  /\ i.type = "BIT"
      /\ F' = Bit(TargetByte(i), i.param, F)
      /\ Fetch(o)
      /\ cycles' = IF i.mode = "REG8" THEN 8 ELSE 12
      /\ UNCHANGED <<reg, SP, mem>>
-----------------------------------------------------------------------------
execute_jr(o, n) ==
  LET i == decode(o)
  IN  /\ i.type = "JR"
      /\ \/ Holds(i.cond) /\ PC' = Wrap(After(o) + Signed(Imm8(n))) /\ cycles' = 12
         \/ ~Holds(i.cond) /\ Fetch(o) /\ cycles' = 8
      /\ UNCHANGED <<reg, F, SP, mem>>

execute_jp(o, n) ==
  LET i == decode(o)
  IN  /\ i.type = "JP"
      /\ \/ i.mode = "REG16" /\ PC' = read_reg16(i.reg_1) /\ cycles' = 4
         \/ i.mode = "ABS16" /\ Holds(i.cond) /\ PC' = n /\ cycles' = 16
         \/ i.mode = "ABS16" /\ ~Holds(i.cond) /\ Fetch(o) /\ cycles' = 12
      /\ UNCHANGED <<reg, F, SP, mem>>

Push(v) ==
  /\ SP' = Wrap(SP - 2)
  /\ mem' = Put16(mem, Wrap(SP - 2), v)

Popped == BusRead16(SP)

execute_call(o, n) ==
  LET i == decode(o)
  IN  /\ i.type = "CALL"
      /\ \/ Holds(i.cond) /\ Push(After(o)) /\ PC' = n /\ cycles' = 24
         \/ ~Holds(i.cond) /\ Fetch(o) /\ cycles' = 12 /\ UNCHANGED <<SP, mem>>
      /\ UNCHANGED <<reg, F>>

execute_rst(o) ==
  LET i == decode(o)
  IN  /\ i.type = "RST"
      /\ Push(After(o))
      /\ PC' = i.param
      /\ cycles' = 16
      /\ UNCHANGED <<reg, F>>

(* RETI is RET here. *)
execute_ret(o) ==
  LET i == decode(o)
  IN  /\ i.type \in {"RET", "RETI"}
      /\ \/ /\ Holds(i.cond)
            /\ PC' = Popped
            /\ SP' = Wrap(SP + 2)
            /\ cycles' = IF i.cond = "CT_NONE" THEN 16 ELSE 20
         \/ /\ ~Holds(i.cond)
            /\ Fetch(o)
            /\ cycles' = 8
            /\ UNCHANGED SP
      /\ UNCHANGED <<reg, F, mem>>

execute_push(o) ==
  LET i == decode(o)
  IN  /\ i.type = "PUSH"
      /\ Push(read_reg16(i.reg_1))
      /\ Fetch(o)
      /\ cycles' = 16
      /\ UNCHANGED <<reg, F>>

execute_pop(o) ==
  LET i == decode(o)
  IN  /\ i.type = "POP"
      /\ SP' = Wrap(SP + 2)
      /\ \/ /\ i.reg_1 = "AF"
            /\ reg' = [reg EXCEPT !["A"] = Popped \div 256]
            /\ F' = FlagsOf(Popped % 256)
         \/ /\ i.reg_1 # "AF"
            /\ reg' = [reg EXCEPT ![High(i.reg_1)] = Popped \div 256,
                                  ![Low(i.reg_1)]  = Popped % 256]
            /\ UNCHANGED F
      /\ Fetch(o)
      /\ cycles' = 12
      /\ UNCHANGED mem

(* NOP, and the instructions whose effect is in the module Cpu. *)
Still(o) ==
  /\ decode(o).type \in {"NOP", "HALT", "STOP", "DI", "EI"}
  /\ Fetch(o)
  /\ cycles' = 4
  /\ UNCHANGED <<reg, F, SP, mem>>
-----------------------------------------------------------------------------
(* The switch of cpu_step. *)
Execute(o, n) ==
  \/ execute_ld(o, n)
  \/ Arithmetic(o, n)
  \/ AddPair(o)
  \/ AddToSP(o, n)
  \/ Accumulator(o)
  \/ execute_inc_dec(o)
  \/ IncDecPair(o)
  \/ ChangeBits(o)
  \/ execute_bit(o)
  \/ execute_jr(o, n)
  \/ execute_jp(o, n)
  \/ execute_call(o, n)
  \/ execute_rst(o)
  \/ execute_ret(o)
  \/ execute_push(o)
  \/ execute_pop(o)
  \/ Still(o)
-----------------------------------------------------------------------------
(* What the history remembers of a step. *)

Remembered == {"ADD", "ADC", "SUB", "SBC", "CP"}

(* A program keeps the carry of one byte for the next over these. *)
KeepsCarry(i) ==
  i.type \in {"LD", "INC", "DEC", "NOP", "PUSH", "JR"} /\ i.mode # "REG16_SP_IMM8"
KeepsFlags(i) ==
  KeepsCarry(i) /\ (i.type \in {"INC", "DEC"} => i.mode = "REG16")

RememberArithmetic(o, n) ==
  LET i == decode(o)
  IN  done' = CASE i.type \in Remembered /\ i.mode \in AluModes ->
                     [type |-> i.type, a |-> reg["A"], s |-> Source(i, n),
                      c |-> IF i.type \in {"ADC", "SBC"} THEN CarryIn(F) ELSE 0,
                      inA |-> TRUE, flags |-> TRUE]
                [] KeepsCarry(i) ->
                     [done EXCEPT !.inA = @ /\ reg'["A"] = reg["A"],
                                  !.flags = @ /\ KeepsFlags(i)]
                [] OTHER -> None

Pushes(i) == i.type \in {"PUSH", "CALL", "RST"}
Pops(i)   == i.type \in {"POP", "RET", "RETI"}
InRam(a)  == Cell(a) \in Ram /\ Cell(Wrap(a + 1)) \in Ram

(* A word is no longer remembered when the program moves SP or writes where *)
(* the word is, and is never when it is not pushed to RAM.                  *)
Undisturbed(words) ==
  \A k \in 0 .. 2 * Len(words) - 1 :
    LET a == Cell(Wrap(SP + k)) IN a \in Ram /\ mem'[a] = mem[a]

RememberPushed(o) ==
  LET i == decode(o)
  IN  pushed' =
        CASE Pushes(i) /\ SP' # SP ->
               IF InRam(Wrap(SP - 2)) /\ Undisturbed(pushed)
               THEN <<IF i.type = "PUSH" THEN read_reg16(i.reg_1) ELSE After(o)>> \o pushed
               ELSE <<>>
          [] Pops(i) /\ SP' # SP -> IF pushed = <<>> THEN <<>> ELSE Tail(pushed)
          [] ~((Pushes(i) \/ Pops(i)) /\ SP' # SP) ->
               IF SP' = SP /\ Undisturbed(pushed) THEN pushed ELSE <<>>

(* fetch8 and fetch16 find any of operands. *)
OperandsOf(o) == IF Fetched(decode(o)) = 0 THEN {0} ELSE operands

Step ==
  /\ listing # <<>>
  /\ \E o \in Head(listing) :
       /\ \E n \in OperandsOf(o) : Execute(o, n) /\ RememberArithmetic(o, n)
       /\ RememberPushed(o)
       /\ op' = o
  /\ listing' = Tail(listing)
  /\ UNCHANGED operands

(* The bench is over. *)
Over == listing = <<>> /\ UNCHANGED vars

Next == Step \/ Over
Spec == Init /\ [][Next]_vars
-----------------------------------------------------------------------------
(* Properties. *)

(* DAA after an addition or subtraction of numbers with two decimal digits  *)
(* leaves the digits and the carry of the decimal result: the half carries  *)
(* of four instructions and both directions of execute_daa fit together.    *)
DecimalResult ==
  LET sum  == Decimal(done.a) + Decimal(done.s) + done.c
      diff == Decimal(done.a) - Decimal(done.s) - done.c
      out  == Decimal(reg'["A"])
  IN  /\ IsBcd(reg'["A"])
      /\ IF done.type \in {"ADD", "ADC"} THEN out + 100 * CarryIn(F') = sum
                                         ELSE out - 100 * CarryIn(F') = diff

DecimalAdjust ==
  [][ (/\ op' = 39 /\ listing # <<>>
       /\ done.type \in {"ADD", "ADC", "SUB", "SBC"} /\ done.inA /\ done.flags
       /\ IsBcd(done.a) /\ IsBcd(done.s)) => DecimalResult ]_vars

(* ADC or SBC of the high bytes, with the carry of the low bytes taken over *)
(* loads, INC, DEC and branches, completes an addition or subtraction of    *)
(* words: what a program does that counts its bytes down in a loop.         *)
CompletesWord ==
  LET a == done.a + 256 * done'.a
      s == done.s + 256 * done'.s
  IN  IF done'.type = "ADC"
      THEN ((done.a + done.s + done.c) % 256) + 256 * reg'["A"] + 65536 * CarryIn(F')
             = a + s + done.c
      ELSE ((done.a - done.s - done.c) % 256) + 256 * reg'["A"] - 65536 * CarryIn(F')
             = a - s - done.c

CarriesChain ==
  [][ (/\ listing # <<>>
       /\ \/ done.type \in {"ADD", "ADC"} /\ decode(op').type = "ADC"
          \/ done.type \in {"SUB", "SBC", "CP"} /\ decode(op').type = "SBC")
      => CompletesWord ]_vars

(* A conditional branch after a comparison is taken as the unsigned order   *)
(* of its operands says.                                                    *)
Compares(c) ==
  CASE c = "CT_Z"  -> done.a = done.s
    [] c = "CT_NZ" -> done.a # done.s
    [] c = "CT_C"  -> done.a < done.s
    [] c = "CT_NC" -> done.a >= done.s

FallsThrough(o) ==
  /\ PC' = After(o)
  /\ cycles' = IF decode(o).type \in {"JR", "RET"} THEN 8 ELSE 12

BranchFollowsCompare ==
  [][ (/\ listing # <<>>
       /\ done.type \in {"SUB", "CP"} /\ done.flags
       /\ decode(op').cond # "CT_NONE")
      => (FallsThrough(op') <=> ~Compares(decode(op').cond)) ]_vars

(* POP, RET and RETI take back the last word pushed, wherever SP is in RAM;  *)
(* in F the low nibble of the word is lost.                                 *)
LastInFirstOut ==
  [][ (Pops(decode(op')) /\ SP' # SP /\ pushed # <<>>)
      => IF decode(op').type = "POP"
         THEN \A r \in Reg16 : decode(op').reg_1 = r =>
                read_reg16(r)' = Head(pushed) - (IF r = "AF" THEN Head(pushed) % 16 ELSE 0)
         ELSE PC' = Head(pushed) ]_vars

(* The bus moves one byte in four cycles: no instruction returns fewer than *)
(* its bytes need, so the timer and the PPU never fall behind the program.  *)
BytesMoved(i) ==
  CASE i.type = "LD" /\ i.mode = "MEM_IMM16_REG16" -> 2
    [] i.type = "LD" /\ i.mode \in (ToRegister \cup ToMemory) \ {"REG8_REG8", "REG8_IMM8"} -> 1
    [] i.type \in AluTypes /\ i.mode = "REG8_MEM_REG16" -> 1
    [] i.type = "BIT" /\ i.mode = "MEM_REG16" -> 1
    [] i.type \in BitwiseTypes \cup {"INC", "DEC"} /\ i.mode = "MEM_REG16" -> 2
    [] (Pushes(i) \/ Pops(i)) /\ SP' # SP -> 2
    [] OTHER -> 0

BytesTakeTime ==
  [][ listing # <<>> =>
        /\ cycles' % 4 = 0
        /\ cycles' >= 4 * (Length(op') + BytesMoved(decode(op'))) ]_vars
=============================================================================
