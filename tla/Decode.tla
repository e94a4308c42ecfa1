--------------------------------- MODULE Decode ---------------------------------
(***************************************************************************)
(* lib/cpu_instructions.cpp: from an opcode to the instruction, its        *)
(* addressing mode, its registers, its condition and its parameter.        *)
(*                                                                         *)
(* The opcodes are regular in their fields, two bits x, three bits y and   *)
(* three bits z, and the table of the code is written here by column z.    *)
(* An opcode with the prefix 0xCB is 256 + the byte after the prefix.      *)
(***************************************************************************)
EXTENDS Integers

Opcodes == 0 .. 511

X(op) == (op % 256) \div 64
Y(op) == (op \div 8) % 8
Z(op) == op % 8

(* The high bits of y name a pair of registers, the low one a variant. *)
P(op) == Y(op) \div 2
Q(op) == Y(op) % 2

Reg8  == {"A", "B", "C", "D", "E", "H", "L"}
Reg16 == {"BC", "DE", "HL", "SP", "AF"}

kReg8      == <<"B", "C", "D", "E", "H", "L", "HL", "A">>
kReg16     == <<"BC", "DE", "HL", "SP">>
kPushed    == <<"BC", "DE", "HL", "AF">>
kAluOps    == <<"ADD", "ADC", "SUB", "SBC", "AND", "XOR", "OR", "CP">>
kCbRot     == <<"RLC", "RRC", "RL", "RR", "SLA", "SRA", "SWAP", "SRL">>
kAccumulator == <<"RLCA", "RRCA", "RLA", "RRA", "DAA", "CPL", "SCF", "CCF">>
kCond      == <<"CT_NZ", "CT_Z", "CT_NC", "CT_C">>

Instruction(t, m, r1, r2, c, p) ==
  [type |-> t, mode |-> m, reg_1 |-> r1, reg_2 |-> r2, cond |-> c, param |-> p]

I(t, m, r1, r2) == Instruction(t, m, r1, r2, "CT_NONE", 0)
Implied(t)      == I(t, "IMPLIED", "NONE", "NONE")
If(t, m, c)     ==
  Instruction(t, m, "NONE", IF m = "ABS16" THEN "IMM16" ELSE "NONE", c, 0)

(* An entry the table leaves out is zero, which is the first enumerator of  *)
(* each field.                                                              *)
Absent == I("NOP", "IMPLIED", "A", "A")

(* Register y of the code, or memory at HL. *)
Target(t, r) == IF r = "HL" THEN I(t, "MEM_REG16", r, "NONE")
                            ELSE I(t, "REG8", r, "NONE")
-----------------------------------------------------------------------------
(* 0x00 to 0x3F *)
JumpColumn(op) ==
  CASE Y(op) = 0 -> Implied("NOP")
    [] Y(op) = 1 -> I("LD", "MEM_IMM16_REG16", "IMM16", "SP")
    [] Y(op) = 2 -> Implied("STOP")
    [] Y(op) = 3 -> If("JR", "REL8", "CT_NONE")
    [] OTHER     -> If("JR", "REL8", kCond[Y(op) - 3])

PairColumn(op) ==
  IF Q(op) = 0 THEN I("LD", "REG16_IMM16", kReg16[P(op) + 1], "IMM16")
               ELSE I("ADD", "REG16_REG16", "HL", kReg16[P(op) + 1])

(* LD between A and memory at a pair of registers. *)
IndirectColumn(op) ==
  LET r == kReg16[P(op) + 1]
  IN  CASE Q(op) = 0 /\ P(op) < 2 -> I("LD", "MEM_REG16_REG8", r, "A")
        [] Q(op) = 0 /\ P(op) = 2 -> I("LD", "MEM_HLI_REG8", "HL", "A")
        [] Q(op) = 0 /\ P(op) = 3 -> I("LD", "MEM_HLD_REG8", "NONE", "A")
        [] Q(op) = 1 /\ P(op) < 2 -> I("LD", "REG8_MEM_REG16", "A", r)
        [] Q(op) = 1 /\ P(op) = 2 -> I("LD", "REG8_MEM_HLI", "A", "HL")
        [] Q(op) = 1 /\ P(op) = 3 -> I("LD", "REG8_MEM_HLD", "A", "NONE")

ImmediateColumn(op) ==
  LET r == kReg8[Y(op) + 1]
  IN  I("LD", IF r = "HL" THEN "MEM_REG16_IMM8" ELSE "REG8_IMM8", r, "IMM8")

LowQuarter(op) ==
  CASE Z(op) = 0 -> JumpColumn(op)
    [] Z(op) = 1 -> PairColumn(op)
    [] Z(op) = 2 -> IndirectColumn(op)
    [] Z(op) = 3 -> I(IF Q(op) = 0 THEN "INC" ELSE "DEC", "REG16", kReg16[P(op) + 1], "NONE")
    [] Z(op) = 4 -> Target("INC", kReg8[Y(op) + 1])
    [] Z(op) = 5 -> Target("DEC", kReg8[Y(op) + 1])
    [] Z(op) = 6 -> ImmediateColumn(op)
    [] Z(op) = 7 -> Implied(kAccumulator[Y(op) + 1])
-----------------------------------------------------------------------------
(* 0x40 to 0x7F *)
decode_ld_r8_r8(op) ==
  LET dst == kReg8[Y(op) + 1]
      src == kReg8[Z(op) + 1]
  IN  CASE dst = "HL" -> I("LD", "MEM_REG16_REG8", "HL", src)
        [] dst # "HL" /\ src = "HL" -> I("LD", "REG8_MEM_REG16", dst, "HL")
        [] OTHER -> I("LD", "REG8_REG8", dst, src)

(* 0x80 to 0xBF *)
decode_alu_block(op) ==
  LET src == kReg8[Z(op) + 1]
  IN  I(kAluOps[Y(op) + 1], IF src = "HL" THEN "REG8_MEM_REG16" ELSE "REG8_REG8", "A", src)
-----------------------------------------------------------------------------
(* 0xC0 to 0xFF *)
ReturnColumn(op) ==
  CASE Y(op) < 4 -> If("RET", "IMPLIED", kCond[Y(op) + 1])
    [] Y(op) = 4 -> I("LD", "MEM_FF00_IMM8_REG8", "IMM8", "A")
    [] Y(op) = 5 -> I("ADD", "REG16_IMM8", "SP", "IMM8")
    [] Y(op) = 6 -> I("LD", "REG8_MEM_FF00_IMM8", "A", "IMM8")
    [] Y(op) = 7 -> I("LD", "REG16_SP_IMM8", "HL", "SP")

PopColumn(op) ==
  CASE Q(op) = 0 -> I("POP", "REG16", kPushed[P(op) + 1], "NONE")
    [] Y(op) = 1 -> If("RET", "IMPLIED", "CT_NONE")
    [] Y(op) = 3 -> Implied("RETI")
    [] Y(op) = 5 -> I("JP", "REG16", "HL", "NONE")
    [] Y(op) = 7 -> I("LD", "REG16_REG16", "SP", "HL")

AbsoluteColumn(op) ==
  CASE Y(op) < 4 -> If("JP", "ABS16", kCond[Y(op) + 1])
    [] Y(op) = 4 -> I("LD", "MEM_FF00_C_REG8", "C", "A")
    [] Y(op) = 5 -> I("LD", "MEM_IMM16_REG8", "IMM16", "A")
    [] Y(op) = 6 -> I("LD", "REG8_MEM_FF00_C", "A", "C")
    [] Y(op) = 7 -> I("LD", "REG8_MEM_IMM16", "A", "IMM16")

HighQuarter(op) ==
  CASE Z(op) = 0 -> ReturnColumn(op)
    [] Z(op) = 1 -> PopColumn(op)
    [] Z(op) = 2 -> AbsoluteColumn(op)
    [] Z(op) = 3 /\ Y(op) = 0 -> If("JP", "ABS16", "CT_NONE")
    [] Z(op) = 3 /\ Y(op) = 6 -> Implied("DI")
    [] Z(op) = 3 /\ Y(op) = 7 -> Implied("EI")
    [] Z(op) = 4 /\ Y(op) < 4 -> If("CALL", "ABS16", kCond[Y(op) + 1])
    [] Z(op) = 5 /\ Q(op) = 0 -> I("PUSH", "REG16", kPushed[P(op) + 1], "NONE")
    [] Z(op) = 5 /\ Y(op) = 1 -> If("CALL", "ABS16", "CT_NONE")
    [] Z(op) = 6 -> I(kAluOps[Y(op) + 1], "REG8_IMM8", "A", "IMM8")
    [] Z(op) = 7 -> Instruction("RST", "RST_VEC", "NONE", "NONE", "CT_NONE", 8 * Y(op))
    [] OTHER -> Absent
-----------------------------------------------------------------------------
(* The opcodes after the prefix 0xCB. *)
decode_cb(op) ==
  LET t == CASE X(op) = 0 -> kCbRot[Y(op) + 1]
             [] X(op) = 1 -> "BIT"
             [] X(op) = 2 -> "RES"
             [] X(op) = 3 -> "SET"
  IN  [Target(t, kReg8[Z(op) + 1]) EXCEPT !.param = IF X(op) = 0 THEN 0 ELSE Y(op)]

decode(op) ==
  CASE op > 255  -> decode_cb(op)
    [] op = 118  -> Implied("HALT")
    [] op < 64   -> LowQuarter(op)
    [] op \in 64 .. 127 /\ op # 118 -> decode_ld_r8_r8(op)
    [] op \in 128 .. 191 -> decode_alu_block(op)
    [] op \in 192 .. 255 -> HighQuarter(op)
=============================================================================
