--------------------------- MODULE MCInstructions ---------------------------
(* Benches of Instructions for TLC. *)
EXTENDS Instructions

(* Work RAM at its two ends and in the middle, the end of OAM, high RAM at   *)
(* its two ends, and IE behind it.                                           *)
MCRam == (49152 .. 49153) \cup (49278 .. 49283) \cup (57340 .. 57343) \cup
         (65180 .. 65183) \cup (65408 .. 65411) \cup (65528 .. 65535)

Memory == [a \in MCRam |-> (37 * a) % 256]

(* BC, DE and HL point at work RAM, and C at high RAM. *)
Registers(a) ==
  [r \in Reg8 |-> CASE r = "A" -> a    [] r = "B" -> 192 [] r = "C" -> 129
                    [] r = "D" -> 223  [] r = "E" -> 255
                    [] r = "H" -> 192  [] r = "L" -> 128]

Bench(a, f, sp, n, l) ==
  [reg |-> Registers(a), F |-> f, SP |-> sp, PC |-> 65534, mem |-> Memory,
   operands |-> n, listing |-> l]

Carries == {Flags(FALSE, FALSE, FALSE, c) : c \in BOOLEAN}
Bcd     == {16 * h + l : h \in 0 .. 9, l \in 0 .. 9}
Edges   == {0, 1, 15, 16, 127, 128, 240, 255}

(* ADD, ADC, SUB or SBC A,n; DAA *)
DecimalBenches ==
  {Bench(a, f, 49282, Bcd, <<{198, 206, 214, 222}, {39}>>) : a \in Bcd, f \in Carries}

(* An addition, subtraction or comparison; NOP, INC A, DEC B, INC HL, ADD     *)
(* HL,BC or AND B; LD A,n; ADC or SBC A,n                                     *)
ChainBenches ==
  {Bench(a, f, 49282, Edges, <<{198, 206, 214, 222, 254}, {0, 60, 5, 35, 9, 160}, {62}, {206, 222}>>) :
     a \in {0, 16, 127, 255}, f \in Carries}

(* CP or SUB, by immediate, register or memory; NOP, LD B,A, INC B or CPL; a *)
(* conditional JR, JP, CALL or RET                                           *)
BranchBenches ==
  {Bench(a, f, 49282, Edges \ {0},
         <<{254, 214, 190, 184, 151}, {0, 71, 4, 47},
           {32, 40, 48, 56, 194, 202, 210, 218, 196, 204, 212, 220, 192, 200, 208, 216}>>) :
     a \in Edges, f \in Carries}

(* PUSH, POP, CALL, RST, RET, and what gets between them, with SP in work    *)
(* RAM, at 0, where echo RAM ends in work RAM, and behind OAM.               *)
StackBenches ==
  LET calls == {197, 229, 245, 205, 215}
      takes == {193, 225, 241, 201, 217}
      other == {34, 51, 232, 233}
  IN  {Bench(144, Flags(TRUE, FALSE, TRUE, FALSE), sp, {50001, 65278},
             <<calls, calls \cup other, calls \cup takes \cup other, takes, takes>>) :
         sp \in {0, 49284, 57346, 65186}}

(* Every opcode, once. *)
EveryOpcode ==
  {Bench(a, f, 49282, {49281, 65278}, <<Opcodes \ {203}>>) :
     a \in Edges, f \in {Flags(z, n, h, c) : z, n, h, c \in BOOLEAN}}

MCBenches == DecimalBenches \cup ChainBenches \cup BranchBenches \cup StackBenches \cup EveryOpcode
=============================================================================
