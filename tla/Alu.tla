---------------------------------- MODULE Alu ----------------------------------
(***************************************************************************)
(* The arithmetic of lib/cpu_proc.cpp, with the carries of cpu_utils.cpp.  *)
(* Each operator gives the value that an instruction computes and the      *)
(* flags it leaves, as a function of its operands and of the flags before. *)
(*                                                                         *)
(* The flags are a record of the four bits of F; the low nibble of F does  *)
(* not exist here.                                                         *)
(***************************************************************************)
EXTENDS Integers

Byte == 0 .. 255
Word == 0 .. 65535
FlagSet == [Z : BOOLEAN, N : BOOLEAN, H : BOOLEAN, C : BOOLEAN]

Flags(z, n, h, c) == [Z |-> z, N |-> n, H |-> h, C |-> c]
Result(v, f) == [value |-> v, flags |-> f]

CarryIn(f) == IF f.C THEN 1 ELSE 0
-----------------------------------------------------------------------------
is_carry_add(a, b)      == a + b > 255
is_half_carry_add(a, b) == (a % 16) + (b % 16) > 15
is_carry_sub(a, b)      == a < b
is_half_carry_sub(a, b) == a % 16 < b % 16
is_carry_add16(a, b)    == a + b > 65535
is_half_carry_add16_12(a, b) == (a % 4096) + (b % 4096) > 4095
-----------------------------------------------------------------------------
Add(a, s) ==
  LET r == (a + s) % 256
  IN  Result(r, Flags(r = 0, FALSE, is_half_carry_add(a, s), is_carry_add(a, s)))

Sub(a, s) ==
  LET r == (a - s) % 256
  IN  Result(r, Flags(r = 0, TRUE, is_half_carry_sub(a, s), is_carry_sub(a, s)))

Adc(a, s, f) ==
  LET r == a + s + CarryIn(f)
  IN  Result(r % 256,
             Flags(r % 256 = 0, FALSE, (a % 16) + (s % 16) + CarryIn(f) > 15, r > 255))

Sbc(a, s, f) ==
  LET r == a - s - CarryIn(f)
  IN  Result(r % 256,
             Flags(r % 256 = 0, TRUE, (a % 16) - (s % 16) - CarryIn(f) < 0, r < 0))

(* Mutant: equal operands count as a borrow. *)
CpAtMost(a, s) == Flags((a - s) % 256 = 0, TRUE, a % 16 < s % 16, a <= s)

(* CP leaves A alone. *)
Cp(a, s) == Flags((a - s) % 256 = 0, TRUE, a % 16 < s % 16, a < s)

(* Mutant: INC writes the carry. *)
IncCarries(v, f) ==
  LET r == (v + 1) % 256
  IN  Result(r, Flags(r = 0, FALSE, is_half_carry_add(v, 1), v = 255))

Inc(v, f) ==
  LET r == (v + 1) % 256
  IN  Result(r, Flags(r = 0, FALSE, is_half_carry_add(v, 1), f.C))

Dec(v, f) ==
  LET r == (v - 1) % 256
  IN  Result(r, Flags(r = 0, TRUE, is_half_carry_sub(v, 1), f.C))

(* ADD HL,rr *)
AddWords(p, q, f) ==
  Result((p + q) % 65536,
         Flags(f.Z, FALSE, is_half_carry_add16_12(p, q), is_carry_add16(p, q)))

(* static_cast<int8_t> *)
Signed(b) == IF b > 127 THEN b - 256 ELSE b

(* ADD SP,e8 and LD HL,SP+e8: the offset is signed, the flags are those of  *)
(* the unsigned addition of the low bytes.                                  *)
AddOffset(sp, e) ==
  Result((sp + Signed(e)) % 65536,
         Flags(FALSE, FALSE, is_half_carry_add(sp % 256, e), is_carry_add(sp % 256, e)))
-----------------------------------------------------------------------------
(* A byte of two decimal digits, and the number it stands for. *)
IsBcd(v)   == v \in Byte /\ v % 16 <= 9 /\ v \div 16 <= 9
Decimal(v) == 10 * (v \div 16) + (v % 16)

(* Mutant: no correction for a high digit above 9 without a carry. *)
DaaCarryOnly(a, f) ==
  LET low   == IF f.H \/ (~f.N /\ a % 16 > 9) THEN 6 ELSE 0
      high  == IF f.C THEN 96 ELSE 0
      r     == (IF f.N THEN a - (high + low) ELSE a + high + low) % 256
  IN  Result(r, Flags(r = 0, f.N, FALSE, f.C))

(* DAA corrects the result of an addition or subtraction of two numbers     *)
(* with two decimal digits each.                                            *)
Daa(a, f) ==
  LET carry == f.C \/ (~f.N /\ a > 153)
      low   == IF f.H \/ (~f.N /\ a % 16 > 9) THEN 6 ELSE 0
      high  == IF carry THEN 96 ELSE 0
      r     == (IF f.N THEN a - (high + low) ELSE a + high + low) % 256
  IN  Result(r, Flags(r = 0, f.N, FALSE, carry))

Scf(f) == Flags(f.Z, FALSE, FALSE, TRUE)
Ccf(f) == Flags(f.Z, FALSE, FALSE, ~f.C)
-----------------------------------------------------------------------------
(* Bytes as sets of bits. *)
Power == [i \in 0 .. 7 |-> <<1, 2, 4, 8, 16, 32, 64, 128>>[i + 1]]
BitsOf(v) == {i \in 0 .. 7 : (v \div Power[i]) % 2 = 1}
Weight(S, i) == IF i \in S THEN Power[i] ELSE 0
ByteOf(S) == Weight(S, 0) + Weight(S, 1) + Weight(S, 2) + Weight(S, 3) +
             Weight(S, 4) + Weight(S, 5) + Weight(S, 6) + Weight(S, 7)

(* The flags of the logical operations and of the shifts. *)
Logic(v, h)   == Result(v, Flags(v = 0, FALSE, h, FALSE))
Shifted(v, c) == Result(v, Flags(v = 0, FALSE, FALSE, c = 1))

And(a, s) == Logic(ByteOf(BitsOf(a) \cap BitsOf(s)), TRUE)
Or(a, s)  == Logic(ByteOf(BitsOf(a) \cup BitsOf(s)), FALSE)
Xor(a, s) == Logic(ByteOf((BitsOf(a) \ BitsOf(s)) \cup (BitsOf(s) \ BitsOf(a))), FALSE)
Cpl(a)    == ByteOf(0 .. 7 \ BitsOf(a))

Rlc(v)   == Shifted(((2 * v) % 256) + v \div 128, v \div 128)
Rrc(v)   == Shifted(v \div 2 + 128 * (v % 2), v % 2)
Rl(v, f) == Shifted(((2 * v) % 256) + CarryIn(f), v \div 128)
Rr(v, f) == Shifted(v \div 2 + 128 * CarryIn(f), v % 2)
Sla(v)   == Shifted((2 * v) % 256, v \div 128)
Sra(v)   == Shifted(v \div 2 + 128 * (v \div 128), v % 2)
Srl(v)   == Shifted(v \div 2, v % 2)
Swap(v)  == Logic(((16 * v) % 256) + v \div 16, FALSE)

(* The rotations of A alone: the same, but Z is reset. *)
OfA(r) == Result(r.value, [r.flags EXCEPT !.Z = FALSE])

Bit(v, i, f) == Flags(i \notin BitsOf(v), FALSE, TRUE, f.C)
Res(v, i) == ByteOf(BitsOf(v) \ {i})
Set(v, i) == ByteOf(BitsOf(v) \cup {i})
=============================================================================
