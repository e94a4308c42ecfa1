--------------------------- MODULE InstructionsProofs ---------------------------
(***************************************************************************)
(* Proofs about Alu, for all operands, and about Instructions, for any     *)
(* RAM, any bytes in it and any program that begins on any bench.          *)
(***************************************************************************)
EXTENDS Instructions, TLAPS

(* The arithmetic. *)

(* DAA makes n of the result r, with a carry or with a borrow above it.       *)
SumIs(r, n) ==
  LET d == Daa(r.value, r.flags)
  IN  IsBcd(d.value) /\ Decimal(d.value) + 100 * CarryIn(d.flags) = n
DifferenceIs(r, n) ==
  LET d == Daa(r.value, r.flags)
  IN  IsBcd(d.value) /\ Decimal(d.value) - 100 * CarryIn(d.flags) = n

LEMMA Digits ==
  ASSUME NEW v \in Byte
  PROVE  /\ v \div 16 \in 0 .. 15
         /\ v % 16 \in 0 .. 15
         /\ v = 16 * (v \div 16) + (v % 16)
  BY SMT DEF Byte

LEMMA FromDigits ==
  ASSUME NEW h \in 0 .. 15, NEW l \in 0 .. 15
  PROVE  /\ 16 * h + l \in Byte
         /\ (16 * h + l) \div 16 = h
         /\ (16 * h + l) % 16 = l
  BY SMT DEF Byte

(* DAA after an addition: t and h are the sums of the low and of the high     *)
(* digits, the low one with the carry in.                                     *)
LEMMA DaaOfSum ==
  ASSUME NEW t \in 0 .. 19, NEW h \in 0 .. 18, NEW res,
         res.value = (16 * h + t) % 256,
         res.flags.H <=> t > 15, ~res.flags.N, res.flags.C <=> 16 * h + t > 255
  PROVE  SumIs(res, 10 * h + t)
<1> DEFINE r == res.value
           f == res.flags
<1>0. /\ r = (16 * h + t) % 256
      /\ f.H <=> t > 15
      /\ ~f.N
      /\ f.C <=> 16 * h + t > 255
  OBVIOUS
<1> HIDE DEF r, f
<1> SUFFICES /\ IsBcd(Daa(r, f).value)
             /\ Decimal(Daa(r, f).value) + 100 * CarryIn(Daa(r, f).flags) = 10 * h + t
  BY Zenon DEF SumIs, r, f
<1> DEFINE x == IF t > 9 THEN h + 1 ELSE h
           y == IF t > 9 THEN t - 10 ELSE t
           low == IF t > 9 THEN 6 ELSE 0
           high == IF x > 9 THEN 96 ELSE 0
           d == IF x > 9 THEN x - 10 ELSE x
<1>1. x \in 0 .. 19 /\ y \in 0 .. 9 /\ 10 * x + y = 10 * h + t
  OBVIOUS
<1>2. /\ f.H <=> t > 15
      /\ ~f.N
      /\ f.C <=> 16 * h + t > 255
  BY <1>0
<1>3. (f.H \/ (~f.N /\ r % 16 > 9)) <=> t > 9
  <2>1. t > 15 => t > 9
    OBVIOUS
  <2>2. ~(t > 15) => (r % 16 > 9 <=> t > 9)
    BY <1>0
  <2> QED
    BY <1>2, <2>1, <2>2, Zenon
<1>4. (f.C \/ (~f.N /\ r > 153)) <=> x > 9
  <2>1. 16 * h + t > 255 => x > 9
    OBVIOUS
  <2>2. ~(16 * h + t > 255) => (r > 153 <=> x > 9)
    BY <1>0
  <2> QED
    BY <1>2, <2>1, <2>2, Zenon
<1>5. (r + high + low) % 256 = 16 * d + y
  <2>1. r = 16 * h + t \/ r = 16 * h + t - 256
    BY <1>0
  <2>2. 16 * h + t + low = 16 * x + y /\ low \in {0, 6}
    OBVIOUS
  <2>3. 16 * x + high = 16 * d \/ 16 * x + high = 16 * d + 256
    BY <1>1
  <2>4. high \in {0, 96} /\ d \in 0 .. 9
    BY <1>1
  <2> HIDE DEF low, x, y, high, d
  <2>5. r + high + low = 16 * d + y \/ r + high + low = 16 * d + y + 256 \/
        r + high + low = 16 * d + y - 256
    BY <2>1, <2>2, <2>3, <2>4, <1>1
  <2> QED
    BY <2>5, <2>4, <1>1
<1>6. d \in 0 .. 9 /\ 10 * d + y + (IF x > 9 THEN 100 ELSE 0) = 10 * h + t
  BY <1>1
<1>7. /\ Daa(r, f).value = 16 * d + y
      /\ Daa(r, f).flags.C <=> x > 9
  <2> HIDE DEF x, y, d
  <2>1. (IF f.H \/ (~f.N /\ r % 16 > 9) THEN 6 ELSE 0) = low
    BY <1>3
  <2>2. (IF f.C \/ (~f.N /\ r > 153) THEN 96 ELSE 0) = high
    BY <1>4
  <2>3. Daa(r, f).value = (r + high + low) % 256
    BY <1>2, <2>1, <2>2, Zenon DEF Daa, Result
  <2>4. Daa(r, f).flags.C = (f.C \/ (~f.N /\ r > 153))
    BY Zenon DEF Daa, Result, Flags
  <2> QED
    BY <1>4, <1>5, <2>3, <2>4, Zenon
<1> HIDE DEF x, y, low, high, d
<1>8. d \in 0 .. 15 /\ y \in 0 .. 15
  BY <1>1, <1>6
<1>9. Daa(r, f).value \div 16 = d /\ Daa(r, f).value % 16 = y /\ Daa(r, f).value \in Byte
  <2>1. (16 * d + y) \div 16 = d /\ (16 * d + y) % 16 = y /\ 16 * d + y \in Byte
    BY <1>8, FromDigits
  <2> QED
    BY <1>7, <2>1, Zenon
<1>10. CarryIn(Daa(r, f).flags) = IF x > 9 THEN 1 ELSE 0
  BY <1>7, Zenon DEF CarryIn
<1>11. IsBcd(Daa(r, f).value)
  <2>1. y <= 9 /\ d <= 9
    BY <1>1, <1>6
  <2> QED
    BY <1>9, <2>1, Zenon DEF IsBcd
<1> DEFINE k == CarryIn(Daa(r, f).flags)
<1>12. 10 * d + y + 100 * k = 10 * h + t
  <2> SUFFICES 10 * d + y + 100 * (IF x > 9 THEN 1 ELSE 0) = 10 * h + t
    BY <1>10
  <2> QED
    BY <1>1, <1>6
<1> QED
  BY <1>9, <1>11, <1>12, Zenon DEF Decimal

(* DAA after a subtraction: t and h are the differences of the digits.        *)
LEMMA DaaOfDifference ==
  ASSUME NEW t \in -10 .. 9, NEW h \in -9 .. 9, NEW res,
         res.value = (16 * h + t) % 256,
         res.flags.H <=> t < 0, res.flags.N, res.flags.C <=> 16 * h + t < 0
  PROVE  DifferenceIs(res, 10 * h + t)
<1> DEFINE r == res.value
           f == res.flags
<1>0. /\ r = (16 * h + t) % 256
      /\ f.H <=> t < 0
      /\ f.N
      /\ f.C <=> 16 * h + t < 0
  OBVIOUS
<1> HIDE DEF r, f
<1> SUFFICES /\ IsBcd(Daa(r, f).value)
             /\ Decimal(Daa(r, f).value) - 100 * CarryIn(Daa(r, f).flags) = 10 * h + t
  BY Zenon DEF DifferenceIs, r, f
<1> DEFINE x == IF t < 0 THEN h - 1 ELSE h
           y == IF t < 0 THEN t + 10 ELSE t
           low == IF t < 0 THEN 6 ELSE 0
           high == IF x < 0 THEN 96 ELSE 0
           d == IF x < 0 THEN x + 10 ELSE x
<1>1. x \in -10 .. 9 /\ y \in 0 .. 9 /\ 10 * x + y = 10 * h + t
  OBVIOUS
<1>2. /\ f.H <=> t < 0
      /\ f.N
      /\ f.C <=> 16 * h + t < 0
  BY <1>0
<1>3. 16 * h + t < 0 <=> x < 0
  OBVIOUS
<1>4. (r - (high + low)) % 256 = 16 * d + y
  <2>1. r = 16 * h + t \/ r = 16 * h + t + 256
    BY <1>0
  <2>2. 16 * h + t - low = 16 * x + y /\ low \in {0, 6}
    OBVIOUS
  <2>3. 16 * x - high = 16 * d - 256 \/ 16 * x - high = 16 * d
    BY <1>1
  <2>4. high \in {0, 96} /\ d \in 0 .. 9
    BY <1>1
  <2> HIDE DEF low, x, y, high, d
  <2>5. r - (high + low) = 16 * d + y \/ r - (high + low) = 16 * d + y + 256 \/
        r - (high + low) = 16 * d + y - 256
    BY <2>1, <2>2, <2>3, <2>4, <1>1
  <2> QED
    BY <2>5, <2>4, <1>1
<1>5. d \in 0 .. 9 /\ 10 * d + y - (IF x < 0 THEN 100 ELSE 0) = 10 * h + t
  BY <1>1
<1>6. /\ Daa(r, f).value = 16 * d + y
      /\ Daa(r, f).flags.C <=> x < 0
  <2> HIDE DEF x, y, d
  <2>1. (IF f.H \/ (~f.N /\ r % 16 > 9) THEN 6 ELSE 0) = low
    BY <1>2
  <2>2. (IF f.C \/ (~f.N /\ r > 153) THEN 96 ELSE 0) = high
    BY <1>2, <1>3
  <2>3. Daa(r, f).value = (r - (high + low)) % 256
    BY <1>2, <2>1, <2>2, Zenon DEF Daa, Result
  <2>4. Daa(r, f).flags.C = (f.C \/ (~f.N /\ r > 153))
    BY Zenon DEF Daa, Result, Flags
  <2> QED
    BY <1>2, <1>3, <1>4, <2>3, <2>4, Zenon
<1> HIDE DEF x, y, low, high, d
<1>7. d \in 0 .. 15 /\ y \in 0 .. 15
  BY <1>1, <1>5
<1>8. Daa(r, f).value \div 16 = d /\ Daa(r, f).value % 16 = y /\ Daa(r, f).value \in Byte
  <2>1. (16 * d + y) \div 16 = d /\ (16 * d + y) % 16 = y /\ 16 * d + y \in Byte
    BY <1>7, FromDigits
  <2> QED
    BY <1>6, <2>1, Zenon
<1>9. CarryIn(Daa(r, f).flags) = IF x < 0 THEN 1 ELSE 0
  BY <1>6, Zenon DEF CarryIn
<1>10. IsBcd(Daa(r, f).value)
  <2>1. y <= 9 /\ d <= 9
    BY <1>1, <1>5
  <2> QED
    BY <1>8, <2>1, Zenon DEF IsBcd
<1>11. Decimal(Daa(r, f).value) = 10 * d + y
  BY <1>8, Zenon DEF Decimal
<1> DEFINE v == Decimal(Daa(r, f).value)
           k == CarryIn(Daa(r, f).flags)
<1>12. v = 10 * d + y /\ k = IF x < 0 THEN 1 ELSE 0
  BY <1>9, <1>11
<1> HIDE DEF v, k
<1>13. v - 100 * k = 10 * h + t
  BY <1>1, <1>5, <1>12
<1> QED
  BY <1>10, <1>13, Zenon DEF v, k

-----------------------------------------------------------------------------
LEMMA BcdDigits ==
  ASSUME NEW v, IsBcd(v)
  PROVE  /\ v \div 16 \in 0 .. 9 /\ v % 16 \in 0 .. 9
         /\ v = 16 * (v \div 16) + (v % 16)
         /\ v \in 0 .. 255
  BY Digits DEF IsBcd, Byte

LEMMA SumWithCarry ==
  ASSUME NEW a, IsBcd(a), NEW s, IsBcd(s), NEW b \in 0 .. 1, NEW r,
         r.value = (a + s + b) % 256,
         r.flags.H <=> (a % 16) + (s % 16) + b > 15,
         ~r.flags.N,
         r.flags.C <=> a + s + b > 255
  PROVE  SumIs(r, Decimal(a) + Decimal(s) + b)
<1> DEFINE al == a % 16  ah == a \div 16  sl == s % 16  sh == s \div 16
           t == al + sl + b
           h == ah + sh
<1>1. /\ al \in 0 .. 9 /\ ah \in 0 .. 9 /\ sl \in 0 .. 9 /\ sh \in 0 .. 9
      /\ a = 16 * ah + al /\ s = 16 * sh + sl
  BY BcdDigits
<1>2. Decimal(a) = 10 * ah + al /\ Decimal(s) = 10 * sh + sl
  BY DEF Decimal
<1>3. r.flags.H <=> t > 15
  OBVIOUS
<1> HIDE DEF al, ah, sl, sh
<1>4. t \in 0 .. 19 /\ h \in 0 .. 18 /\ a + s + b = 16 * h + t
  BY <1>1
<1>5. Decimal(a) + Decimal(s) + b = 10 * h + t
  BY <1>1, <1>2
<1> HIDE DEF t, h
<1>6. r.value = (16 * h + t) % 256 /\ (r.flags.C <=> 16 * h + t > 255)
  BY <1>4
<1>7. SumIs(r, 10 * h + t)
  BY <1>3, <1>4, <1>6, DaaOfSum
<1> QED
  BY <1>5, <1>7

LEMMA DifferenceWithBorrow ==
  ASSUME NEW a, IsBcd(a), NEW s, IsBcd(s), NEW b \in 0 .. 1, NEW r,
         r.value = (a - s - b) % 256,
         r.flags.H <=> (a % 16) - (s % 16) - b < 0,
         r.flags.N,
         r.flags.C <=> a - s - b < 0
  PROVE  DifferenceIs(r, Decimal(a) - Decimal(s) - b)
<1> DEFINE al == a % 16  ah == a \div 16  sl == s % 16  sh == s \div 16
           t == al - sl - b
           h == ah - sh
<1>1. /\ al \in 0 .. 9 /\ ah \in 0 .. 9 /\ sl \in 0 .. 9 /\ sh \in 0 .. 9
      /\ a = 16 * ah + al /\ s = 16 * sh + sl
  BY BcdDigits
<1>2. Decimal(a) = 10 * ah + al /\ Decimal(s) = 10 * sh + sl
  BY DEF Decimal
<1>3. r.flags.H <=> t < 0
  OBVIOUS
<1> HIDE DEF al, ah, sl, sh
<1>4. t \in -10 .. 9 /\ h \in -9 .. 9 /\ a - s - b = 16 * h + t
  BY <1>1
<1>5. Decimal(a) - Decimal(s) - b = 10 * h + t
  BY <1>1, <1>2
<1> HIDE DEF t, h
<1>6. r.value = (16 * h + t) % 256 /\ (r.flags.C <=> 16 * h + t < 0)
  BY <1>4
<1>7. DifferenceIs(r, 10 * h + t)
  BY <1>3, <1>4, <1>6, DaaOfDifference
<1> QED
  BY <1>5, <1>7

LEMMA PlusNothing ==
  ASSUME NEW a, IsBcd(a), NEW s, IsBcd(s)
  PROVE  /\ Decimal(a) + Decimal(s) + 0 = Decimal(a) + Decimal(s)
         /\ Decimal(a) - Decimal(s) - 0 = Decimal(a) - Decimal(s)
<1>1. Decimal(a) \in Int /\ Decimal(s) \in Int
  BY BcdDigits DEF Decimal
<1> QED
  BY <1>1

(* Decimal addition: DAA after ADD or ADC of two packed numbers leaves the    *)
(* digits of their sum, and its third digit as the carry.                     *)
THEOREM DecimalSum ==
  ASSUME NEW a, IsBcd(a), NEW s, IsBcd(s), NEW f \in FlagSet
  PROVE  /\ SumIs(Add(a, s), Decimal(a) + Decimal(s))
         /\ SumIs(Adc(a, s, f), Decimal(a) + Decimal(s) + CarryIn(f))
<1>1. a \in 0 .. 255 /\ s \in 0 .. 255
  BY BcdDigits
<1>2. CarryIn(f) \in 0 .. 1
  BY DEF CarryIn
<1>3. /\ Add(a, s).value = (a + s + 0) % 256
      /\ Add(a, s).flags.H <=> (a % 16) + (s % 16) + 0 > 15
      /\ ~Add(a, s).flags.N
      /\ Add(a, s).flags.C <=> a + s + 0 > 255
  <2>1. a + s + 0 = a + s /\ (a % 16) + (s % 16) + 0 = (a % 16) + (s % 16)
    BY <1>1
  <2> QED
    BY <2>1, Zenon DEF Add, Result, Flags, is_half_carry_add, is_carry_add
<1>4. SumIs(Add(a, s), Decimal(a) + Decimal(s) + 0)
  BY <1>3, SumWithCarry
<1>5. /\ Adc(a, s, f).value = (a + s + CarryIn(f)) % 256
      /\ Adc(a, s, f).flags.H <=> (a % 16) + (s % 16) + CarryIn(f) > 15
      /\ ~Adc(a, s, f).flags.N
      /\ Adc(a, s, f).flags.C <=> a + s + CarryIn(f) > 255
  BY DEF Adc, Result, Flags
<1>6. SumIs(Adc(a, s, f), Decimal(a) + Decimal(s) + CarryIn(f))
  BY <1>2, <1>5, SumWithCarry
<1> QED
  BY <1>4, <1>6, PlusNothing

(* Decimal subtraction: DAA after SUB or SBC leaves the digits of the         *)
(* difference, or of 100 more with the carry as the borrow.                   *)
THEOREM DecimalDifference ==
  ASSUME NEW a, IsBcd(a), NEW s, IsBcd(s), NEW f \in FlagSet
  PROVE  /\ DifferenceIs(Sub(a, s), Decimal(a) - Decimal(s))
         /\ DifferenceIs(Sbc(a, s, f), Decimal(a) - Decimal(s) - CarryIn(f))
<1>1. a \in 0 .. 255 /\ s \in 0 .. 255
  BY BcdDigits
<1>2. CarryIn(f) \in 0 .. 1
  BY DEF CarryIn
<1>3. /\ Sub(a, s).value = (a - s - 0) % 256
      /\ Sub(a, s).flags.H <=> (a % 16) - (s % 16) - 0 < 0
      /\ Sub(a, s).flags.N
      /\ Sub(a, s).flags.C <=> a - s - 0 < 0
  <2>1. a - s - 0 = a - s
    BY <1>1
  <2>2. (a - s < 0 <=> a < s) /\ ((a % 16) - (s % 16) - 0 < 0 <=> a % 16 < s % 16)
    BY <1>1
  <2> QED
    BY <2>1, <2>2, Zenon DEF Sub, Result, Flags, is_half_carry_sub, is_carry_sub
<1>4. DifferenceIs(Sub(a, s), Decimal(a) - Decimal(s) - 0)
  BY <1>3, DifferenceWithBorrow
<1>5. /\ Sbc(a, s, f).value = (a - s - CarryIn(f)) % 256
      /\ Sbc(a, s, f).flags.H <=> (a % 16) - (s % 16) - CarryIn(f) < 0
      /\ Sbc(a, s, f).flags.N
      /\ Sbc(a, s, f).flags.C <=> a - s - CarryIn(f) < 0
  BY DEF Sbc, Result, Flags
<1>6. DifferenceIs(Sbc(a, s, f), Decimal(a) - Decimal(s) - CarryIn(f))
  BY <1>2, <1>5, DifferenceWithBorrow
<1> QED
  BY <1>4, <1>6, PlusNothing

-----------------------------------------------------------------------------
(* Addition by the byte: ADC of the high bytes, with the carry of the low     *)
(* ones, completes the sum of two words and carries out of it.                *)
THEOREM WordSum ==
  ASSUME NEW a \in Byte, NEW s \in Byte, NEW p \in Byte, NEW q \in Byte, NEW c \in 0 .. 1,
         NEW f, f.C <=> a + s + c > 255
  PROVE  ((a + s + c) % 256) + 256 * Adc(p, q, f).value + 65536 * CarryIn(Adc(p, q, f).flags)
           = (a + 256 * p) + (s + 256 * q) + c
<1> DEFINE b == CarryIn(f)
           v == Adc(p, q, f).value
           k == CarryIn(Adc(p, q, f).flags)
<1>1. b = IF a + s + c > 255 THEN 1 ELSE 0
  BY DEF CarryIn
<1>2. v = (p + q + b) % 256 /\ k = IF p + q + b > 255 THEN 1 ELSE 0
  BY Zenon DEF Adc, Result, Flags, CarryIn
<1> HIDE DEF b, v, k
<1>3. (a + s + c) % 256 = a + s + c - 256 * b
  BY <1>1 DEF Byte
<1>4. v = p + q + b - 256 * k
  BY <1>1, <1>2 DEF Byte
<1>5. ((a + s + c) % 256) + 256 * v + 65536 * k = (a + 256 * p) + (s + 256 * q) + c
  BY <1>1, <1>2, <1>3, <1>4 DEF Byte
<1> QED
  BY <1>5 DEF v, k

(* Subtraction by the byte: SBC of the high bytes.                            *)
THEOREM WordDifference ==
  ASSUME NEW a \in Byte, NEW s \in Byte, NEW p \in Byte, NEW q \in Byte, NEW c \in 0 .. 1,
         NEW f, f.C <=> a - s - c < 0
  PROVE  ((a - s - c) % 256) + 256 * Sbc(p, q, f).value - 65536 * CarryIn(Sbc(p, q, f).flags)
           = (a + 256 * p) - (s + 256 * q) - c
<1> DEFINE b == CarryIn(f)
           v == Sbc(p, q, f).value
           k == CarryIn(Sbc(p, q, f).flags)
<1>1. b = IF a - s - c < 0 THEN 1 ELSE 0
  BY DEF CarryIn
<1>2. v = (p - q - b) % 256 /\ k = IF p - q - b < 0 THEN 1 ELSE 0
  BY Zenon DEF Sbc, Result, Flags, CarryIn
<1> HIDE DEF b, v, k
<1>3. (a - s - c) % 256 = a - s - c + 256 * b
  BY <1>1 DEF Byte
<1>4. v = p - q - b + 256 * k
  BY <1>1, <1>2 DEF Byte
<1>5. ((a - s - c) % 256) + 256 * v - 65536 * k = (a + 256 * p) - (s + 256 * q) - c
  BY <1>1, <1>2, <1>3, <1>4 DEF Byte
<1> QED
  BY <1>5 DEF v, k

(* ADD HL,rr is ADD of the low bytes and ADC of the high ones, with the       *)
(* half carry and the carry of the ADC.                                       *)
THEOREM WordsByBytes ==
  ASSUME NEW a \in Byte, NEW s \in Byte, NEW p \in Byte, NEW q \in Byte, NEW f \in FlagSet
  PROVE  LET w == AddWords(a + 256 * p, s + 256 * q, f)
             l == Add(a, s)
             h == Adc(p, q, l.flags)
         IN  /\ w.value = l.value + 256 * h.value
             /\ w.flags.H = h.flags.H
             /\ w.flags.C = h.flags.C
<1> DEFINE l == Add(a, s)
           h == Adc(p, q, l.flags)
           w == AddWords(a + 256 * p, s + 256 * q, f)
           b == CarryIn(l.flags)
<1>1. l.value = (a + s) % 256 /\ b = IF a + s > 255 THEN 1 ELSE 0
  BY Zenon DEF Add, Result, Flags, CarryIn, is_carry_add
<1>2. /\ h.value = (p + q + b) % 256
      /\ h.flags.H = ((p % 16) + (q % 16) + b > 15)
      /\ h.flags.C = (p + q + b > 255)
  BY Zenon DEF Adc, Result, Flags
<1>3. /\ w.value = ((a + 256 * p) + (s + 256 * q)) % 65536
      /\ w.flags.H = (((a + 256 * p) % 4096) + ((s + 256 * q) % 4096) > 4095)
      /\ w.flags.C = ((a + 256 * p) + (s + 256 * q) > 65535)
  <2> DEFINE x == a + 256 * p  y == s + 256 * q
  <2> HIDE DEF x, y
  <2>1. AddWords(x, y, f).value = (x + y) % 65536
    BY DEF AddWords, Result
  <2>2. /\ AddWords(x, y, f).flags.H = ((x % 4096) + (y % 4096) > 4095)
        /\ AddWords(x, y, f).flags.C = (x + y > 65535)
    BY DEF AddWords, Result, Flags, is_half_carry_add16_12, is_carry_add16
  <2> QED
    BY <2>1, <2>2 DEF x, y
<1> HIDE DEF l, h, w, b
<1>4. w.value = l.value + 256 * h.value
  <2>1. (a + s) % 256 = a + s - 256 * b
    BY <1>1 DEF Byte
  <2>2. ((a + 256 * p) + (s + 256 * q)) % 65536 = (a + s - 256 * b) + 256 * ((p + q + b) % 256)
    <3>1. CASE p + q + b > 255
      BY <3>1, <1>1 DEF Byte
    <3>2. CASE p + q + b <= 255
      BY <3>2, <1>1 DEF Byte
    <3> QED
      BY <3>1, <3>2, <1>1 DEF Byte
  <2> QED
    BY <1>1, <1>2, <1>3, <2>1, <2>2
<1>5. w.flags.C = h.flags.C
  <2>1. (a + 256 * p) + (s + 256 * q) > 65535 <=> p + q + b > 255
    BY <1>1 DEF Byte
  <2> QED
    BY <1>2, <1>3, <2>1
<1>6. w.flags.H = h.flags.H
  <2>1. (a + 256 * p) % 4096 = a + 256 * (p % 16)
    BY DEF Byte
  <2>2. (s + 256 * q) % 4096 = s + 256 * (q % 16)
    BY DEF Byte
  <2>3. p % 16 \in 0 .. 15 /\ q % 16 \in 0 .. 15
    BY DEF Byte
  <2> DEFINE x == p % 16  y == q % 16
  <2>4. (a + 256 * x) + (s + 256 * y) > 4095 <=> x + y + b > 15
    <3> HIDE DEF x, y
    <3>1. x \in 0 .. 15 /\ y \in 0 .. 15
      BY <2>3 DEF x, y
    <3> QED
      BY <1>1, <3>1 DEF Byte
  <2> QED
    BY <1>2, <1>3, <2>1, <2>2, <2>4
<1> QED
  BY <1>4, <1>5, <1>6, Zenon DEF l, h, w

-----------------------------------------------------------------------------
(* A rotation to the left through the carry is undone by one to the right.    *)
THEOREM RotationsInvert ==
  ASSUME NEW v \in Byte, NEW f \in FlagSet
  PROVE  LET r == Rl(v, f)
         IN  Rr(r.value, r.flags).value = v /\ (Rr(r.value, r.flags).flags.C <=> f.C)
<1> DEFINE r == Rl(v, f)
           b == CarryIn(f)
<1>1. b \in 0 .. 1 /\ (b = 1 <=> f.C)
  BY DEF CarryIn
<1>2. r.value = ((2 * v) % 256) + b /\ (r.flags.C <=> v \div 128 = 1)
  BY Zenon DEF Rl, Shifted, Result, Flags
<1>3. CarryIn(r.flags) = IF v \div 128 = 1 THEN 1 ELSE 0
  BY <1>2, Zenon DEF CarryIn
<1>4. /\ Rr(r.value, r.flags).value = (r.value \div 2) + 128 * CarryIn(r.flags)
      /\ Rr(r.value, r.flags).flags.C <=> r.value % 2 = 1
  BY Zenon DEF Rr, Shifted, Result, Flags
<1> HIDE DEF r, b
<1>5. v \div 128 \in 0 .. 1 /\ (2 * v) % 256 = 2 * v - 256 * (v \div 128)
  BY DEF Byte
<1>6. r.value = 2 * (v - 128 * (v \div 128)) + b
  BY <1>2, <1>5 DEF Byte
<1> DEFINE m == v - 128 * (v \div 128)
<1>7. m \in 0 .. 127 /\ v = m + 128 * (v \div 128)
  BY DEF Byte
<1> HIDE DEF m
<1>8. (2 * m + b) \div 2 = m /\ (2 * m + b) % 2 = b
  BY <1>1, <1>7
<1>9. r.value \div 2 = m /\ r.value % 2 = b
  BY <1>6, <1>8 DEF m
<1>10. m + 128 * (IF v \div 128 = 1 THEN 1 ELSE 0) = v
  BY <1>5, <1>7
<1> QED
  BY <1>1, <1>3, <1>4, <1>9, <1>10, Zenon DEF r

-----------------------------------------------------------------------------
(* Bytes and words stay bytes and words. *)

(* The bound has a name here: an interval of this size is slow to reason about. *)
LEMMA WordBounds == \A w \in Word : w \in Int /\ 0 <= w /\ w <= 65535
<1> DEFINE n == 65535
<1>1. n \in Int
  BY SMT
<1>2. Word = 0 .. n
  BY SMT DEF Word
<1> HIDE DEF n
<1>3. \A w \in Word : w \in Int /\ 0 <= w /\ w <= n
  BY <1>1, <1>2
<1> QED
  BY <1>3, SMT DEF n

LEMMA InWord == \A v \in Int : 0 <= v /\ v <= 65535 => v \in Word
<1> DEFINE n == 65535
<1>1. n \in Int
  BY SMT
<1>2. Word = 0 .. n
  BY SMT DEF Word
<1> HIDE DEF n
<1>3. \A v \in Int : 0 <= v /\ v <= n => v \in Word
  BY <1>1, <1>2
<1> QED
  BY <1>3, SMT DEF n

LEMMA WordIsInt == Word \subseteq Int
  BY WordBounds

LEMMA VectorsAreWords == 0 .. 56 \subseteq Word
  BY InWord

LEMMA Compared ==
  ASSUME NEW a \in Byte, NEW s \in Byte
  PROVE  /\ a + s + 0 = a + s
         /\ a < s <=> a - s - 0 < 0
         /\ (a - s) % 256 = 0 <=> a = s
         /\ a >= s <=> ~(a < s)
<1>1. a + s + 0 = a + s /\ (a < s <=> a - s - 0 < 0) /\ (a >= s <=> ~(a < s))
  BY SMTT(30) DEF Byte
<1>2. (a - s) % 256 = IF a < s THEN a - s + 256 ELSE a - s
  BY SMTT(30) DEF Byte
<1>3. (a - s) % 256 = 0 <=> a = s
  BY <1>2 DEF Byte
<1> QED
  BY <1>1, <1>3

LEMMA Halves ==
  ASSUME NEW v \in Word
  PROVE  v \div 256 \in Byte /\ v % 256 \in Byte
<1>1. v \in Int /\ 0 <= v /\ v <= 65535
  BY WordBounds
<1>2. v \div 256 \in Int /\ 0 <= v \div 256 /\ v \div 256 <= 255
  BY <1>1, SMTT(30)
<1>3. v % 256 \in 0 .. 255
  BY <1>1, SMTT(30)
<1> QED
  BY <1>2, <1>3 DEF Byte

LEMMA Joined ==
  ASSUME NEW v \in Word
  PROVE  (v % 256) + 256 * (v \div 256) = v
<1>1. v \in Int
  BY WordBounds
<1> QED
  BY <1>1

LEMMA JoinedDown ==
  ASSUME NEW v \in Word
  PROVE  /\ 256 * (v \div 256) + (v % 256) = v
         /\ 256 * (v \div 256) + ((v % 256) - ((v % 256) % 16)) = v - (v % 16)
<1>1. v \in Int
  BY WordBounds
<1>2. 256 * (v \div 256) + (v % 256) = v
  BY <1>1
<1>3. (v % 256) % 16 = v % 16
  BY <1>1
<1> QED
  BY <1>1, <1>2, <1>3

LEMMA JoinInt ==
  ASSUME NEW h \in Int, NEW l \in Int, 0 <= h, h <= 255, 0 <= l, l <= 255
  PROVE  256 * h + l \in Word /\ l + 256 * h \in Word
<1>1. 256 * h + l \in Word
  BY InWord
<1>2. l + 256 * h = 256 * h + l
  OBVIOUS
<1> QED
  BY <1>1, <1>2

LEMMA Join ==
  ASSUME NEW h \in Byte, NEW l \in Byte
  PROVE  256 * h + l \in Word /\ l + 256 * h \in Word
<1>1. h \in Int /\ 0 <= h /\ h <= 255 /\ l \in Int /\ 0 <= l /\ l <= 255
  BY DEF Byte
<1> QED
  BY <1>1, JoinInt

LEMMA ByteOfTyped ==
  ASSUME NEW S
  PROVE  ByteOf(S) \in Byte
<1> DEFINE low == Weight(S, 0) + Weight(S, 1) + Weight(S, 2) + Weight(S, 3)
           w5 == low + Weight(S, 4)
           w6 == w5 + Weight(S, 5)
           w7 == w6 + Weight(S, 6)
<1>1. /\ Weight(S, 0) \in 0 .. 1 /\ Weight(S, 1) \in 0 .. 2
      /\ Weight(S, 2) \in 0 .. 4 /\ Weight(S, 3) \in 0 .. 8
  BY DEF Weight, Power
<1>2. Weight(S, 4) \in 0 .. 16
  BY DEF Weight, Power
<1>3. Weight(S, 5) \in 0 .. 32
  BY DEF Weight, Power
<1>4. Weight(S, 6) \in 0 .. 64
  BY DEF Weight, Power
<1>5. Weight(S, 7) \in 0 .. 128
  BY DEF Weight, Power
<1>6. ByteOf(S) = w7 + Weight(S, 7)
  BY Zenon DEF ByteOf
<1>7. low \in 0 .. 15
  BY <1>1
<1> HIDE DEF low
<1>8. w5 \in 0 .. 31
  BY <1>2, <1>7
<1> HIDE DEF w5
<1>9. w6 \in 0 .. 63
  BY <1>3, <1>8
<1> HIDE DEF w6
<1>10. w7 \in 0 .. 127
  BY <1>4, <1>9
<1> HIDE DEF w7
<1>11. w7 + Weight(S, 7) \in 0 .. 255
  BY <1>5, <1>10
<1> QED
  BY <1>6, <1>11, Zenon DEF Byte

LEMMA SumsTyped ==
  ASSUME NEW a \in Byte, NEW s \in Byte, NEW f
  PROVE  /\ Add(a, s).value \in Byte /\ Sub(a, s).value \in Byte
         /\ Adc(a, s, f).value \in Byte /\ Sbc(a, s, f).value \in Byte
         /\ And(a, s).value \in Byte /\ Or(a, s).value \in Byte /\ Xor(a, s).value \in Byte
         /\ Daa(a, f).value \in Byte
<1> DEFINE c == CarryIn(f)
<1>1. c \in 0 .. 1
  BY DEF CarryIn
<1> HIDE DEF c
<1>2. /\ (a + s) % 256 \in Byte /\ (a - s) % 256 \in Byte
      /\ (a + s + c) % 256 \in Byte /\ (a - s - c) % 256 \in Byte
  BY <1>1 DEF Byte
<1>3. /\ Add(a, s).value \in Byte /\ Sub(a, s).value \in Byte
      /\ Adc(a, s, f).value \in Byte /\ Sbc(a, s, f).value \in Byte
  BY <1>2, Zenon DEF Add, Sub, Adc, Sbc, Result, c
<1>4. And(a, s).value \in Byte /\ Or(a, s).value \in Byte /\ Xor(a, s).value \in Byte
  BY ByteOfTyped, Zenon DEF And, Or, Xor, Logic, Result
<1>5. Daa(a, f).value \in Byte
  <2>1. \A w \in Int : w % 256 \in Byte
    BY DEF Byte
  <2>2. a \in Int
    BY DEF Byte
  <2>3. \A low \in {0, 6}, high \in {0, 96} :
          (IF f.N THEN a - (high + low) ELSE a + high + low) \in Int
    BY <2>2
  <2> QED
    BY <2>1, <2>3 DEF Daa, Result
<1> QED
  BY <1>3, <1>4, <1>5

LEMMA ShiftsTyped ==
  ASSUME NEW v \in Byte, NEW f
  PROVE  /\ Rlc(v).value \in Byte /\ Rrc(v).value \in Byte
         /\ Rl(v, f).value \in Byte /\ Rr(v, f).value \in Byte
         /\ Sla(v).value \in Byte /\ Sra(v).value \in Byte
         /\ Srl(v).value \in Byte /\ Swap(v).value \in Byte
<1> DEFINE c == CarryIn(f)
<1>1. c \in 0 .. 1
  BY DEF CarryIn
<1> HIDE DEF c
<1>2. /\ ((2 * v) % 256) + v \div 128 \in Byte /\ v \div 2 + 128 * (v % 2) \in Byte
      /\ (2 * v) % 256 \in Byte /\ v \div 2 + 128 * (v \div 128) \in Byte
  BY SMTT(30) DEF Byte
<1>3. ((2 * v) % 256) + c \in Byte /\ v \div 2 + 128 * c \in Byte
  BY <1>1, SMTT(30) DEF Byte
<1>4. v \div 2 \in Byte /\ ((16 * v) % 256) + v \div 16 \in Byte
  BY SMTT(30) DEF Byte
<1> QED
  BY <1>2, <1>3, <1>4, Zenon DEF Rlc, Rrc, Rl, Rr, Sla, Sra, Srl, Swap, Shifted, Logic, Result, c

LEMMA IncDecTyped ==
  ASSUME NEW v \in Byte, NEW f
  PROVE  Inc(v, f).value \in Byte /\ Dec(v, f).value \in Byte
<1>1. (v + 1) % 256 \in Byte /\ (v - 1) % 256 \in Byte
  BY DEF Byte
<1> QED
  BY <1>1, Zenon DEF Inc, Dec, Result

LEMMA WordOf == \A v \in Int : v % 65536 \in Word
  BY InWord

LEMMA WordsTyped ==
  ASSUME NEW p \in Word, NEW q \in Word, NEW f, NEW e \in Byte
  PROVE  AddWords(p, q, f).value \in Word /\ AddOffset(p, e).value \in Word
<1>1. p \in Int /\ q \in Int /\ Signed(e) \in Int
  BY WordIsInt DEF Byte, Signed
<1>2. p + q \in Int /\ p + Signed(e) \in Int
  BY <1>1
<1>3. AddWords(p, q, f).value = (p + q) % 65536
  BY SMT DEF AddWords, Result
<1>4. AddOffset(p, e).value = (p + Signed(e)) % 65536
  BY SMT DEF AddOffset, Result
<1> QED
  BY <1>2, <1>3, <1>4, WordOf

(* The high nibble of a byte, bit by bit: what of F goes through the stack.   *)
LEMMA HighNibble ==
  ASSUME NEW b \in Byte
  PROVE  (IF 7 \in BitsOf(b) THEN 128 ELSE 0) + (IF 6 \in BitsOf(b) THEN 64 ELSE 0) +
         (IF 5 \in BitsOf(b) THEN 32 ELSE 0) + (IF 4 \in BitsOf(b) THEN 16 ELSE 0)
           = b - (b % 16)
<1> DEFINE d == b \div 16
<1>1. d \in 0 .. 15 /\ b = 16 * d + (b % 16) /\ b % 16 \in 0 .. 15
  BY Digits
<1>2. b \div 128 = d \div 8 /\ b \div 64 = d \div 4 /\ b \div 32 = d \div 2
  BY DEF Byte
<1>3. /\ 7 \in BitsOf(b) <=> (b \div 128) % 2 = 1
      /\ 6 \in BitsOf(b) <=> (b \div 64) % 2 = 1
      /\ 5 \in BitsOf(b) <=> (b \div 32) % 2 = 1
      /\ 4 \in BitsOf(b) <=> (b \div 16) % 2 = 1
  BY DEF BitsOf, Power
<1>4. b - (b % 16) = 16 * d
  BY <1>1 DEF Byte
<1>5. \A n \in 0 .. 15 :
        (IF (n \div 8) % 2 = 1 THEN 128 ELSE 0) + (IF (n \div 4) % 2 = 1 THEN 64 ELSE 0) +
        (IF (n \div 2) % 2 = 1 THEN 32 ELSE 0) + (IF n % 2 = 1 THEN 16 ELSE 0) = 16 * n
  OBVIOUS
<1>6. (IF (d \div 8) % 2 = 1 THEN 128 ELSE 0) + (IF (d \div 4) % 2 = 1 THEN 64 ELSE 0) +
      (IF (d \div 2) % 2 = 1 THEN 32 ELSE 0) + (IF d % 2 = 1 THEN 16 ELSE 0) = 16 * d
  BY <1>1, <1>5
<1>7. d = b \div 16
  OBVIOUS
<1> HIDE DEF d
<1>8. /\ (IF 7 \in BitsOf(b) THEN 128 ELSE 0) = (IF (d \div 8) % 2 = 1 THEN 128 ELSE 0)
      /\ (IF 6 \in BitsOf(b) THEN 64 ELSE 0) = (IF (d \div 4) % 2 = 1 THEN 64 ELSE 0)
      /\ (IF 5 \in BitsOf(b) THEN 32 ELSE 0) = (IF (d \div 2) % 2 = 1 THEN 32 ELSE 0)
      /\ (IF 4 \in BitsOf(b) THEN 16 ELSE 0) = (IF d % 2 = 1 THEN 16 ELSE 0)
  BY <1>2, <1>3, <1>7
<1> QED
  BY <1>4, <1>6, <1>8

(* Addresses. *)
LEMMA Addresses ==
  ASSUME NEW a \in Word, NEW k \in Nat
  PROVE  /\ a % 65536 = a
         /\ (((a - 2) % 65536) + (k + 2)) % 65536 = (a + k) % 65536
         /\ (((a + 2) % 65536) + k) % 65536 = (a + (k + 2)) % 65536
         /\ (((a + k) % 65536) + 1) % 65536 = (a + (k + 1)) % 65536
<1>0. a \in Int /\ 0 <= a /\ a <= 65535
  BY WordBounds
<1>1. a % 65536 = a
  BY <1>0
<1>2. (a - 2) % 65536 = IF a < 2 THEN a + 65534 ELSE a - 2
  <2>1. a < 2 => (a - 2) % 65536 = a + 65534
    BY <1>0
  <2>2. a >= 2 => (a - 2) % 65536 = a - 2
    BY <1>0
  <2> QED
    BY <1>0, <2>1, <2>2
<1>3. (a + 2) % 65536 = IF a < 65534 THEN a + 2 ELSE a - 65534
  <2>1. a < 65534 => (a + 2) % 65536 = a + 2
    BY <1>0
  <2>2. a >= 65534 => (a + 2) % 65536 = a - 65534
    BY <1>0
  <2> QED
    BY <1>0, <2>1, <2>2
<1>5. ASSUME NEW x \in Int
      PROVE  (x + 65536) % 65536 = x % 65536 /\ (x - 65536) % 65536 = x % 65536
  OBVIOUS
<1>6. (((a - 2) % 65536) + (k + 2)) % 65536 = (a + k) % 65536
  <2>1. ((a - 2) % 65536) + (k + 2) = IF a < 2 THEN (a + k) + 65536 ELSE a + k
    BY <1>0, <1>2
  <2> QED
    BY <1>0, <1>5, <2>1
<1>7. (((a + 2) % 65536) + k) % 65536 = (a + (k + 2)) % 65536
  <2>1. ((a + 2) % 65536) + k = IF a < 65534 THEN a + (k + 2) ELSE (a + (k + 2)) - 65536
    BY <1>0, <1>3
  <2> QED
    BY <1>0, <1>5, <2>1
<1>8. (((a + k) % 65536) + 1) % 65536 = (a + (k + 1)) % 65536
  <2>1. ASSUME NEW x \in Int
        PROVE  ((x % 65536) + 1) % 65536 = (x + 1) % 65536
    OBVIOUS
  <2> QED
    BY <1>0, <2>1
<1> QED
  BY <1>1, <1>6, <1>7, <1>8
-----------------------------------------------------------------------------
(* The machine. *)

(* The flags that the history stands for, with the carry that went in.       *)
Before == [Z |-> FALSE, N |-> FALSE, H |-> FALSE, C |-> done.c = 1]
Outcome == Operation(done.type, done.a, done.s, Before)

(* What the machine still holds of the last arithmetic: always its carry,    *)
(* the other flags and the value in A as far as the history says.            *)
HoldsOutcome ==
  /\ done.c \in 0 .. 1
  /\ done.type \notin {"ADC", "SBC"} => done.c = 0
  /\ F.C = Outcome.flags.C
  /\ done.flags => F = Outcome.flags
  /\ done.inA => reg["A"] = Outcome.value

Remembers ==
  /\ "A" \in DOMAIN reg
  /\ DOMAIN done = {"type", "a", "s", "c", "inA", "flags"}
  /\ done.type \in Remembered => HoldsOutcome
-----------------------------------------------------------------------------
LEMMA SameOperation ==
  ASSUME NEW t \in Remembered, NEW a, NEW s, NEW f, NEW g,
         t \in {"ADC", "SBC"} => CarryIn(f) = CarryIn(g)
  PROVE  Operation(t, a, s, f) = Operation(t, a, s, g)
  BY Zenon DEF Operation, Remembered, Adc, Sbc

(* No instruction but the arithmetic writes the carry of one that keeps it. *)
LEMMA Kept ==
  ASSUME NEW o, NEW n, Execute(o, n), KeepsCarry(decode(o))
  PROVE  /\ F'.C = F.C
         /\ KeepsFlags(decode(o)) => F' = F
<1> DEFINE i == decode(o)
<1>0. i.type \in {"LD", "INC", "DEC", "NOP", "PUSH", "JR"} /\ i.mode # "REG16_SP_IMM8"
  BY DEF KeepsCarry
<1> HIDE DEF i
<1>1. CASE execute_ld(o, n)
  BY <1>0, <1>1 DEF execute_ld, LoadRegister, LoadMemory, LoadPair, StorePair, LoadOffset, i
<1>2. CASE execute_inc_dec(o)
  <2>1. i.type \in {"INC", "DEC"} /\ i.mode # "REG16"
    BY <1>2 DEF execute_inc_dec, i
  <2>2. ~KeepsFlags(i)
    BY <2>1 DEF KeepsFlags
  <2>3. F'.C = F.C
    BY <1>2, Zenon DEF execute_inc_dec, Inc, Dec, Result, Flags
  <2> QED
    BY <2>2, <2>3 DEF i
<1>3. CASE IncDecPair(o)
  BY <1>3 DEF IncDecPair
<1>4. CASE execute_push(o)
  BY <1>4 DEF execute_push
<1>5. CASE execute_jr(o, n)
  BY <1>5 DEF execute_jr
<1>6. CASE Still(o)
  BY <1>6 DEF Still
<1>7. ~Arithmetic(o, n) /\ ~AddPair(o) /\ ~AddToSP(o, n) /\ ~Accumulator(o)
  BY <1>0 DEF Arithmetic, AddPair, AddToSP, Accumulator, AluTypes, AccumulatorTypes, i
<1>8. ~ChangeBits(o) /\ ~execute_bit(o)
  BY <1>0 DEF ChangeBits, execute_bit, BitwiseTypes, i
<1>9. ~execute_jp(o, n) /\ ~execute_call(o, n) /\ ~execute_rst(o) /\ ~execute_ret(o) /\ ~execute_pop(o)
  BY <1>0 DEF execute_jp, execute_call, execute_rst, execute_ret, execute_pop, i
<1> QED
  BY <1>1, <1>2, <1>3, <1>4, <1>5, <1>6, <1>7, <1>8, <1>9, Zenon DEF Execute

LEMMA Domain ==
  ASSUME NEW o, NEW n, Execute(o, n)
  PROVE  DOMAIN reg' = DOMAIN reg
<1>1. CASE execute_ld(o, n)
  BY <1>1 DEF execute_ld, LoadRegister, LoadMemory, LoadPair, StorePair, LoadOffset, Stepped, write_reg16
<1>2. CASE Arithmetic(o, n) \/ AddPair(o) \/ AddToSP(o, n) \/ Accumulator(o)
  BY <1>2 DEF Arithmetic, AddPair, AddToSP, Accumulator
<1>3. CASE execute_inc_dec(o) \/ ChangeBits(o)
  BY <1>3 DEF execute_inc_dec, ChangeBits, WriteBack
<1>4. CASE IncDecPair(o)
  BY <1>4 DEF IncDecPair, write_reg16
<1>5. CASE execute_bit(o) \/ execute_jr(o, n) \/ execute_jp(o, n) \/ execute_call(o, n)
  BY <1>5 DEF execute_bit, execute_jr, execute_jp, execute_call
<1>6. CASE execute_rst(o) \/ execute_ret(o) \/ execute_push(o) \/ Still(o)
  BY <1>6 DEF execute_rst, execute_ret, execute_push, Still
<1>7. CASE execute_pop(o)
  BY <1>7 DEF execute_pop
<1> QED
  BY <1>1, <1>2, <1>3, <1>4, <1>5, <1>6, <1>7, Zenon DEF Execute

(* No other execute function does the arithmetic on A.                       *)
LEMMA IsArithmetic ==
  ASSUME NEW o, NEW n, Execute(o, n), decode(o).type \in Remembered,
         decode(o).type \in {"ADC", "SBC"} \/ decode(o).mode \in AluModes
  PROVE  Arithmetic(o, n)
<1> DEFINE i == decode(o)
<1>1. /\ i.type \in {"ADD", "ADC", "SUB", "SBC", "CP"}
      /\ i.type = "ADD" => i.mode # "REG16_REG16" /\ i.mode # "REG16_IMM8"
  BY DEF Remembered, AluModes
<1> HIDE DEF i
<1>2. ~execute_ld(o, n) /\ ~AddPair(o) /\ ~AddToSP(o, n) /\ ~Accumulator(o)
  BY <1>1 DEF execute_ld, AddPair, AddToSP, AccumulatorTypes, Accumulator, i
<1>3. ~execute_inc_dec(o) /\ ~IncDecPair(o) /\ ~ChangeBits(o) /\ ~execute_bit(o)
  BY <1>1 DEF execute_inc_dec, IncDecPair, ChangeBits, BitwiseTypes, execute_bit, i
<1>4. /\ ~execute_jr(o, n) /\ ~execute_jp(o, n) /\ ~execute_call(o, n) /\ ~execute_rst(o)
      /\ ~execute_ret(o) /\ ~execute_push(o) /\ ~execute_pop(o) /\ ~Still(o)
  BY <1>1 DEF execute_jr, execute_jp, execute_call, execute_rst, execute_ret, execute_push,
              execute_pop, Still, i
<1> QED
  BY <1>2, <1>3, <1>4, Zenon DEF Execute

(* The arithmetic of A, seen from the step that follows. *)
LEMMA Calculated ==
  ASSUME NEW o, NEW n, Execute(o, n), RememberArithmetic(o, n), "A" \in DOMAIN reg,
         decode(o).type \in Remembered, decode(o).mode \in AluModes
  PROVE  Remembers'
<1> DEFINE i == decode(o)
           a == reg["A"]
           s == Source(i, n)
           c == IF i.type \in {"ADC", "SBC"} THEN CarryIn(F) ELSE 0
           r == Operation(i.type, a, s, F)
<1>1. Arithmetic(o, n)
  BY IsArithmetic
<1>2. done' = [type |-> i.type, a |-> a, s |-> s, c |-> c, inA |-> TRUE, flags |-> TRUE]
  <2>1. ~KeepsCarry(i)
    BY DEF KeepsCarry, Remembered
  <2> QED
    BY <2>1, Zenon DEF RememberArithmetic
<1>3. reg' = [reg EXCEPT !["A"] = r.value] /\ F' = r.flags
  BY <1>1, Zenon DEF Arithmetic
<1>4. c \in 0 .. 1 /\ (i.type \in {"ADC", "SBC"} => CarryIn(F) = c) /\ (i.type \notin {"ADC", "SBC"} => c = 0)
  BY DEF CarryIn
<1>5. /\ done'.type = i.type /\ done'.a = a /\ done'.s = s /\ done'.c = c
      /\ DOMAIN done' = {"type", "a", "s", "c", "inA", "flags"}
  BY <1>2
<1> HIDE DEF i, a, s, c
<1>6. Outcome' = r
  <2>1. Before' = [Z |-> FALSE, N |-> FALSE, H |-> FALSE, C |-> c = 1]
    BY <1>5, Zenon DEF Before
  <2>2. CarryIn(Before') = c
    BY <2>1, <1>4 DEF CarryIn
  <2>3. i.type \in Remembered
    BY DEF i
  <2>4. Operation(i.type, a, s, Before') = Operation(i.type, a, s, F)
    BY <1>4, <2>2, <2>3, SameOperation
  <2> QED
    BY <1>5, <2>4, Zenon DEF Outcome
<1> HIDE DEF r
<1>7. reg'["A"] = r.value /\ "A" \in DOMAIN reg'
  BY <1>3
<1>8. HoldsOutcome'
  BY <1>3, <1>4, <1>5, <1>6, <1>7 DEF HoldsOutcome
<1> QED
  BY <1>5, <1>7, <1>8 DEF Remembers

(* Other instructions keep what the history says they keep. *)
LEMMA Passed ==
  ASSUME NEW o, NEW n, Execute(o, n), RememberArithmetic(o, n), Remembers,
         ~(decode(o).type \in Remembered /\ decode(o).mode \in AluModes)
  PROVE  Remembers'
<1>1. "A" \in DOMAIN reg'
  BY Domain DEF Remembers
<1>2. CASE ~KeepsCarry(decode(o))
  <2>1. done' = None
    BY <1>2, Zenon DEF RememberArithmetic
  <2> QED
    BY <1>1, <2>1 DEF Remembers, None, Remembered
<1>3. CASE KeepsCarry(decode(o))
  <2>1. done' = [done EXCEPT !.inA = @ /\ reg'["A"] = reg["A"],
                             !.flags = @ /\ KeepsFlags(decode(o))]
    BY <1>3, Zenon DEF RememberArithmetic
  <2>2. /\ done'.type = done.type /\ done'.a = done.a /\ done'.s = done.s /\ done'.c = done.c
        /\ done'.inA => done.inA /\ reg'["A"] = reg["A"]
        /\ done'.flags => done.flags /\ KeepsFlags(decode(o))
        /\ DOMAIN done' = DOMAIN done
    BY <2>1 DEF Remembers
  <2>3. Outcome' = Outcome
    BY <2>2, Zenon DEF Outcome, Before
  <2>4. F'.C = F.C /\ (KeepsFlags(decode(o)) => F' = F)
    BY <1>3, Kept
  <2>5. HoldsOutcome => HoldsOutcome'
    BY <2>2, <2>3, <2>4 DEF HoldsOutcome
  <2> QED
    BY <1>1, <2>2, <2>5 DEF Remembers
<1> QED
  BY <1>2, <1>3

LEMMA RemembersInit == Init => Remembers
<1> SUFFICES ASSUME NEW b \in Benches, reg = b.reg, done = None
             PROVE  Remembers
  BY DEF Init
<1>1. reg \in [Reg8 -> Byte] /\ "A" \in Reg8
  BY BenchAssumption DEF Reg8
<1> QED
  BY <1>1 DEF Remembers, None, Remembered

LEMMA RemembersNext == Remembers /\ [Next]_vars => Remembers'
<1> SUFFICES ASSUME Remembers, [Next]_vars
             PROVE  Remembers'
  OBVIOUS
<1>1. CASE UNCHANGED vars
  BY <1>1 DEF vars, Remembers, HoldsOutcome, Outcome, Before
<1>2. CASE Step
  <2>1. PICK o, n : Execute(o, n) /\ RememberArithmetic(o, n)
    BY <1>2, Zenon DEF Step
  <2>2. "A" \in DOMAIN reg
    BY DEF Remembers
  <2> QED
    BY <2>1, <2>2, Calculated, Passed
<1> QED
  BY <1>1, <1>2 DEF Next, Over

(* At every step of a program A, F and the history agree on the last         *)
(* arithmetic.                                                               *)
THEOREM AlwaysRemembers == Spec => []Remembers
  BY RemembersInit, RemembersNext, PTL DEF Spec
-----------------------------------------------------------------------------
LEMMA Decode39 == decode(39).type = "DAA" /\ decode(39).mode = "IMPLIED"
<1>1. Z(39) = 7 /\ Y(39) = 4
  BY DEF Z, Y
<1>2. decode(39) = LowQuarter(39)
  BY DEF decode
<1>3. LowQuarter(39) = Implied(kAccumulator[5])
  BY <1>1 DEF LowQuarter
<1> QED
  BY <1>2, <1>3 DEF kAccumulator, Implied, I, Instruction

(* DAA directly behind an addition or subtraction of decimal digits, or     *)
(* behind any loads, pushes and jumps that leave A and the flags alone,      *)
(* leaves the decimal result: whatever the digits and the carry before.      *)
THEOREM DecimalAdjustAlways == Spec => DecimalAdjust
<1> DEFINE D == (/\ op' = 39 /\ listing # <<>>
                 /\ done.type \in {"ADD", "ADC", "SUB", "SBC"} /\ done.inA /\ done.flags
                 /\ IsBcd(done.a) /\ IsBcd(done.s)) => DecimalResult
<1>1. Remembers /\ [Next]_vars => [D]_vars
  <2> SUFFICES ASSUME Remembers, Next, op' = 39, listing # <<>>,
                      done.type \in {"ADD", "ADC", "SUB", "SBC"}, done.inA, done.flags,
                      IsBcd(done.a), IsBcd(done.s)
               PROVE  DecimalResult
    BY Zenon
  <2>1. PICK n : Execute(39, n)
    BY Zenon DEF Next, Over, Step
  <2> DEFINE r == Outcome
             d == Daa(r.value, r.flags)
  <2>2. /\ HoldsOutcome
        /\ F = r.flags /\ reg["A"] = r.value
        /\ "A" \in DOMAIN reg
    BY DEF Remembers, Remembered, HoldsOutcome
  <2>3. Accumulator(39)
    <3>1. ~execute_ld(39, n) /\ ~AddPair(39) /\ ~AddToSP(39, n) /\ ~Arithmetic(39, n)
      BY Decode39 DEF execute_ld, AddPair, AddToSP, AluTypes, Arithmetic
    <3>2. ~execute_inc_dec(39) /\ ~IncDecPair(39) /\ ~ChangeBits(39) /\ ~execute_bit(39)
      BY Decode39 DEF execute_inc_dec, IncDecPair, ChangeBits, BitwiseTypes, execute_bit
    <3>3. /\ ~execute_jr(39, n) /\ ~execute_jp(39, n) /\ ~execute_call(39, n) /\ ~execute_rst(39)
          /\ ~execute_ret(39) /\ ~execute_push(39) /\ ~execute_pop(39) /\ ~Still(39)
      BY Decode39 DEF execute_jr, execute_jp, execute_call, execute_rst, execute_ret,
                      execute_push, execute_pop, Still
    <3> QED
      BY <2>1, <3>1, <3>2, <3>3, Zenon DEF Execute
  <2>4. reg' = [reg EXCEPT !["A"] = d.value] /\ F' = d.flags
    <3>1. OnAccumulator("DAA", reg["A"], F) = Daa(reg["A"], F)
      BY DEF OnAccumulator
    <3> QED
      BY <2>2, <2>3, <3>1, Decode39, Zenon DEF Accumulator
  <2>5. reg'["A"] = d.value
    BY <2>2, <2>4
  <2>6. CarryIn(Before) = done.c
    <3>1. done.c \in 0 .. 1
      BY <2>2 DEF HoldsOutcome
    <3>2. CarryIn(Before) = IF done.c = 1 THEN 1 ELSE 0
      BY Zenon DEF CarryIn, Before
    <3> QED
      BY <3>1, <3>2
  <2>7. Before \in FlagSet
    BY DEF Before, FlagSet
  <2>8. CASE done.type \in {"ADD", "ADC"}
    <3>1. SumIs(r, Decimal(done.a) + Decimal(done.s) + done.c)
      <4>1. CASE done.type = "ADD"
        <5>1. done.c = 0 /\ r = Add(done.a, done.s)
          BY <2>2, <4>1 DEF HoldsOutcome, Outcome, Operation
        <5> QED
          BY <5>1, <2>7, DecimalSum, PlusNothing
      <4>2. CASE done.type = "ADC"
        <5>1. r = Adc(done.a, done.s, Before)
          BY <4>2 DEF Outcome, Operation
        <5> QED
          BY <5>1, <2>6, <2>7, DecimalSum
      <4> QED
        BY <2>8, <4>1, <4>2
    <3> QED
      BY <2>4, <2>5, <2>8, <3>1, Zenon DEF DecimalResult, SumIs
  <2>9. CASE done.type \in {"SUB", "SBC"}
    <3>1. DifferenceIs(r, Decimal(done.a) - Decimal(done.s) - done.c)
      <4>1. CASE done.type = "SUB"
        <5>1. done.c = 0 /\ r = Sub(done.a, done.s)
          BY <2>2, <4>1 DEF HoldsOutcome, Outcome, Operation
        <5> QED
          BY <5>1, <2>7, DecimalDifference, PlusNothing
      <4>2. CASE done.type = "SBC"
        <5>1. r = Sbc(done.a, done.s, Before)
          BY <4>2 DEF Outcome, Operation
        <5> QED
          BY <5>1, <2>6, <2>7, DecimalDifference
      <4> QED
        BY <2>9, <4>1, <4>2
    <3>2. done.type \notin {"ADD", "ADC"}
      BY <2>9
    <3> QED
      BY <2>4, <2>5, <3>1, <3>2, Zenon DEF DecimalResult, DifferenceIs
  <2> QED
    BY <2>8, <2>9
<1> QED
  BY <1>1, AlwaysRemembers, PTL DEF Spec, DecimalAdjust
-----------------------------------------------------------------------------
(* What the decoder promises about the fields of an instruction: a register  *)
(* stands where the execute functions read one, PUSH and POP name a pair but *)
(* SP, only jumps have a condition, and only some types fetch more bytes.    *)
Conds == {"CT_NONE", "CT_Z", "CT_NZ", "CT_C", "CT_NC"}
Jumps == {"JR", "JP", "CALL", "RET"}
Stacked == {"BC", "DE", "HL", "AF"}

Fits(m, r1, r2) ==
  /\ m \in {"REG8_REG8", "MEM_REG16_REG8", "MEM_HLI_REG8", "MEM_HLD_REG8", "MEM_FF00_IMM8_REG8",
            "MEM_FF00_C_REG8", "MEM_IMM16_REG8"} => r2 \in Reg8
  /\ m \in {"REG16_REG16", "MEM_IMM16_REG16", "REG16_SP_IMM8"} => r2 \in Reg16
  /\ m = "REG8" => r1 \in Reg8
  /\ m = "REG16" => r1 \in Reg16

Fetches(t, m) ==
  /\ m \in OneByteModes => t \in AluTypes \cup {"LD", "JR"}
  /\ m \in TwoByteModes => t \in {"LD", "JP", "CALL"}

Formed(i) ==
  /\ Fits(i.mode, i.reg_1, i.reg_2)
  /\ Fetches(i.type, i.mode)
  /\ i.cond \in Conds
  /\ i.cond # "CT_NONE" => i.type \in Jumps /\ i.mode # "REG16"
  /\ i.type \in {"PUSH", "POP"} => i.reg_1 \in Stacked
  /\ i.param \in 0 .. 56

LEMMA Fields ==
  ASSUME NEW o \in Opcodes
  PROVE  X(o) \in 0 .. 3 /\ Y(o) \in 0 .. 7 /\ Z(o) \in 0 .. 7 /\ P(o) \in 0 .. 3 /\ Q(o) \in 0 .. 1
  BY DEF Opcodes, X, Y, Z, P, Q

LEMMA Tables ==
  /\ \A k \in 0 .. 7 : k # 6 => kReg8[k + 1] \in Reg8 /\ kReg8[k + 1] # "HL"
  /\ kReg8[7] = "HL"
  /\ \A k \in 0 .. 3 : kReg16[k + 1] \in Reg16
  /\ \A k \in 0 .. 3 : kPushed[k + 1] \in Stacked
  /\ \A k \in 0 .. 3 : kCond[k + 1] \in Conds
  /\ \A k \in 0 .. 7 : /\ kAluOps[k + 1] \in AluTypes
                       /\ kCbRot[k + 1] \in BitwiseTypes
                       /\ kAccumulator[k + 1] \notin {"PUSH", "POP"}
<1>1. \A k \in 0 .. 7 : k # 6 => kReg8[k + 1] \in Reg8 /\ kReg8[k + 1] # "HL"
  BY DEF kReg8, Reg8
<1>2. kReg8[7] = "HL"
  BY DEF kReg8
<1>3. \A k \in 0 .. 3 : kReg16[k + 1] \in Reg16
  BY DEF kReg16, Reg16
<1>4. \A k \in 0 .. 3 : kPushed[k + 1] \in Stacked
  BY DEF kPushed, Stacked
<1>5. \A k \in 0 .. 3 : kCond[k + 1] \in Conds
  BY DEF kCond, Conds
<1>6. \A k \in 0 .. 7 : kAluOps[k + 1] \in AluTypes
  BY DEF kAluOps, AluTypes
<1>7. \A k \in 0 .. 7 : kCbRot[k + 1] \in BitwiseTypes
  BY DEF kCbRot, BitwiseTypes
<1>8. \A k \in 0 .. 7 : kAccumulator[k + 1] \notin {"PUSH", "POP"}
  BY DEF kAccumulator
<1> QED
  BY <1>1, <1>2, <1>3, <1>4, <1>5, <1>6, <1>7, <1>8

LEMMA Fetching ==
  /\ \A m : Fetches("LD", m)
  /\ \A t : \A m \in {"IMPLIED", "REG8", "REG16", "MEM_REG16", "REG8_REG8", "REG16_REG16",
                      "REG8_MEM_REG16", "RST_VEC"} : Fetches(t, m)
  /\ \A t \in AluTypes : Fetches(t, "REG8_IMM8") /\ Fetches(t, "REG16_IMM8")
  /\ Fetches("JR", "REL8") /\ Fetches("JP", "ABS16") /\ Fetches("CALL", "ABS16")
<1>1. \A m : Fetches("LD", m)
  BY DEF Fetches
<1>2. \A t : \A m \in {"IMPLIED", "REG8", "REG16", "MEM_REG16", "REG8_REG8", "REG16_REG16",
                       "REG8_MEM_REG16", "RST_VEC"} : Fetches(t, m)
  BY DEF Fetches, OneByteModes, TwoByteModes
<1>3. \A t \in AluTypes : Fetches(t, "REG8_IMM8") /\ Fetches(t, "REG16_IMM8")
  BY DEF Fetches, OneByteModes, TwoByteModes
<1>4. Fetches("JR", "REL8") /\ Fetches("JP", "ABS16") /\ Fetches("CALL", "ABS16")
  BY DEF Fetches, OneByteModes, TwoByteModes
<1> QED
  BY <1>1, <1>2, <1>3, <1>4

LEMMA FormedI ==
  ASSUME NEW t, NEW m, NEW r1, NEW r2, Fits(m, r1, r2), Fetches(t, m),
         t \in {"PUSH", "POP"} => r1 \in Stacked
  PROVE  Formed(I(t, m, r1, r2))
  BY DEF Formed, I, Instruction, Conds

LEMMA FormedImplied ==
  ASSUME NEW t, t \notin {"PUSH", "POP"}
  PROVE  Formed(Implied(t))
<1>1. Fits("IMPLIED", "NONE", "NONE")
  BY DEF Fits
<1> QED
  BY <1>1, FormedI, Fetching, Zenon DEF Implied

LEMMA FormedIf ==
  ASSUME NEW t \in Jumps, NEW m \in {"REL8", "ABS16", "IMPLIED"}, NEW c \in Conds, Fetches(t, m)
  PROVE  Formed(If(t, m, c))
  BY DEF Formed, Fits, If, Instruction, Jumps

LEMMA FormedTarget ==
  ASSUME NEW t, t \notin {"PUSH", "POP"}, NEW k \in 0 .. 7, NEW p \in 0 .. 7
  PROVE  /\ Formed(Target(t, kReg8[k + 1]))
         /\ Formed([Target(t, kReg8[k + 1]) EXCEPT !.param = p])
<1>1. kReg8[k + 1] = "HL" \/ kReg8[k + 1] \in Reg8
  BY Tables
<1>2. ASSUME NEW r, r = "HL" \/ r \in Reg8
      PROVE  Formed(Target(t, r)) /\ Formed([Target(t, r) EXCEPT !.param = p])
  <2>1. CASE r = "HL"
    <3>1. Target(t, r) = I(t, "MEM_REG16", r, "NONE")
      BY <2>1 DEF Target
    <3>2. Fits("MEM_REG16", r, "NONE")
      BY DEF Fits
    <3> QED
      BY <3>1, <3>2, Fetching DEF I, Instruction, Formed, Conds
  <2>2. CASE r # "HL"
    <3>1. Target(t, r) = I(t, "REG8", r, "NONE")
      BY <2>2 DEF Target
    <3>2. Fits("REG8", r, "NONE")
      BY <1>2, <2>2 DEF Fits
    <3> QED
      BY <3>1, <3>2, Fetching DEF I, Instruction, Formed, Conds
  <2> QED
    BY <2>1, <2>2
<1> QED
  BY <1>1, <1>2

LEMMA FormedLow ==
  ASSUME NEW o \in Opcodes
  PROVE  Formed(LowQuarter(o))
<1> DEFINE y == Y(o)  r == kReg16[P(o) + 1]
<1>0. Z(o) \in 0 .. 7 /\ y \in 0 .. 7 /\ P(o) \in 0 .. 3 /\ Q(o) \in 0 .. 1
  BY Fields
<1>1. Formed(JumpColumn(o))
  <2>1. Formed(Implied("NOP")) /\ Formed(Implied("STOP"))
    BY FormedImplied
  <2>2. Formed(I("LD", "MEM_IMM16_REG16", "IMM16", "SP"))
    <3>1. Fits("MEM_IMM16_REG16", "IMM16", "SP")
      BY DEF Fits, Reg16
    <3> QED
      BY <3>1, FormedI, Fetching
  <2>3. Formed(If("JR", "REL8", "CT_NONE"))
    BY FormedIf, Fetching DEF Jumps, Conds
  <2>4. y \in 4 .. 7 => Formed(If("JR", "REL8", kCond[y - 3]))
    <3>1. ASSUME y \in 4 .. 7 PROVE kCond[y - 3] \in Conds
      <4>1. y - 4 \in 0 .. 3 /\ (y - 4) + 1 = y - 3
        BY <3>1
      <4> QED
        BY <4>1, Tables
    <3> QED
      BY <3>1, FormedIf, Fetching DEF Jumps
  <2>5. y \in {0, 1, 2, 3} \/ y \in 4 .. 7
    BY <1>0
  <2>6. y \in 4 .. 7 => y # 0 /\ y # 1 /\ y # 2 /\ y # 3
    OBVIOUS
  <2> QED
    BY <2>1, <2>2, <2>3, <2>4, <2>5, <2>6 DEF JumpColumn
<1>2. r \in Reg16
  BY <1>0, Tables
<1>3. Formed(PairColumn(o))
  <2>1. Fits("REG16_IMM16", r, "IMM16")
    BY DEF Fits
  <2>2. Fits("REG16_REG16", "HL", r)
    BY <1>2 DEF Fits
  <2> QED
    BY <2>1, <2>2, FormedI, Fetching DEF PairColumn
<1>4. Formed(IndirectColumn(o))
  <2> HIDE DEF r
  <2>1. /\ Fits("MEM_REG16_REG8", r, "A") /\ Fits("MEM_HLI_REG8", "HL", "A")
        /\ Fits("MEM_HLD_REG8", "NONE", "A") /\ Fits("REG8_MEM_REG16", "A", r)
        /\ Fits("REG8_MEM_HLI", "A", "HL") /\ Fits("REG8_MEM_HLD", "A", "NONE")
    BY DEF Fits, Reg8
  <2>2. (Q(o) = 0 \/ Q(o) = 1) /\ (P(o) < 2 \/ P(o) = 2 \/ P(o) = 3)
    BY <1>0
  <2>3. /\ Formed(I("LD", "MEM_REG16_REG8", r, "A")) /\ Formed(I("LD", "MEM_HLI_REG8", "HL", "A"))
        /\ Formed(I("LD", "MEM_HLD_REG8", "NONE", "A")) /\ Formed(I("LD", "REG8_MEM_REG16", "A", r))
        /\ Formed(I("LD", "REG8_MEM_HLI", "A", "HL")) /\ Formed(I("LD", "REG8_MEM_HLD", "A", "NONE"))
    BY <2>1, FormedI, Fetching
  <2> QED
    BY <2>2, <2>3 DEF IndirectColumn, r
<1>5. Formed(I(IF Q(o) = 0 THEN "INC" ELSE "DEC", "REG16", r, "NONE"))
  <2>1. Fits("REG16", r, "NONE")
    BY <1>2 DEF Fits
  <2> QED
    BY <2>1, FormedI, Fetching
<1>6. Formed(Target("INC", kReg8[y + 1])) /\ Formed(Target("DEC", kReg8[y + 1]))
  BY <1>0, FormedTarget
<1>7. Formed(ImmediateColumn(o))
  <2>1. ASSUME NEW q
        PROVE  Formed(I("LD", "MEM_REG16_IMM8", q, "IMM8")) /\ Formed(I("LD", "REG8_IMM8", q, "IMM8"))
    <3>1. Fits("MEM_REG16_IMM8", q, "IMM8") /\ Fits("REG8_IMM8", q, "IMM8")
      BY DEF Fits
    <3> QED
      BY <3>1, FormedI, Fetching
  <2> QED
    BY <2>1, Zenon DEF ImmediateColumn
<1>8. Formed(Implied(kAccumulator[y + 1]))
  BY <1>0, Tables, FormedImplied
<1>9. \/ Z(o) = 0 \/ Z(o) = 1 \/ Z(o) = 2 \/ Z(o) = 3 \/ Z(o) = 4 \/ Z(o) = 5 \/ Z(o) = 6 \/ Z(o) = 7
  BY <1>0
<1> QED
  BY <1>1, <1>3, <1>4, <1>5, <1>6, <1>7, <1>8, <1>9 DEF LowQuarter

LEMMA FormedLd ==
  ASSUME NEW o \in 64 .. 127, o # 118
  PROVE  Formed(decode_ld_r8_r8(o))
<1> DEFINE dst == kReg8[Y(o) + 1]  src == kReg8[Z(o) + 1]
<1>1. Y(o) \in 0 .. 7 /\ Z(o) \in 0 .. 7
  BY Fields DEF Opcodes
<1>2. Y(o) # 6 \/ Z(o) # 6
  BY DEF Y, Z
<1>3. dst = "HL" => src \in Reg8
  BY <1>1, <1>2, Tables
<1>4. src # "HL" => src \in Reg8
  BY <1>1, Tables
<1> HIDE DEF dst, src
<1>5. dst = "HL" => Fits("MEM_REG16_REG8", "HL", src)
  BY <1>3 DEF Fits
<1>6. Fits("REG8_MEM_REG16", dst, "HL")
  BY DEF Fits
<1>7. src # "HL" => Fits("REG8_REG8", dst, src)
  BY <1>4 DEF Fits
<1>8. CASE dst = "HL"
  <2>1. decode_ld_r8_r8(o) = I("LD", "MEM_REG16_REG8", "HL", src)
    BY <1>8 DEF decode_ld_r8_r8, dst, src
  <2> QED
    BY <1>5, <1>8, <2>1, FormedI, Fetching
<1>9. CASE dst # "HL" /\ src = "HL"
  <2>1. decode_ld_r8_r8(o) = I("LD", "REG8_MEM_REG16", dst, "HL")
    BY <1>9 DEF decode_ld_r8_r8, dst, src
  <2> QED
    BY <1>6, <2>1, FormedI, Fetching
<1>10. CASE dst # "HL" /\ src # "HL"
  <2>1. decode_ld_r8_r8(o) = I("LD", "REG8_REG8", dst, src)
    BY <1>10 DEF decode_ld_r8_r8, dst, src
  <2> QED
    BY <1>7, <1>10, <2>1, FormedI, Fetching
<1> QED
  BY <1>8, <1>9, <1>10

LEMMA FormedAlu ==
  ASSUME NEW o \in Opcodes
  PROVE  Formed(decode_alu_block(o))
<1> DEFINE src == kReg8[Z(o) + 1]  m == IF src = "HL" THEN "REG8_MEM_REG16" ELSE "REG8_REG8"
<1>1. src = "HL" \/ src \in Reg8
  BY Fields, Tables
<1> HIDE DEF src
<1>2. Fits(m, "A", src)
  BY <1>1 DEF Fits
<1>3. decode_alu_block(o) = I(kAluOps[Y(o) + 1], m, "A", src)
  BY DEF decode_alu_block, src
<1>4. kAluOps[Y(o) + 1] \in AluTypes
  BY Fields, Tables
<1> QED
  <2>1. Fetches(kAluOps[Y(o) + 1], m) /\ kAluOps[Y(o) + 1] \notin {"PUSH", "POP"}
    BY <1>4, Fetching DEF AluTypes
  <2> HIDE DEF m
  <2> QED
    BY <1>2, <1>3, <2>1, FormedI

LEMMA FormedHigh ==
  ASSUME NEW o \in Opcodes
  PROVE  Formed(HighQuarter(o))
<1> DEFINE y == Y(o)  r == kPushed[P(o) + 1]  c == kCond[y + 1]
<1>0. Z(o) \in 0 .. 7 /\ y \in 0 .. 7 /\ P(o) \in 0 .. 3 /\ Q(o) \in 0 .. 1
  BY Fields
<1>1. r \in Stacked /\ r \in Reg16
  BY <1>0, Tables DEF Stacked, Reg16
<1>2. y < 4 => c \in Conds
  <2>1. y < 4 => y \in 0 .. 3
    BY <1>0
  <2> QED
    BY <2>1, Tables
<1>3. y < 4 => /\ Formed(If("RET", "IMPLIED", c)) /\ Formed(If("JP", "ABS16", c))
               /\ Formed(If("CALL", "ABS16", c))
  BY <1>2, FormedIf, Fetching DEF Jumps
<1>4. /\ Formed(If("RET", "IMPLIED", "CT_NONE")) /\ Formed(If("JP", "ABS16", "CT_NONE"))
      /\ Formed(If("CALL", "ABS16", "CT_NONE"))
  BY FormedIf, Fetching DEF Jumps, Conds
<1>5. y < 4 \/ y = 4 \/ y = 5 \/ y = 6 \/ y = 7
  BY <1>0
<1>6. Formed(ReturnColumn(o))
  <2>1. /\ Fits("MEM_FF00_IMM8_REG8", "IMM8", "A") /\ Fits("REG16_IMM8", "SP", "IMM8")
        /\ Fits("REG8_MEM_FF00_IMM8", "A", "IMM8") /\ Fits("REG16_SP_IMM8", "HL", "SP")
    BY DEF Fits, Reg8, Reg16
  <2>2. /\ Formed(I("LD", "MEM_FF00_IMM8_REG8", "IMM8", "A")) /\ Formed(I("ADD", "REG16_IMM8", "SP", "IMM8"))
        /\ Formed(I("LD", "REG8_MEM_FF00_IMM8", "A", "IMM8")) /\ Formed(I("LD", "REG16_SP_IMM8", "HL", "SP"))
    BY <2>1, FormedI, Fetching DEF AluTypes
  <2> QED
    BY <1>3, <1>5, <2>2 DEF ReturnColumn
<1>7. Formed(PopColumn(o))
  <2>1. Fits("REG16", r, "NONE") /\ Fits("REG16", "HL", "NONE") /\ Fits("REG16_REG16", "SP", "HL")
    BY <1>1 DEF Fits, Reg16
  <2>2. /\ Formed(I("POP", "REG16", r, "NONE")) /\ Formed(I("JP", "REG16", "HL", "NONE"))
        /\ Formed(I("LD", "REG16_REG16", "SP", "HL")) /\ Formed(Implied("RETI"))
    BY <1>1, <2>1, FormedI, Fetching, FormedImplied
  <2>3. Q(o) = 0 \/ y = 1 \/ y = 3 \/ y = 5 \/ y = 7
    BY <1>0 DEF Q
  <2>4. Q(o) = 0 => y # 1 /\ y # 3 /\ y # 5 /\ y # 7
    BY <1>0 DEF Q
  <2> QED
    BY <1>4, <2>2, <2>3, <2>4 DEF PopColumn
<1>8. Formed(AbsoluteColumn(o))
  <2>1. /\ Fits("MEM_FF00_C_REG8", "C", "A") /\ Fits("MEM_IMM16_REG8", "IMM16", "A")
        /\ Fits("REG8_MEM_FF00_C", "A", "C") /\ Fits("REG8_MEM_IMM16", "A", "IMM16")
    BY DEF Fits, Reg8
  <2>2. /\ Formed(I("LD", "MEM_FF00_C_REG8", "C", "A")) /\ Formed(I("LD", "MEM_IMM16_REG8", "IMM16", "A"))
        /\ Formed(I("LD", "REG8_MEM_FF00_C", "A", "C")) /\ Formed(I("LD", "REG8_MEM_IMM16", "A", "IMM16"))
    BY <2>1, FormedI, Fetching
  <2> QED
    BY <1>3, <1>5, <2>2 DEF AbsoluteColumn
<1>9. Formed(Absent) /\ Formed(I("PUSH", "REG16", r, "NONE")) /\ Formed(I(kAluOps[y + 1], "REG8_IMM8", "A", "IMM8"))
  <2>1. Fits("IMPLIED", "A", "A") /\ Fits("REG16", r, "NONE") /\ Fits("REG8_IMM8", "A", "IMM8")
    BY <1>1 DEF Fits
  <2>2. kAluOps[y + 1] \in AluTypes
    BY <1>0, Tables
  <2> QED
    BY <1>1, <2>1, <2>2, FormedI, Fetching DEF Absent, AluTypes
<1>10. Formed(Instruction("RST", "RST_VEC", "NONE", "NONE", "CT_NONE", 8 * y))
  BY <1>0, Fetching DEF Formed, Fits, Instruction, Conds
<1>11. Formed(Implied("DI")) /\ Formed(Implied("EI"))
  BY FormedImplied
<1> HIDE DEF r, c, y
<1>12. \/ Z(o) = 0 \/ Z(o) = 1 \/ Z(o) = 2 \/ Z(o) = 3 \/ Z(o) = 4 \/ Z(o) = 5 \/ Z(o) = 6 \/ Z(o) = 7
  BY <1>0
<1>13. CASE Z(o) \in {0, 1, 2}
  BY <1>6, <1>7, <1>8, <1>13 DEF HighQuarter, y
<1>14. CASE Z(o) \in {6, 7}
  BY <1>9, <1>10, <1>14 DEF HighQuarter, y
<1>15. CASE Z(o) = 3
  BY <1>4, <1>9, <1>11, <1>15 DEF HighQuarter, y
<1>16. CASE Z(o) = 4
  BY <1>3, <1>9, <1>16 DEF HighQuarter, y, c
<1>17. CASE Z(o) = 5
  <2>1. Q(o) = 0 => y # 1
    BY <1>0 DEF Q, y
  <2> QED
    BY <1>4, <1>9, <1>17, <2>1 DEF HighQuarter, y, r
<1> QED
  BY <1>12, <1>13, <1>14, <1>15, <1>16, <1>17

LEMMA FormedCb ==
  ASSUME NEW o \in Opcodes
  PROVE  Formed(decode_cb(o))
<1> DEFINE t == CASE X(o) = 0 -> kCbRot[Y(o) + 1]
                  [] X(o) = 1 -> "BIT"
                  [] X(o) = 2 -> "RES"
                  [] X(o) = 3 -> "SET"
           p == IF X(o) = 0 THEN 0 ELSE Y(o)
<1>1. X(o) \in 0 .. 3 /\ Y(o) \in 0 .. 7 /\ Z(o) \in 0 .. 7
  BY Fields
<1>2. p \in 0 .. 7
  BY <1>1
<1>3. t \notin {"PUSH", "POP"}
  <2>1. kCbRot[Y(o) + 1] \notin {"PUSH", "POP"}
    BY <1>1, Tables DEF BitwiseTypes
  <2>2. X(o) = 0 \/ X(o) = 1 \/ X(o) = 2 \/ X(o) = 3
    BY <1>1
  <2> QED
    BY <2>1, <2>2
<1>4. decode_cb(o) = [Target(t, kReg8[Z(o) + 1]) EXCEPT !.param = p]
  BY Zenon DEF decode_cb
<1> HIDE DEF t, p
<1>5. Formed([Target(t, kReg8[Z(o) + 1]) EXCEPT !.param = p])
  BY <1>1, <1>2, <1>3, FormedTarget, Zenon
<1> QED
  BY <1>4, <1>5, Zenon

(* Every opcode decodes to an instruction the execute functions can take.    *)
LEMMA AllFormed ==
  ASSUME NEW o \in Opcodes
  PROVE  Formed(decode(o))
<1>1. CASE o > 255
  BY <1>1, FormedCb DEF decode, Opcodes
<1>2. CASE o = 118
  BY <1>2, FormedImplied DEF decode
<1>3. CASE o < 64
  BY <1>3, FormedLow DEF decode
<1>4. CASE o \in 64 .. 127 /\ o # 118
  BY <1>4, FormedLd DEF decode
<1>5. CASE o \in 128 .. 191
  BY <1>5, FormedAlu DEF decode
<1>6. CASE o \in 192 .. 255
  BY <1>6, FormedHigh DEF decode
<1> QED
  BY <1>1, <1>2, <1>3, <1>4, <1>5, <1>6 DEF Opcodes
-----------------------------------------------------------------------------
(* What the operators of the execute functions return. *)

LEMMA Wrapped ==
  ASSUME NEW v \in Int
  PROVE  Wrap(v) \in Word
  BY WordOf DEF Wrap

LEMMA ArithmeticTyped ==
  ASSUME NEW t \in AluTypes, NEW a \in Byte, NEW s \in Byte, NEW f
  PROVE  Operation(t, a, s, f).value \in Byte
<1>1. Result(a, Cp(a, s)).value \in Byte
  BY DEF Result
<1> QED
  BY <1>1, SumsTyped DEF Operation, AluTypes

LEMMA AccumulatorTyped ==
  ASSUME NEW t \in AccumulatorTypes, NEW a \in Byte, NEW f
  PROVE  OnAccumulator(t, a, f).value \in Byte
<1>1. /\ OfA(Rlc(a)).value \in Byte /\ OfA(Rrc(a)).value \in Byte
      /\ OfA(Rl(a, f)).value \in Byte /\ OfA(Rr(a, f)).value \in Byte
  BY ShiftsTyped, Zenon DEF OfA, Result
<1>2. Daa(a, f).value \in Byte /\ Cpl(a) \in Byte
  BY SumsTyped, ByteOfTyped DEF Cpl
<1> QED
  BY <1>1, <1>2 DEF OnAccumulator, AccumulatorTypes, Result

LEMMA BitwiseTyped ==
  ASSUME NEW i, i.type \in BitwiseTypes, NEW v \in Byte, NEW f
  PROVE  Bitwise(i, v, f).value \in Byte
<1>1. Result(Res(v, i.param), f).value \in Byte /\ Result(Set(v, i.param), f).value \in Byte
  BY ByteOfTyped DEF Res, Set, Result
<1> QED
  BY <1>1, ShiftsTyped DEF Bitwise, BitwiseTypes
-----------------------------------------------------------------------------
(* The types of the machine. *)
Machine ==
  /\ reg \in [Reg8 -> Byte]
  /\ SP \in Word
  /\ PC \in Word
  /\ mem \in [Ram -> Byte]

LEMMA BusReadTyped ==
  ASSUME mem \in [Ram -> Byte], NEW a
  PROVE  BusRead(a) \in Byte
<1>1. 255 \in Byte
  BY DEF Byte
<1> QED
  BY <1>1 DEF BusRead

LEMMA PutTyped ==
  ASSUME NEW m \in [Ram -> Byte], NEW a, NEW v \in Byte
  PROVE  Put(m, a, v) \in [Ram -> Byte]
  BY DEF Put

LEMMA Put16Typed ==
  ASSUME NEW m \in [Ram -> Byte], NEW a, NEW v \in Word
  PROVE  Put16(m, a, v) \in [Ram -> Byte]
  BY Halves, PutTyped DEF Put16

LEMMA PopTyped ==
  ASSUME Machine
  PROVE  Popped \in Word
  BY BusReadTyped, Join DEF Machine, Popped, BusRead16

LEMMA PairTyped ==
  ASSUME Machine, NEW r \in Reg16
  PROVE  read_reg16(r) \in Word
<1>1. \A q \in Reg8 : reg[q] \in Byte
  BY DEF Machine
<1>2. CASE r = "SP"
  BY <1>2 DEF read_reg16, Machine
<1>3. CASE r = "AF"
  <2>1. FlagByte(F) \in Byte /\ reg["A"] \in Byte
    BY <1>1 DEF FlagByte, Byte, Reg8
  <2> QED
    BY <1>3, <2>1, Join DEF read_reg16
<1>4. CASE r \in {"BC", "DE", "HL"}
  <2>1. reg[High(r)] \in Byte /\ reg[Low(r)] \in Byte
    BY <1>1, <1>4 DEF High, Low, Reg8
  <2>2. r # "SP" /\ r # "AF"
    BY <1>4
  <2> QED
    BY <1>4, <2>1, <2>2, Join DEF read_reg16
<1> QED
  BY <1>2, <1>3, <1>4 DEF Reg16

LEMMA SteppedTyped ==
  ASSUME NEW r \in [Reg8 -> Byte], NEW m
  PROVE  Stepped(r, m) \in [Reg8 -> Byte]
<1> DEFINE hl == 256 * r["H"] + r["L"]
           d == IF m \in {"MEM_HLI_REG8", "REG8_MEM_HLI"} THEN 1
                ELSE IF m \in {"MEM_HLD_REG8", "REG8_MEM_HLD"} THEN -1 ELSE 0
<1>1. r["H"] \in Byte /\ r["L"] \in Byte
  BY DEF Reg8
<1>2. hl \in Int
  BY <1>1, Join, WordIsInt
<1>3. d \in {-1, 0, 1}
  OBVIOUS
<1>4. Stepped(r, m) = [r EXCEPT !["H"] = Wrap(hl + d) \div 256, !["L"] = Wrap(hl + d) % 256]
  BY Zenon DEF Stepped
<1> HIDE DEF hl, d
<1>5. Wrap(hl + d) \div 256 \in Byte /\ Wrap(hl + d) % 256 \in Byte
  BY <1>2, <1>3, Wrapped, Halves
<1> QED
  BY <1>4, <1>5

LEMMA WriteTyped ==
  ASSUME Machine, NEW r, NEW v \in Word, write_reg16(r, v)
  PROVE  reg' \in [Reg8 -> Byte] /\ SP' \in Word
  BY Halves DEF Machine, write_reg16

LEMMA ImmTyped ==
  ASSUME NEW n \in Word
  PROVE  Imm8(n) \in Byte
  BY Halves DEF Imm8

LEMMA AfterTyped ==
  ASSUME Machine, NEW o
  PROVE  After(o) \in Word
<1>1. Length(o) \in Int
  BY DEF Length, Fetched
<1>2. PC \in Int
  BY WordIsInt DEF Machine
<1>3. PC + Length(o) \in Int
  BY <1>1, <1>2
<1> QED
  BY <1>3, Wrapped DEF After

LEMMA PushTyped ==
  ASSUME Machine, NEW v \in Word, Push(v)
  PROVE  SP' \in Word /\ mem' \in [Ram -> Byte]
<1>1. SP - 2 \in Int
  BY WordIsInt DEF Machine
<1> QED
  BY <1>1, Wrapped, Put16Typed DEF Push, Machine

LEMMA SPUp ==
  ASSUME Machine
  PROVE  Wrap(SP + 2) \in Word
<1>1. SP + 2 \in Int
  BY WordIsInt DEF Machine
<1> QED
  BY <1>1, Wrapped

LEMMA LdTyped ==
  ASSUME Machine, NEW o \in Opcodes, NEW n \in Word, execute_ld(o, n)
  PROVE  Machine'
<1> DEFINE i == decode(o)
<1>0. Formed(i)
  BY AllFormed
<1>1. PC' \in Word
  BY AfterTyped DEF execute_ld, Fetch
<1>2. LoadRegister(i, n) \/ LoadMemory(i, n) \/ LoadPair(i, n) \/ StorePair(i, n) \/ LoadOffset(i, n)
  BY Zenon DEF execute_ld
<1> HIDE DEF i
<1>3. \A q \in Reg8 : reg[q] \in Byte
  BY DEF Machine
<1>4. CASE LoadRegister(i, n)
  <2> DEFINE v == CASE i.mode = "REG8_REG8" -> reg[i.reg_2]
                    [] i.mode = "REG8_IMM8" -> Imm8(n)
                    [] i.mode \notin {"REG8_REG8", "REG8_IMM8"} -> BusRead(Address(i, n))
  <2>1. reg' = Stepped([reg EXCEPT ![i.reg_1] = v], i.mode) /\ SP' = SP /\ mem' = mem
    BY <1>4, Zenon DEF LoadRegister
  <2>2. v \in Byte
    <3>1. i.mode = "REG8_REG8" => reg[i.reg_2] \in Byte
      BY <1>0, <1>3 DEF Formed, Fits
    <3>2. Imm8(n) \in Byte /\ BusRead(Address(i, n)) \in Byte
      BY ImmTyped, BusReadTyped DEF Machine
    <3> QED
      BY <3>1, <3>2
  <2> HIDE DEF v
  <2>3. [reg EXCEPT ![i.reg_1] = v] \in [Reg8 -> Byte]
    BY <2>2 DEF Machine
  <2> QED
    BY <1>1, <2>1, <2>3, SteppedTyped DEF Machine
<1>5. CASE LoadMemory(i, n)
  <2> DEFINE v == IF i.mode = "MEM_REG16_IMM8" THEN Imm8(n) ELSE reg[i.reg_2]
  <2>1. mem' = Put(mem, Address(i, n), v) /\ reg' = Stepped(reg, i.mode) /\ SP' = SP
    BY <1>5, Zenon DEF LoadMemory
  <2>2. i.mode # "MEM_REG16_IMM8" => reg[i.reg_2] \in Byte
    BY <1>0, <1>3, <1>5 DEF Formed, Fits, LoadMemory, ToMemory
  <2>3. v \in Byte
    BY <2>2, ImmTyped
  <2> HIDE DEF v
  <2> QED
    BY <1>1, <2>1, <2>3, PutTyped, SteppedTyped DEF Machine
<1>6. CASE LoadPair(i, n)
  <2> DEFINE v == IF i.mode = "REG16_IMM16" THEN n ELSE read_reg16(i.reg_2)
  <2>1. write_reg16(i.reg_1, v) /\ mem' = mem
    BY <1>6, Zenon DEF LoadPair
  <2>2. v \in Word
    <3>1. i.mode = "REG16_REG16" => i.reg_2 \in Reg16
      BY <1>0 DEF Formed, Fits
    <3>2. i.mode = "REG16_REG16" => read_reg16(i.reg_2) \in Word
      BY <3>1, PairTyped
    <3> QED
      BY <1>6, <3>2 DEF LoadPair
  <2> HIDE DEF v
  <2> QED
    BY <1>1, <2>1, <2>2, WriteTyped DEF Machine
<1>7. CASE StorePair(i, n)
  <2>1. i.reg_2 \in Reg16
    BY <1>0, <1>7 DEF Formed, Fits, StorePair
  <2> QED
    BY <1>1, <1>7, <2>1, PairTyped, Put16Typed DEF StorePair, Machine
<1>8. CASE LoadOffset(i, n)
  <2> DEFINE v == AddOffset(read_reg16(i.reg_2), Imm8(n)).value
  <2>1. reg' = [reg EXCEPT !["H"] = v \div 256, !["L"] = v % 256] /\ SP' = SP /\ mem' = mem
    BY <1>8, Zenon DEF LoadOffset
  <2>2. i.reg_2 \in Reg16
    BY <1>0, <1>8 DEF Formed, Fits, LoadOffset
  <2>3. v \in Word
    BY <2>2, PairTyped, ImmTyped, WordsTyped
  <2> HIDE DEF v
  <2>4. v \div 256 \in Byte /\ v % 256 \in Byte
    BY <2>3, Halves
  <2> QED
    BY <1>1, <2>1, <2>4 DEF Machine
<1> QED
  BY <1>2, <1>4, <1>5, <1>6, <1>7, <1>8

LEMMA SourceTyped ==
  ASSUME Machine, NEW o \in Opcodes, NEW n \in Word, decode(o).mode \in AluModes
  PROVE  Source(decode(o), n) \in Byte
<1> DEFINE i == decode(o)
<1>1. Formed(i)
  BY AllFormed
<1> HIDE DEF i
<1>2. i.mode = "REG8_REG8" => reg[i.reg_2] \in Byte
  BY <1>1 DEF Formed, Fits, Machine
<1>3. Imm8(n) \in Byte /\ BusRead(Address(i, n)) \in Byte
  BY ImmTyped, BusReadTyped DEF Machine
<1>4. i.mode \in AluModes
  BY DEF i
<1>5. Source(i, n) \in Byte
  BY <1>2, <1>3, <1>4 DEF Source, AluModes
<1> QED
  BY <1>5 DEF i

LEMMA AddTyped ==
  ASSUME Machine, NEW o \in Opcodes, NEW n \in Word,
         Arithmetic(o, n) \/ AddPair(o) \/ AddToSP(o, n) \/ Accumulator(o)
  PROVE  Machine'
<1> DEFINE i == decode(o)
<1>0. Formed(i)
  BY AllFormed
<1>1. PC' \in Word
  BY AfterTyped DEF Arithmetic, AddPair, AddToSP, Accumulator, Fetch
<1>2. reg["A"] \in Byte
  BY DEF Machine, Reg8
<1>3. CASE Arithmetic(o, n)
  <2> DEFINE v == Operation(i.type, reg["A"], Source(i, n), F).value
  <2>1. i.type \in AluTypes /\ i.mode \in AluModes
    BY <1>3, Zenon DEF Arithmetic
  <2>2. reg' = [reg EXCEPT !["A"] = v] /\ SP' = SP /\ mem' = mem
    BY <1>3, Zenon DEF Arithmetic
  <2>3. v \in Byte
    BY <1>2, <2>1, SourceTyped, ArithmeticTyped
  <2> HIDE DEF v
  <2> QED
    BY <1>1, <2>2, <2>3 DEF Machine
<1>4. CASE AddPair(o)
  <2> DEFINE v == AddWords(read_reg16("HL"), read_reg16(i.reg_2), F).value
  <2>1. reg' = [reg EXCEPT !["H"] = v \div 256, !["L"] = v % 256] /\ SP' = SP /\ mem' = mem
    BY <1>4, Zenon DEF AddPair
  <2>2. i.mode = "REG16_REG16"
    BY <1>4, Zenon DEF AddPair
  <2> HIDE DEF i
  <2>3. i.reg_2 \in Reg16 /\ "HL" \in Reg16
    BY <1>0, <2>2 DEF Formed, Fits, Reg16
  <2>4. 0 \in Byte
    BY DEF Byte
  <2>5. v \in Word
    BY <2>3, <2>4, PairTyped, WordsTyped
  <2> HIDE DEF v
  <2>6. v \div 256 \in Byte /\ v % 256 \in Byte
    BY <2>5, Halves
  <2> QED
    BY <1>1, <2>1, <2>6 DEF Machine
<1>5. CASE AddToSP(o, n)
  <2>1. SP' = AddOffset(SP, Imm8(n)).value /\ reg' = reg /\ mem' = mem
    BY <1>5, Zenon DEF AddToSP
  <2> QED
    BY <1>1, <2>1, ImmTyped, WordsTyped DEF Machine
<1>6. CASE Accumulator(o)
  <2> DEFINE v == OnAccumulator(i.type, reg["A"], F).value
  <2>1. i.type \in AccumulatorTypes
    BY <1>6, Zenon DEF Accumulator
  <2>2. reg' = [reg EXCEPT !["A"] = v] /\ SP' = SP /\ mem' = mem
    BY <1>6, Zenon DEF Accumulator
  <2>3. v \in Byte
    BY <1>2, <2>1, AccumulatorTyped
  <2> HIDE DEF v
  <2> QED
    BY <1>1, <2>2, <2>3 DEF Machine
<1> QED
  BY <1>3, <1>4, <1>5, <1>6

LEMMA TargetTyped ==
  ASSUME Machine, NEW i, Formed(i)
  PROVE  TargetByte(i) \in Byte
<1>1. i.mode = "REG8" => reg[i.reg_1] \in Byte
  BY DEF Formed, Fits, Machine
<1>2. BusRead(read_reg16(i.reg_1)) \in Byte
  BY BusReadTyped DEF Machine
<1> QED
  BY <1>1, <1>2 DEF TargetByte

LEMMA WriteBackTyped ==
  ASSUME Machine, NEW i, NEW v \in Byte, WriteBack(i, v)
  PROVE  reg' \in [Reg8 -> Byte] /\ mem' \in [Ram -> Byte]
<1>1. CASE reg' = [reg EXCEPT ![i.reg_1] = v] /\ mem' = mem
  BY <1>1 DEF Machine
<1>2. CASE mem' = Put(mem, read_reg16(i.reg_1), v) /\ reg' = reg
  BY <1>2, PutTyped DEF Machine
<1> QED
  BY <1>1, <1>2, Zenon DEF WriteBack

LEMMA BitsTyped ==
  ASSUME Machine, NEW o \in Opcodes, execute_inc_dec(o) \/ ChangeBits(o) \/ execute_bit(o)
  PROVE  Machine'
<1> DEFINE i == decode(o)
           b == TargetByte(i)
<1>0. b \in Byte
  BY AllFormed, TargetTyped
<1>1. PC' \in Word /\ SP' = SP
  BY AfterTyped DEF execute_inc_dec, ChangeBits, execute_bit, Fetch
<1>2. CASE execute_inc_dec(o)
  <2> DEFINE v == (IF i.type = "INC" THEN Inc(b, F) ELSE Dec(b, F)).value
  <2>1. WriteBack(i, v)
    BY <1>2, Zenon DEF execute_inc_dec
  <2>2. v \in Byte
    BY <1>0, IncDecTyped
  <2> HIDE DEF v
  <2> QED
    BY <1>1, <2>1, <2>2, WriteBackTyped DEF Machine
<1>3. CASE ChangeBits(o)
  <2> DEFINE v == Bitwise(i, b, F).value
  <2>1. WriteBack(i, v) /\ i.type \in BitwiseTypes
    BY <1>3, Zenon DEF ChangeBits
  <2>2. v \in Byte
    BY <1>0, <2>1, BitwiseTyped
  <2> HIDE DEF v
  <2> QED
    BY <1>1, <2>1, <2>2, WriteBackTyped DEF Machine
<1>4. CASE execute_bit(o)
  BY <1>1, <1>4 DEF execute_bit, Machine
<1> QED
  BY <1>2, <1>3, <1>4

LEMMA IncDecPairTyped ==
  ASSUME Machine, NEW o \in Opcodes, IncDecPair(o)
  PROVE  Machine'
<1> DEFINE i == decode(o)
           d == IF i.type = "INC" THEN 1 ELSE -1
           v == Wrap(read_reg16(i.reg_1) + d)
<1>1. write_reg16(i.reg_1, v) /\ mem' = mem
  BY Zenon DEF IncDecPair
<1>2. PC' \in Word
  BY AfterTyped DEF IncDecPair, Fetch
<1>3. Formed(i) /\ i.mode = "REG16"
  BY AllFormed DEF IncDecPair
<1>4. d \in Int
  OBVIOUS
<1> HIDE DEF i, d
<1>5. i.reg_1 \in Reg16
  BY <1>3 DEF Formed, Fits
<1>6. read_reg16(i.reg_1) \in Int
  BY <1>5, PairTyped, WordIsInt
<1>7. read_reg16(i.reg_1) + d \in Int
  BY <1>4, <1>6
<1>8. v \in Word
  BY <1>7, Wrapped
<1> HIDE DEF v
<1> QED
  BY <1>1, <1>2, <1>8, WriteTyped DEF Machine

LEMMA BranchTyped ==
  ASSUME Machine, NEW o \in Opcodes, NEW n \in Word,
         execute_jr(o, n) \/ execute_jp(o, n) \/ execute_call(o, n) \/ execute_rst(o) \/ execute_ret(o)
  PROVE  Machine'
<1> DEFINE i == decode(o)
<1>0. Formed(i)
  BY AllFormed
<1>1. After(o) \in Word
  BY AfterTyped
<1>2. CASE execute_jr(o, n)
  <2>1. Wrap(After(o) + Signed(Imm8(n))) \in Word
    <3>1. Signed(Imm8(n)) \in Int
      BY ImmTyped DEF Signed, Byte
    <3>2. After(o) \in Int
      BY <1>1, WordIsInt
    <3>3. After(o) + Signed(Imm8(n)) \in Int
      BY <3>1, <3>2
    <3> QED
      BY <3>3, Wrapped
  <2> QED
    BY <1>1, <1>2, <2>1 DEF execute_jr, Fetch, Machine
<1>3. CASE execute_jp(o, n)
  <2>1. i.mode = "REG16" => read_reg16(i.reg_1) \in Word
    <3>1. i.mode = "REG16" => i.reg_1 \in Reg16
      BY <1>0 DEF Formed, Fits
    <3> QED
      BY <3>1, PairTyped
  <2> QED
    BY <1>1, <1>3, <2>1 DEF execute_jp, Fetch, Machine
<1>4. CASE execute_call(o, n)
  <2>1. CASE Push(After(o)) /\ PC' = n
    BY <1>1, <1>4, <2>1, PushTyped DEF execute_call, Machine
  <2>2. CASE Fetch(o) /\ SP' = SP /\ mem' = mem
    BY <1>1, <1>4, <2>2 DEF execute_call, Fetch, Machine
  <2> QED
    BY <1>4, <2>1, <2>2, Zenon DEF execute_call
<1>5. CASE execute_rst(o)
  <2>1. i.param \in Word
    BY <1>0, VectorsAreWords DEF Formed
  <2> QED
    BY <1>1, <1>5, <2>1, PushTyped DEF execute_rst, Machine
<1>6. CASE execute_ret(o)
  BY <1>1, <1>6, PopTyped, SPUp DEF execute_ret, Fetch, Machine
<1> QED
  BY <1>2, <1>3, <1>4, <1>5, <1>6

LEMMA StackTyped ==
  ASSUME Machine, NEW o \in Opcodes, execute_push(o) \/ execute_pop(o) \/ Still(o)
  PROVE  Machine'
<1> DEFINE i == decode(o)
<1>1. PC' \in Word
  BY AfterTyped DEF execute_push, execute_pop, Still, Fetch
<1>2. CASE execute_push(o)
  <2>1. i.reg_1 \in Reg16
    BY <1>2, AllFormed DEF execute_push, Formed, Stacked, Reg16
  <2>2. read_reg16(i.reg_1) \in Word
    BY <2>1, PairTyped
  <2> QED
    BY <1>1, <1>2, <2>2, PushTyped DEF execute_push, Machine
<1>3. CASE execute_pop(o)
  <2>1. Popped \div 256 \in Byte /\ Popped % 256 \in Byte
    BY PopTyped, Halves
  <2>2. SP' \in Word /\ mem' = mem
    BY <1>3, SPUp DEF execute_pop
  <2>3. reg' \in [Reg8 -> Byte]
    BY <1>3, <2>1 DEF execute_pop, Machine
  <2> QED
    BY <1>1, <2>2, <2>3 DEF Machine
<1>4. CASE Still(o)
  BY <1>1, <1>4 DEF Still, Machine
<1> QED
  BY <1>2, <1>3, <1>4

LEMMA ExecuteTyped ==
  ASSUME Machine, NEW o \in Opcodes, NEW n \in Word, Execute(o, n)
  PROVE  Machine'
  BY LdTyped, AddTyped, BitsTyped, IncDecPairTyped, BranchTyped, StackTyped, Zenon DEF Execute

(* The operands that the history remembers are bytes too.                    *)
Typed ==
  /\ Machine
  /\ operands \in SUBSET Word
  /\ listing \in Seq(SUBSET Opcodes)
  /\ done.a \in Byte /\ done.s \in Byte

LEMMA Executed ==
  ASSUME Typed, Step
  PROVE  \E o \in Opcodes, n \in Word :
           Execute(o, n) /\ RememberArithmetic(o, n) /\ RememberPushed(o) /\ op' = o
<1>1. PICK o \in Head(listing) :
        /\ \E n \in OperandsOf(o) : Execute(o, n) /\ RememberArithmetic(o, n)
        /\ RememberPushed(o) /\ op' = o
  BY Zenon DEF Step
<1>2. PICK n \in OperandsOf(o) : Execute(o, n) /\ RememberArithmetic(o, n)
  BY <1>1
<1>3. o \in Opcodes
  <2>1. listing # <<>> /\ listing \in Seq(SUBSET Opcodes)
    BY DEF Step, Typed
  <2>2. Head(listing) \in SUBSET Opcodes
    BY <2>1
  <2> QED
    BY <2>2
<1>4. n \in Word
  BY VectorsAreWords DEF OperandsOf, Typed
<1> QED
  BY <1>1, <1>2, <1>3, <1>4, Zenon

LEMMA TypedInit == Init => Typed
<1> SUFFICES ASSUME NEW b \in Benches,
                    reg = b.reg, SP = b.SP, PC = b.PC, mem = b.mem,
                    operands = b.operands, listing = b.listing, done = None
             PROVE  Typed
  BY DEF Init
<1>1. None.a \in Byte /\ None.s \in Byte
  BY DEF None, Byte
<1> QED
  BY <1>1, BenchAssumption DEF Typed, Machine

LEMMA TypedNext == Typed /\ Remembers /\ [Next]_vars => Typed'
<1> SUFFICES ASSUME Typed, Remembers, [Next]_vars
             PROVE  Typed'
  OBVIOUS
<1>1. CASE UNCHANGED vars
  BY <1>1 DEF vars, Typed, Machine
<1>2. CASE Step
  <2>1. PICK o \in Opcodes, n \in Word : Execute(o, n) /\ RememberArithmetic(o, n)
    BY <1>2, Executed
  <2>2. Machine /\ reg["A"] \in Byte
    BY DEF Typed, Machine, Reg8
  <2>3. Machine'
    BY <2>1, <2>2, ExecuteTyped
  <2>4. operands' = operands /\ listing' \in Seq(SUBSET Opcodes)
    <3>1. listing # <<>> /\ listing \in Seq(SUBSET Opcodes) /\ listing' = Tail(listing)
      BY <1>2 DEF Step, Typed
    <3>2. listing' \in Seq(SUBSET Opcodes)
      BY <3>1
    <3> QED
      BY <1>2, <3>2 DEF Step
  <2>5. done'.a \in Byte /\ done'.s \in Byte
    <3> DEFINE i == decode(o)
    <3>1. CASE i.type \in Remembered /\ i.mode \in AluModes
      <4>1. ~KeepsCarry(i)
        BY <3>1 DEF KeepsCarry, Remembered
      <4> DEFINE c == IF i.type \in {"ADC", "SBC"} THEN CarryIn(F) ELSE 0
      <4>2. done' = [type |-> i.type, a |-> reg["A"], s |-> Source(i, n), c |-> c,
                     inA |-> TRUE, flags |-> TRUE]
        BY <2>1, <3>1, <4>1, Zenon DEF RememberArithmetic
      <4>3. Source(i, n) \in Byte
        BY <2>2, <3>1, SourceTyped
      <4> HIDE DEF i, c
      <4> QED
        BY <2>2, <4>2, <4>3
    <3>2. CASE ~(i.type \in Remembered /\ i.mode \in AluModes) /\ KeepsCarry(i)
      <4>1. done' = [done EXCEPT !.inA = @ /\ reg'["A"] = reg["A"],
                                 !.flags = @ /\ KeepsFlags(i)]
        BY <2>1, <3>2, Zenon DEF RememberArithmetic
      <4>2. done'.a = done.a /\ done'.s = done.s
        BY <4>1 DEF Remembers
      <4> QED
        BY <4>2 DEF Typed
    <3>3. CASE ~(i.type \in Remembered /\ i.mode \in AluModes) /\ ~KeepsCarry(i)
      <4>1. done' = None
        BY <2>1, <3>3, Zenon DEF RememberArithmetic
      <4> QED
        BY <4>1 DEF None, Byte
    <3> QED
      BY <3>1, <3>2, <3>3
  <2> QED
    BY <2>3, <2>4, <2>5 DEF Typed
<1> QED
  BY <1>1, <1>2 DEF Next, Over

(* The registers stay bytes, SP and PC words, and the RAM a RAM of bytes,    *)
(* whatever the program and its operands: no execute function stores more    *)
(* than the width of its destination.                                        *)
THEOREM AlwaysTyped == Spec => []Typed
<1>1. Init => Typed /\ Remembers
  BY TypedInit, RemembersInit
<1>2. (Typed /\ Remembers) /\ [Next]_vars => (Typed /\ Remembers)'
  BY TypedNext, RemembersNext
<1> QED
  BY <1>1, <1>2, PTL DEF Spec
-----------------------------------------------------------------------------
(* A carry handed on. *)

LEMMA CarryOfSum ==
  ASSUME HoldsOutcome, done.type \in {"ADD", "ADC"}, done.a \in Byte, done.s \in Byte
  PROVE  F.C <=> done.a + done.s + done.c > 255
<1>1. done.c \in 0 .. 1
  BY DEF HoldsOutcome
<1>2. CarryIn(Before) = done.c
  <2>1. CarryIn(Before) = IF done.c = 1 THEN 1 ELSE 0
    BY Zenon DEF CarryIn, Before
  <2> QED
    BY <1>1, <2>1
<1>3. F.C = Outcome.flags.C
  BY DEF HoldsOutcome
<1>4. CASE done.type = "ADD"
  <2>1. Outcome = Add(done.a, done.s)
    BY <1>4 DEF Outcome, Operation
  <2>2. Add(done.a, done.s).flags.C = (done.a + done.s > 255)
    BY Zenon DEF Add, Result, Flags, is_carry_add
  <2>3. done.c = 0
    BY <1>4 DEF HoldsOutcome
  <2>4. done.a + done.s + 0 = done.a + done.s
    BY Compared
  <2> QED
    BY <1>3, <2>1, <2>2, <2>3, <2>4
<1>5. CASE done.type = "ADC"
  <2>1. Outcome = Adc(done.a, done.s, Before)
    BY <1>5 DEF Outcome, Operation
  <2>2. Adc(done.a, done.s, Before).flags.C = (done.a + done.s + CarryIn(Before) > 255)
    BY Zenon DEF Adc, Result, Flags
  <2> QED
    BY <1>2, <1>3, <2>1, <2>2
<1> QED
  BY <1>4, <1>5

LEMMA CarryOfDifference ==
  ASSUME HoldsOutcome, done.type \in {"SUB", "SBC", "CP"}, done.a \in Byte, done.s \in Byte
  PROVE  F.C <=> done.a - done.s - done.c < 0
<1>1. done.c \in 0 .. 1
  BY DEF HoldsOutcome
<1>2. CarryIn(Before) = done.c
  <2>1. CarryIn(Before) = IF done.c = 1 THEN 1 ELSE 0
    BY Zenon DEF CarryIn, Before
  <2> QED
    BY <1>1, <2>1
<1>3. F.C = Outcome.flags.C
  BY DEF HoldsOutcome
<1>4. CASE done.type \in {"SUB", "CP"}
  <2>1. Outcome.flags.C = (done.a < done.s)
    <3>1. Sub(done.a, done.s).flags.C = (done.a < done.s)
      BY Zenon DEF Sub, Result, Flags, is_carry_sub
    <3>2. Result(done.a, Cp(done.a, done.s)).flags.C = (done.a < done.s)
      BY Zenon DEF Cp, Result, Flags
    <3> QED
      BY <1>4, <3>1, <3>2 DEF Outcome, Operation
  <2>2. done.c = 0
    BY <1>4 DEF HoldsOutcome
  <2>3. done.a < done.s <=> done.a - done.s - 0 < 0
    BY Compared
  <2> QED
    BY <1>3, <2>1, <2>2, <2>3
<1>5. CASE done.type = "SBC"
  <2>1. Outcome = Sbc(done.a, done.s, Before)
    BY <1>5 DEF Outcome, Operation
  <2>2. Sbc(done.a, done.s, Before).flags.C = (done.a - done.s - CarryIn(Before) < 0)
    BY Zenon DEF Sbc, Result, Flags
  <2> QED
    BY <1>2, <1>3, <2>1, <2>2
<1> QED
  BY <1>4, <1>5

(* Additions and subtractions by the byte: whatever lies between the low and *)
(* the high byte, if it is only loads, INC, DEC, PUSH, NOP and JR, the carry *)
(* arrives and the word is right.                                            *)
THEOREM CarriesAlways == Spec => CarriesChain
<1> DEFINE D == (/\ listing # <<>>
                 /\ \/ done.type \in {"ADD", "ADC"} /\ decode(op').type = "ADC"
                    \/ done.type \in {"SUB", "SBC", "CP"} /\ decode(op').type = "SBC")
                => CompletesWord
<1>1. Typed /\ Remembers /\ [Next]_vars => [D]_vars
  <2> SUFFICES ASSUME Typed, Remembers, Next, listing # <<>>,
                      \/ done.type \in {"ADD", "ADC"} /\ decode(op').type = "ADC"
                      \/ done.type \in {"SUB", "SBC", "CP"} /\ decode(op').type = "SBC"
               PROVE  CompletesWord
    BY Zenon
  <2>1. Step
    BY Zenon DEF Next, Over
  <2>2. PICK o \in Opcodes, n \in Word : Execute(o, n) /\ RememberArithmetic(o, n) /\ op' = o
    BY <2>1, Executed
  <2> DEFINE i == decode(o)
             p == reg["A"]
             q == Source(i, n)
             a == done.a
             s == done.s
             c == done.c
  <2>3. Arithmetic(o, n)
    BY <2>2, IsArithmetic DEF Remembered
  <2>4. i.mode \in AluModes
    BY <2>3, Zenon DEF Arithmetic
  <2>5. p \in Byte /\ q \in Byte /\ a \in Byte /\ s \in Byte /\ c \in 0 .. 1
    <3>1. p \in Byte /\ a \in Byte /\ s \in Byte
      BY DEF Typed, Machine, Reg8
    <3>2. q \in Byte
      BY <2>4, SourceTyped DEF Typed
    <3>3. c \in 0 .. 1
      BY DEF Remembers, HoldsOutcome, Remembered
    <3> QED
      BY <3>1, <3>2, <3>3
  <2>6. HoldsOutcome /\ "A" \in DOMAIN reg
    BY DEF Remembers, Remembered
  <2>7. i.type \in {"ADC", "SBC"}
    BY <2>2
  <2>8. done'.type = i.type /\ done'.a = p /\ done'.s = q
    <3> DEFINE k == IF i.type \in {"ADC", "SBC"} THEN CarryIn(F) ELSE 0
    <3>1. ~KeepsCarry(i) /\ i.type \in Remembered
      BY <2>7 DEF KeepsCarry, Remembered
    <3>2. done' = [type |-> i.type, a |-> p, s |-> q, c |-> k, inA |-> TRUE, flags |-> TRUE]
      BY <2>2, <2>4, <3>1, Zenon DEF RememberArithmetic
    <3> HIDE DEF i, p, q, k
    <3> QED
      BY <3>2
  <2> DEFINE r == Operation(i.type, p, q, F)
  <2>9. reg'["A"] = r.value /\ F' = r.flags
    <3>1. reg' = [reg EXCEPT !["A"] = r.value] /\ F' = r.flags
      BY <2>3, Zenon DEF Arithmetic
    <3> HIDE DEF r
    <3> QED
      BY <2>6, <3>1
  <2>10. CASE i.type = "ADC"
    <3>1. r = Adc(p, q, F)
      BY <2>10 DEF Operation
    <3>2. F.C <=> a + s + c > 255
      BY <2>2, <2>5, <2>6, <2>10, CarryOfSum
    <3>3. ((a + s + c) % 256) + 256 * r.value + 65536 * CarryIn(r.flags)
            = (a + 256 * p) + (s + 256 * q) + c
      BY <2>5, <3>1, <3>2, WordSum
    <3> HIDE DEF i, p, q, r
    <3>4. CarryIn(F') = CarryIn(r.flags)
      BY <2>9
    <3> QED
      BY <2>8, <2>9, <2>10, <3>3, <3>4, SMT DEF CompletesWord
  <2>11. CASE i.type = "SBC"
    <3>1. r = Sbc(p, q, F)
      BY <2>11 DEF Operation
    <3>2. F.C <=> a - s - c < 0
      BY <2>2, <2>5, <2>6, <2>11, CarryOfDifference
    <3>3. ((a - s - c) % 256) + 256 * r.value - 65536 * CarryIn(r.flags)
            = (a + 256 * p) - (s + 256 * q) - c
      BY <2>5, <3>1, <3>2, WordDifference
    <3>4. done'.type # "ADC"
      BY <2>8, <2>11
    <3> HIDE DEF i, p, q, r
    <3>5. CarryIn(F') = CarryIn(r.flags)
      BY <2>9
    <3> QED
      BY <2>8, <2>9, <3>3, <3>4, <3>5, SMT DEF CompletesWord
  <2> QED
    BY <2>7, <2>10, <2>11
<1> QED
  BY <1>1, AlwaysTyped, AlwaysRemembers, PTL DEF Spec, CarriesChain
-----------------------------------------------------------------------------
(* A branch after a comparison. *)

LEMMA FlagsOfComparison ==
  ASSUME Typed, Remembers, done.type \in {"SUB", "CP"}, done.flags, NEW c \in Conds, c # "CT_NONE"
  PROVE  Holds(c) <=> Compares(c)
<1> DEFINE a == done.a  s == done.s
<1>1. F = Outcome.flags
  BY DEF Remembers, HoldsOutcome, Remembered
<1>2. Outcome.flags.Z = ((a - s) % 256 = 0) /\ Outcome.flags.C = (a < s)
  <2>1. Sub(a, s).flags.Z = ((a - s) % 256 = 0) /\ Sub(a, s).flags.C = (a < s)
    BY Zenon DEF Sub, Result, Flags, is_carry_sub
  <2>2. Result(a, Cp(a, s)).flags.Z = ((a - s) % 256 = 0) /\ Result(a, Cp(a, s)).flags.C = (a < s)
    BY Zenon DEF Cp, Result, Flags
  <2> QED
    BY <2>1, <2>2 DEF Outcome, Operation
<1>3. F.Z = (a = s) /\ F.C = (a < s)
  <2>1. (a - s) % 256 = 0 <=> a = s
    BY Compared DEF Typed
  <2> QED
    BY <1>1, <1>2, <2>1
<1>4. a >= s <=> ~(a < s)
  BY Compared DEF Typed
<1>5. c = "CT_Z" \/ c = "CT_NZ" \/ c = "CT_C" \/ c = "CT_NC"
  BY DEF Conds
<1> QED
  BY <1>3, <1>4, <1>5 DEF Holds, Compares

(* Taken or not, the cycles of a jump with a condition tell which.           *)
LEMMA FallsWhenNot ==
  ASSUME NEW o \in Opcodes, NEW n \in Word, Execute(o, n), decode(o).cond # "CT_NONE"
  PROVE  FallsThrough(o) <=> ~Holds(decode(o).cond)
<1> DEFINE i == decode(o)
<1>0. i.type \in Jumps /\ i.mode # "REG16"
  BY AllFormed DEF Formed
<1>1. i.type \in {"JR", "JP", "CALL", "RET"} /\ i.mode # "REG16" /\ i.cond # "CT_NONE"
  BY <1>0 DEF Jumps
<1> HIDE DEF i
<1>2. execute_jr(o, n) \/ execute_jp(o, n) \/ execute_call(o, n) \/ execute_ret(o)
  <2>1. ~execute_ld(o, n) /\ ~Arithmetic(o, n) /\ ~AddPair(o) /\ ~AddToSP(o, n) /\ ~Accumulator(o)
    BY <1>1 DEF execute_ld, Arithmetic, AluTypes, AddPair, AddToSP, AccumulatorTypes, Accumulator, i
  <2>2. ~execute_inc_dec(o) /\ ~IncDecPair(o) /\ ~ChangeBits(o) /\ ~execute_bit(o)
    BY <1>1 DEF execute_inc_dec, IncDecPair, ChangeBits, BitwiseTypes, execute_bit, i
  <2>3. ~execute_rst(o) /\ ~execute_push(o) /\ ~execute_pop(o) /\ ~Still(o)
    BY <1>1 DEF execute_rst, execute_push, execute_pop, Still, i
  <2>4. Execute(o, n)
    OBVIOUS
  <2> QED
    BY <2>1, <2>2, <2>3, <2>4, Zenon DEF Execute
<1>3. CASE execute_jr(o, n)
  <2>1. i.type = "JR"
    BY <1>3, Zenon DEF execute_jr, i
  <2>2. \/ Holds(i.cond) /\ cycles' = 12
        \/ ~Holds(i.cond) /\ PC' = After(o) /\ cycles' = 8
    BY <1>3, Zenon DEF execute_jr, Fetch, i
  <2>3. FallsThrough(o) <=> ~Holds(i.cond)
    BY <2>1, <2>2 DEF FallsThrough, i
  <2> QED
    BY <2>3 DEF i
<1>4. CASE execute_jp(o, n)
  <2>1. i.type = "JP"
    BY <1>4, Zenon DEF execute_jp, i
  <2>2. \/ Holds(i.cond) /\ cycles' = 16
        \/ ~Holds(i.cond) /\ PC' = After(o) /\ cycles' = 12
    BY <1>1, <1>4, Zenon DEF execute_jp, Fetch, i
  <2>3. FallsThrough(o) <=> ~Holds(i.cond)
    BY <2>1, <2>2 DEF FallsThrough, i
  <2> QED
    BY <2>3 DEF i
<1>5. CASE execute_call(o, n)
  <2>1. i.type = "CALL"
    BY <1>5, Zenon DEF execute_call, i
  <2>2. \/ Holds(i.cond) /\ cycles' = 24
        \/ ~Holds(i.cond) /\ PC' = After(o) /\ cycles' = 12
    BY <1>5, Zenon DEF execute_call, Fetch, i
  <2>3. FallsThrough(o) <=> ~Holds(i.cond)
    BY <2>1, <2>2 DEF FallsThrough, i
  <2> QED
    BY <2>3 DEF i
<1>6. CASE execute_ret(o)
  <2>1. i.type = "RET"
    <3>1. i.type \in {"RET", "RETI"}
      BY <1>6, Zenon DEF execute_ret, i
    <3> QED
      BY <1>1, <3>1
  <2>2. \/ Holds(i.cond) /\ cycles' = 20
        \/ ~Holds(i.cond) /\ PC' = After(o) /\ cycles' = 8
    <3>1. \/ Holds(i.cond) /\ cycles' = IF i.cond = "CT_NONE" THEN 16 ELSE 20
          \/ ~Holds(i.cond) /\ PC' = After(o) /\ cycles' = 8
      BY <1>6, Zenon DEF execute_ret, Fetch, i
    <3> QED
      BY <1>1, <3>1
  <2>3. FallsThrough(o) <=> ~Holds(i.cond)
    BY <2>1, <2>2 DEF FallsThrough, i
  <2> QED
    BY <2>3 DEF i
<1> QED
  BY <1>2, <1>3, <1>4, <1>5, <1>6

(* Branches go where the comparison says: JR, JP, CALL and RET with a        *)
(* condition after SUB or CP, for all operands.                              *)
THEOREM BranchesAlways == Spec => BranchFollowsCompare
<1> DEFINE D == (/\ listing # <<>>
                 /\ done.type \in {"SUB", "CP"} /\ done.flags
                 /\ decode(op').cond # "CT_NONE")
                => (FallsThrough(op') <=> ~Compares(decode(op').cond))
<1>1. Typed /\ Remembers /\ [Next]_vars => [D]_vars
  <2> SUFFICES ASSUME Typed, Remembers, Next, listing # <<>>,
                      done.type \in {"SUB", "CP"}, done.flags, decode(op').cond # "CT_NONE"
               PROVE  FallsThrough(op') <=> ~Compares(decode(op').cond)
    BY Zenon
  <2>1. Step
    BY Zenon DEF Next, Over
  <2>2. PICK o \in Opcodes, n \in Word : Execute(o, n) /\ RememberArithmetic(o, n) /\ op' = o
    BY <2>1, Executed
  <2>3. FallsThrough(o) <=> ~Holds(decode(o).cond)
    BY <2>2, FallsWhenNot
  <2>4. decode(o).cond \in Conds
    BY AllFormed DEF Formed
  <2>5. Holds(decode(o).cond) <=> Compares(decode(o).cond)
    BY <2>2, <2>4, FlagsOfComparison
  <2> QED
    BY <2>2, <2>3, <2>5
<1> QED
  BY <1>1, AlwaysTyped, AlwaysRemembers, PTL DEF Spec, BranchFollowsCompare
-----------------------------------------------------------------------------
(* The stack. *)

ReadIn(m, a) == IF Cell(a) \in Ram THEN m[Cell(a)] ELSE 255

(* In the memory m words are stacked from the address sp upwards. *)
WordIn(m, sp, k) == ReadIn(m, Wrap(sp + k)) + 256 * ReadIn(m, Wrap(sp + (k + 1)))
StackedIn(m, sp, words) ==
  \A j \in 1 .. Len(words) : WordIn(m, sp, 2 * j - 2) = words[j]

(* The words that the history remembers are where SP points.                 *)
OnStack == pushed \in Seq(Int) /\ StackedIn(mem, SP, pushed)

LEMMA LowestWord ==
  ASSUME NEW m, NEW sp \in Word
  PROVE  WordIn(m, sp, 0) = ReadIn(m, sp) + 256 * ReadIn(m, Wrap(sp + 1))
<1>1. sp + 0 = sp /\ 0 + 1 = 1
  <2>1. sp \in Int
    BY WordIsInt
  <2> QED
    BY <2>1
<1>2. Wrap(sp) = sp
  BY Addresses, SMT DEF Wrap
<1> QED
  BY <1>1, <1>2, Zenon DEF WordIn

LEMMA PoppedIs ==
  ASSUME SP \in Word
  PROVE  Popped = WordIn(mem, SP, 0)
  BY LowestWord, Zenon DEF Popped, BusRead16, BusRead, ReadIn

LEMMA Around ==
  ASSUME NEW a \in Word, NEW k \in Nat
  PROVE  /\ Wrap(Wrap(a - 2) + (k + 2)) = Wrap(a + k)
         /\ Wrap(Wrap(a + 2) + k) = Wrap(a + (k + 2))
  BY Addresses, SMT DEF Wrap

(* Two addresses in a row are different bytes, in echo RAM too. *)
LEMMA Neighbours ==
  ASSUME NEW a \in Word
  PROVE  Cell(Wrap(a + 1)) # Cell(a)
<1>0. a \in Int /\ 0 <= a /\ a <= 65535
  BY WordBounds
<1>1. Wrap(a + 1) = IF a = 65535 THEN 0 ELSE a + 1
  <2>1. a = 65535 => (a + 1) % 65536 = 0
    BY <1>0
  <2>2. a # 65535 => (a + 1) % 65536 = a + 1
    BY <1>0
  <2> QED
    BY <2>1, <2>2 DEF Wrap
<1>2. CASE a = 65535
  BY <1>1, <1>2 DEF Cell
<1>3. CASE a # 65535
  <2>1. Wrap(a + 1) = a + 1
    BY <1>1, <1>3
  <2>2. Cell(a + 1) # Cell(a)
    BY <1>0 DEF Cell
  <2> QED
    BY <2>1, <2>2
<1> QED
  BY <1>2, <1>3

LEMMA Stored ==
  ASSUME mem \in [Ram -> Byte], NEW a \in Word, NEW v \in Word, InRam(a)
  PROVE  ReadIn(Put16(mem, a, v), a) + 256 * ReadIn(Put16(mem, a, v), Wrap(a + 1)) = v
<1> DEFINE c == Cell(a)
           d == Cell(Wrap(a + 1))
           m == [mem EXCEPT ![d] = v \div 256]
           n == [m EXCEPT ![c] = v % 256]
<1>1. c \in Ram /\ d \in Ram
  BY DEF InRam
<1>2. d # c
  BY Neighbours
<1>3. Put16(mem, a, v) = n
  <2>1. Put(mem, Wrap(a + 1), v \div 256) = m
    BY <1>1, Zenon DEF Put
  <2>2. Put(m, a, v % 256) = n
    BY <1>1, Zenon DEF Put
  <2> QED
    BY <2>1, <2>2, Zenon DEF Put16
<1>4. ReadIn(n, a) = n[c] /\ ReadIn(n, Wrap(a + 1)) = n[d]
  BY <1>1, Zenon DEF ReadIn
<1> HIDE DEF c, d
<1>5. n[c] = v % 256 /\ n[d] = v \div 256
  BY <1>1, <1>2
<1> HIDE DEF n
<1>6. (v % 256) + 256 * (v \div 256) = v
  BY Joined
<1> QED
  BY <1>3, <1>4, <1>5, <1>6

LEMMA StaysStacked ==
  ASSUME NEW m, NEW n, NEW sp, NEW words \in Seq(Int), StackedIn(m, sp, words),
         \A k \in 0 .. 2 * Len(words) - 1 :
           Cell(Wrap(sp + k)) \in Ram /\ n[Cell(Wrap(sp + k))] = m[Cell(Wrap(sp + k))]
  PROVE  StackedIn(n, sp, words)
<1>1. \A k \in 0 .. 2 * Len(words) - 1 : ReadIn(n, Wrap(sp + k)) = ReadIn(m, Wrap(sp + k))
  BY Zenon DEF ReadIn
<1>2. SUFFICES ASSUME NEW j \in 1 .. Len(words)
               PROVE  WordIn(n, sp, 2 * j - 2) = words[j]
  BY Zenon DEF StackedIn
<1>3. Len(words) \in Nat
  OBVIOUS
<1>4. 2 * j - 2 \in 0 .. 2 * Len(words) - 1 /\ (2 * j - 2) + 1 \in 0 .. 2 * Len(words) - 1
  BY <1>3
<1>5. WordIn(n, sp, 2 * j - 2) = WordIn(m, sp, 2 * j - 2)
  BY <1>1, <1>4, Zenon DEF WordIn
<1> QED
  BY <1>5, Zenon DEF StackedIn

LEMMA PushOn ==
  ASSUME NEW m, NEW sp \in Word, NEW words \in Seq(Int), NEW v \in Int,
         StackedIn(m, sp, words), WordIn(m, Wrap(sp - 2), 0) = v
  PROVE  StackedIn(m, Wrap(sp - 2), <<v>> \o words)
<1> DEFINE all == <<v>> \o words
<1>1. /\ Len(words) \in Nat /\ Len(all) = Len(words) + 1 /\ all[1] = v
      /\ \A j \in 2 .. Len(all) : all[j] = words[j - 1]
  OBVIOUS
<1> HIDE DEF all
<1>2. SUFFICES ASSUME NEW j \in 1 .. Len(all)
               PROVE  WordIn(m, Wrap(sp - 2), 2 * j - 2) = all[j]
  BY Zenon DEF StackedIn, all
<1>3. CASE j = 1
  <2>1. 2 * j - 2 = 0
    BY <1>3
  <2> QED
    BY <1>1, <1>3, <2>1
<1>4. CASE j # 1
  <2> DEFINE k == 2 * (j - 1) - 2
  <2>1. j - 1 \in 1 .. Len(words) /\ j \in 2 .. Len(all)
    BY <1>1, <1>4
  <2>2. k \in Nat /\ k + 1 \in Nat /\ 2 * j - 2 = k + 2 /\ (2 * j - 2) + 1 = (k + 1) + 2
    BY <2>1
  <2>3. WordIn(m, sp, k) = words[j - 1]
    BY <2>1, Zenon DEF StackedIn
  <2> HIDE DEF k
  <2>4. Wrap(Wrap(sp - 2) + (k + 2)) = Wrap(sp + k)
    BY <2>2, Around, Zenon
  <2>5. Wrap(Wrap(sp - 2) + ((k + 1) + 2)) = Wrap(sp + (k + 1))
    BY <2>2, Around, Zenon
  <2>6. WordIn(m, Wrap(sp - 2), 2 * j - 2) = WordIn(m, sp, k)
    BY <2>2, <2>4, <2>5, Zenon DEF WordIn
  <2> QED
    BY <1>1, <2>1, <2>3, <2>6
<1> QED
  BY <1>3, <1>4

LEMMA PopOff ==
  ASSUME NEW m, NEW sp \in Word, NEW words \in Seq(Int), words # <<>>, StackedIn(m, sp, words)
  PROVE  WordIn(m, sp, 0) = Head(words) /\ StackedIn(m, Wrap(sp + 2), Tail(words))
<1>1. /\ Len(words) \in Nat /\ Len(words) >= 1 /\ Head(words) = words[1]
      /\ Len(Tail(words)) = Len(words) - 1
      /\ \A j \in 1 .. Len(Tail(words)) : Tail(words)[j] = words[j + 1]
  OBVIOUS
<1>2. WordIn(m, sp, 0) = Head(words)
  <2>1. 1 \in 1 .. Len(words) /\ 2 * 1 - 2 = 0
    BY <1>1
  <2>2. WordIn(m, sp, 2 * 1 - 2) = words[1]
    BY <2>1, Zenon DEF StackedIn
  <2> QED
    BY <1>1, <2>1, <2>2
<1>3. ASSUME NEW j \in 1 .. Len(Tail(words))
      PROVE  WordIn(m, Wrap(sp + 2), 2 * j - 2) = Tail(words)[j]
  <2> DEFINE k == 2 * j - 2
  <2>1. j + 1 \in 1 .. Len(words)
    BY <1>1
  <2>2. k \in Nat /\ k + 1 \in Nat /\ 2 * (j + 1) - 2 = k + 2 /\ (k + 1) + 2 = (k + 2) + 1
    BY <1>1
  <2>3. WordIn(m, sp, 2 * (j + 1) - 2) = words[j + 1]
    BY <2>1, Zenon DEF StackedIn
  <2> HIDE DEF k
  <2>4. Wrap(Wrap(sp + 2) + k) = Wrap(sp + (k + 2))
    BY <2>2, Around, Zenon
  <2>5. Wrap(Wrap(sp + 2) + (k + 1)) = Wrap(sp + ((k + 1) + 2))
    BY <2>2, Around, Zenon
  <2>6. WordIn(m, Wrap(sp + 2), k) = WordIn(m, sp, k + 2)
    BY <2>2, <2>4, <2>5, Zenon DEF WordIn
  <2>7. WordIn(m, Wrap(sp + 2), k) = Tail(words)[j]
    BY <1>1, <2>2, <2>3, <2>6
  <2> QED
    BY <2>7 DEF k
<1> QED
  BY <1>2, <1>3, Zenon DEF StackedIn

(* What an instruction that moves SP does to the stack. *)
PushedBy(o) == IF decode(o).type = "PUSH" THEN read_reg16(decode(o).reg_1) ELSE After(o)

LEMMA Pushing ==
  ASSUME Machine, NEW o \in Opcodes, NEW n, Execute(o, n), Pushes(decode(o)), SP' # SP
  PROVE  /\ SP' = Wrap(SP - 2) /\ mem' = Put16(mem, Wrap(SP - 2), PushedBy(o))
         /\ PushedBy(o) \in Word
<1> DEFINE i == decode(o)
<1>1. i.type \in {"PUSH", "CALL", "RST"}
  BY DEF Pushes
<1>2. i.type = "PUSH" => i.reg_1 \in Reg16
  BY AllFormed DEF Formed, Stacked, Reg16
<1> HIDE DEF i
<1>3. execute_push(o) \/ execute_call(o, n) \/ execute_rst(o)
  <2>1. ~execute_ld(o, n) /\ ~Arithmetic(o, n) /\ ~AddPair(o) /\ ~AddToSP(o, n) /\ ~Accumulator(o)
    BY <1>1 DEF execute_ld, Arithmetic, AluTypes, AddPair, AddToSP, AccumulatorTypes, Accumulator, i
  <2>2. ~execute_inc_dec(o) /\ ~IncDecPair(o) /\ ~ChangeBits(o) /\ ~execute_bit(o)
    BY <1>1 DEF execute_inc_dec, IncDecPair, ChangeBits, BitwiseTypes, execute_bit, i
  <2>3. ~execute_jr(o, n) /\ ~execute_jp(o, n) /\ ~execute_ret(o) /\ ~execute_pop(o) /\ ~Still(o)
    BY <1>1 DEF execute_jr, execute_jp, execute_ret, execute_pop, Still, i
  <2>4. Execute(o, n)
    OBVIOUS
  <2> QED
    BY <2>1, <2>2, <2>3, <2>4, Zenon DEF Execute
<1>4. CASE execute_push(o)
  <2>1. i.type = "PUSH" /\ Push(read_reg16(i.reg_1))
    BY <1>4, Zenon DEF execute_push, i
  <2>2. read_reg16(i.reg_1) \in Word
    BY <1>2, <2>1, PairTyped
  <2> QED
    BY <2>1, <2>2, Zenon DEF Push, PushedBy, i
<1>5. CASE execute_call(o, n)
  <2>1. i.type = "CALL" /\ Push(After(o))
    BY <1>5, Zenon DEF execute_call, i
  <2>2. i.type # "PUSH"
    BY <2>1
  <2>3. After(o) \in Word
    BY AfterTyped
  <2> QED
    BY <2>1, <2>2, <2>3, Zenon DEF Push, PushedBy, i
<1>6. CASE execute_rst(o)
  <2>1. i.type = "RST" /\ Push(After(o))
    BY <1>6, Zenon DEF execute_rst, i
  <2>2. i.type # "PUSH"
    BY <2>1
  <2>3. After(o) \in Word
    BY AfterTyped
  <2> QED
    BY <2>1, <2>2, <2>3, Zenon DEF Push, PushedBy, i
<1> QED
  BY <1>3, <1>4, <1>5, <1>6

LEMMA Popping ==
  ASSUME NEW o, NEW n, Execute(o, n), Pops(decode(o)), SP' # SP
  PROVE  /\ SP' = Wrap(SP + 2) /\ mem' = mem
         /\ decode(o).type = "POP" => execute_pop(o)
         /\ decode(o).type # "POP" => PC' = Popped
<1> DEFINE i == decode(o)
<1>1. i.type \in {"POP", "RET", "RETI"}
  BY DEF Pops
<1> HIDE DEF i
<1>2. execute_pop(o) \/ execute_ret(o)
  <2>1. ~execute_ld(o, n) /\ ~Arithmetic(o, n) /\ ~AddPair(o) /\ ~AddToSP(o, n) /\ ~Accumulator(o)
    BY <1>1 DEF execute_ld, Arithmetic, AluTypes, AddPair, AddToSP, AccumulatorTypes, Accumulator, i
  <2>2. ~execute_inc_dec(o) /\ ~IncDecPair(o) /\ ~ChangeBits(o) /\ ~execute_bit(o)
    BY <1>1 DEF execute_inc_dec, IncDecPair, ChangeBits, BitwiseTypes, execute_bit, i
  <2>3. /\ ~execute_jr(o, n) /\ ~execute_jp(o, n) /\ ~execute_call(o, n) /\ ~execute_rst(o)
        /\ ~execute_push(o) /\ ~Still(o)
    BY <1>1 DEF execute_jr, execute_jp, execute_call, execute_rst, execute_push, Still, i
  <2>4. Execute(o, n)
    OBVIOUS
  <2> QED
    BY <2>1, <2>2, <2>3, <2>4, Zenon DEF Execute
<1>3. CASE execute_pop(o)
  <2>1. i.type = "POP" /\ SP' = Wrap(SP + 2) /\ mem' = mem
    BY <1>3, Zenon DEF execute_pop, i
  <2> QED
    BY <1>3, <2>1, Zenon DEF i
<1>4. CASE execute_ret(o)
  <2>1. i.type \in {"RET", "RETI"}
    BY <1>4, Zenon DEF execute_ret, i
  <2>2. i.type # "POP"
    BY <2>1
  <2>3. SP' = Wrap(SP + 2) /\ mem' = mem /\ PC' = Popped
    BY <1>4, Zenon DEF execute_ret
  <2> QED
    BY <2>2, <2>3, Zenon DEF i
<1> QED
  BY <1>2, <1>3, <1>4

LEMMA OnStackInit == Init => OnStack
  BY DEF Init, OnStack, StackedIn

LEMMA OnStackNext == Typed /\ OnStack /\ [Next]_vars => OnStack'
<1> SUFFICES ASSUME Typed, OnStack, [Next]_vars
             PROVE  OnStack'
  OBVIOUS
<1>1. CASE UNCHANGED vars
  BY <1>1, Zenon DEF vars, OnStack
<1>2. CASE Step
  <2>1. PICK o \in Opcodes, n \in Word : Execute(o, n) /\ RememberPushed(o)
    BY <1>2, Executed
  <2> DEFINE i == decode(o)
  <2>2. Machine /\ SP \in Word /\ mem \in [Ram -> Byte]
    BY DEF Typed, Machine
  <2>3. pushed \in Seq(Int) /\ StackedIn(mem, SP, pushed)
    BY DEF OnStack
  <2>4. Undisturbed(pushed) => StackedIn(mem', SP, pushed)
    BY <2>3, StaysStacked DEF Undisturbed
  <2>5. pushed' = <<>> => OnStack'
    BY DEF OnStack, StackedIn
  <2>6. CASE Pushes(i) /\ SP' # SP
    <3> DEFINE v == PushedBy(o)
               sp == Wrap(SP - 2)
    <3>1. SP' = sp /\ mem' = Put16(mem, sp, v) /\ v \in Word
      BY <2>1, <2>2, <2>6, Pushing
    <3>2. CASE InRam(sp) /\ Undisturbed(pushed)
      <4>1. ~Pops(i)
        BY <2>6 DEF Pushes, Pops
      <4>2. pushed' = <<v>> \o pushed
        BY <2>1, <2>6, <3>2, <4>1, Zenon DEF RememberPushed, PushedBy
      <4>3. v \in Int /\ sp \in Word
        <5>1. SP - 2 \in Int
          BY <2>2, WordIsInt
        <5> QED
          BY <3>1, <5>1, WordIsInt, Wrapped
      <4> HIDE DEF v, sp
      <4>4. ReadIn(mem', sp) + 256 * ReadIn(mem', Wrap(sp + 1)) = v
        BY <2>2, <3>1, <3>2, <4>3, Stored
      <4>5. WordIn(mem', sp, 0) = v
        BY <4>3, <4>4, LowestWord
      <4>6. StackedIn(mem', sp, <<v>> \o pushed)
        BY <2>2, <2>3, <2>4, <3>2, <4>3, <4>5, PushOn DEF sp
      <4>7. <<v>> \o pushed \in Seq(Int)
        BY <2>3, <4>3
      <4> QED
        BY <3>1, <4>2, <4>6, <4>7, Zenon DEF OnStack
    <3>3. CASE ~(InRam(sp) /\ Undisturbed(pushed))
      <4>1. ~Pops(i)
        BY <2>6 DEF Pushes, Pops
      <4>2. pushed' = <<>>
        BY <2>1, <2>6, <3>3, <4>1, Zenon DEF RememberPushed
      <4> QED
        BY <2>5, <4>2
    <3> QED
      BY <3>2, <3>3
  <2>7. CASE Pops(i) /\ SP' # SP
    <3>1. SP' = Wrap(SP + 2) /\ mem' = mem
      BY <2>1, <2>7, Popping
    <3>2. pushed' = IF pushed = <<>> THEN <<>> ELSE Tail(pushed)
      <4>1. ~Pushes(i)
        BY <2>7 DEF Pushes, Pops
      <4> QED
        BY <2>1, <2>7, <4>1, Zenon DEF RememberPushed
    <3>3. CASE pushed # <<>>
      <4>1. StackedIn(mem, Wrap(SP + 2), Tail(pushed))
        BY <2>2, <2>3, <3>3, PopOff
      <4>2. Tail(pushed) \in Seq(Int)
        BY <2>3, <3>3
      <4> QED
        BY <3>1, <3>2, <3>3, <4>1, <4>2, Zenon DEF OnStack
    <3> QED
      BY <2>5, <3>2, <3>3
  <2>8. CASE ~((Pushes(i) \/ Pops(i)) /\ SP' # SP)
    <3>1. pushed' = IF SP' = SP /\ Undisturbed(pushed) THEN pushed ELSE <<>>
      BY <2>1, <2>8, Zenon DEF RememberPushed
    <3>2. CASE SP' = SP /\ Undisturbed(pushed)
      BY <2>3, <2>4, <3>1, <3>2, Zenon DEF OnStack
    <3> QED
      BY <2>5, <3>1, <3>2
  <2> QED
    BY <2>6, <2>7, <2>8
<1> QED
  BY <1>1, <1>2 DEF Next, Over

(* A remembered word is in RAM at SP, echo RAM and the wrap of SP included. *)
THEOREM AlwaysOnStack == Spec => []OnStack
<1>1. Init => Typed /\ Remembers /\ OnStack
  BY TypedInit, RemembersInit, OnStackInit
<1>2. (Typed /\ Remembers /\ OnStack) /\ [Next]_vars => (Typed /\ Remembers /\ OnStack)'
  BY TypedNext, RemembersNext, OnStackNext
<1> QED
  BY <1>1, <1>2, PTL DEF Spec

(* POP puts the word that SP points at into its pair, but the low nibble of F. *)
LEMMA PoppedInto ==
  ASSUME Machine, NEW o \in Opcodes, execute_pop(o), NEW r \in Reg16, decode(o).reg_1 = r
  PROVE  read_reg16(r)' = Popped - (IF r = "AF" THEN Popped % 16 ELSE 0)
<1> DEFINE v == Popped
<1>1. v \in Word /\ v \in Int
  BY PopTyped, WordIsInt
<1>2. r \in Stacked
  BY AllFormed DEF execute_pop, Formed
<1>3. DOMAIN reg = Reg8
  BY DEF Machine
<1>4. CASE r = "AF"
  <2>1. reg' = [reg EXCEPT !["A"] = v \div 256] /\ F' = FlagsOf(v % 256)
    BY <1>4, Zenon DEF execute_pop
  <2> HIDE DEF v
  <2>2. reg'["A"] = v \div 256
    BY <1>3, <2>1 DEF Reg8
  <2>3. FlagByte(FlagsOf(v % 256)) = (v % 256) - ((v % 256) % 16)
    <3>1. v % 256 \in Byte
      BY <1>1, Halves
    <3>2. FlagByte(FlagsOf(v % 256)) =
            (IF 7 \in BitsOf(v % 256) THEN 128 ELSE 0) + (IF 6 \in BitsOf(v % 256) THEN 64 ELSE 0) +
            (IF 5 \in BitsOf(v % 256) THEN 32 ELSE 0) + (IF 4 \in BitsOf(v % 256) THEN 16 ELSE 0)
      BY DEF FlagByte, FlagsOf, Flags
    <3> QED
      BY <3>1, <3>2, HighNibble
  <2>4. read_reg16("AF")' = 256 * reg'["A"] + FlagByte(F')
    BY DEF read_reg16, FlagByte
  <2>5. read_reg16("AF")' = v - (v % 16)
    BY <1>1, <2>1, <2>2, <2>3, <2>4, JoinedDown
  <2> QED
    BY <1>4, <2>5 DEF v
<1>5. CASE r # "AF"
  <2>1. r \in {"BC", "DE", "HL"}
    BY <1>2, <1>5 DEF Stacked
  <2>2. reg' = [reg EXCEPT ![High(r)] = v \div 256, ![Low(r)] = v % 256]
    BY <1>5, Zenon DEF execute_pop
  <2> HIDE DEF v
  <2>3. High(r) \in Reg8 /\ Low(r) \in Reg8 /\ High(r) # Low(r)
    BY <2>1 DEF High, Low, Reg8
  <2>4. reg'[High(r)] = v \div 256 /\ reg'[Low(r)] = v % 256
    BY <1>3, <2>2, <2>3
  <2>5. read_reg16(r)' = 256 * reg'[High(r)] + reg'[Low(r)]
    BY <2>1 DEF read_reg16, High, Low
  <2>6. read_reg16(r)' = v
    BY <1>1, <2>4, <2>5, JoinedDown
  <2> QED
    BY <1>1, <1>5, <2>6 DEF v
<1> QED
  BY <1>4, <1>5

(* The stack is last in, first out, for every word pushed to RAM.            *)
THEOREM LastInFirstOutAlways == Spec => LastInFirstOut
<1>1. ASSUME Typed, OnStack, [Next]_vars, Pops(decode(op')), SP' # SP, pushed # <<>>
      PROVE  IF decode(op').type = "POP"
             THEN \A r \in Reg16 : decode(op').reg_1 = r =>
                    read_reg16(r)' = Head(pushed) - (IF r = "AF" THEN Head(pushed) % 16 ELSE 0)
             ELSE PC' = Head(pushed)
  <2>1. Step
    BY <1>1, Zenon DEF Next, Over, vars
  <2>2. PICK o \in Opcodes, n \in Word : Execute(o, n) /\ op' = o
    BY <1>1, <2>1, Executed
  <2>3. Machine /\ SP \in Word
    BY <1>1 DEF Typed, Machine
  <2>4. Popped = Head(pushed)
    <3>1. pushed \in Seq(Int) /\ StackedIn(mem, SP, pushed)
      BY <1>1 DEF OnStack
    <3>2. WordIn(mem, SP, 0) = Head(pushed)
      BY <1>1, <2>3, <3>1, PopOff
    <3> QED
      BY <2>3, <3>2, PoppedIs
  <2>5. /\ decode(o).type = "POP" => execute_pop(o)
        /\ decode(o).type # "POP" => PC' = Popped
    BY <1>1, <2>2, Popping
  <2>6. ASSUME decode(o).type = "POP", NEW r \in Reg16, decode(o).reg_1 = r
        PROVE  read_reg16(r)' = Head(pushed) - (IF r = "AF" THEN Head(pushed) % 16 ELSE 0)
    BY <2>3, <2>4, <2>5, <2>6, PoppedInto
  <2> QED
    BY <2>2, <2>4, <2>5, <2>6
<1> QED
  BY <1>1, AlwaysTyped, AlwaysOnStack, PTL DEF Spec, LastInFirstOut
-----------------------------------------------------------------------------
(* The cycles of an instruction against the bytes it fetches and moves. *)
BitTypes == BitwiseTypes \cup {"BIT"}

LEMMA Prefixed ==
  ASSUME NEW o \in Opcodes, o > 255
  PROVE  decode(o).type \in BitTypes
<1> DEFINE t == CASE X(o) = 0 -> kCbRot[Y(o) + 1]
                  [] X(o) = 1 -> "BIT"
                  [] X(o) = 2 -> "RES"
                  [] X(o) = 3 -> "SET"
<1>1. t \in BitTypes
  <2>1. kCbRot[Y(o) + 1] \in BitwiseTypes
    BY Fields, Tables
  <2>2. X(o) = 0 \/ X(o) = 1 \/ X(o) = 2 \/ X(o) = 3
    BY Fields
  <2> QED
    BY <2>1, <2>2 DEF BitTypes, BitwiseTypes
<1>2. decode(o) = [Target(t, kReg8[Z(o) + 1]) EXCEPT !.param = IF X(o) = 0 THEN 0 ELSE Y(o)]
  <2>1. decode(o) = decode_cb(o)
    BY DEF decode, Opcodes
  <2> QED
    BY <2>1, Zenon DEF decode_cb
<1> HIDE DEF t
<1>3. ASSUME NEW r, NEW p
      PROVE  [Target(t, r) EXCEPT !.param = p].type = t
  BY DEF Target, I, Instruction
<1> QED
  BY <1>1, <1>2, <1>3, Zenon

LEMMA Sized ==
  ASSUME NEW o \in Opcodes
  PROVE  LET i == decode(o)
         IN  /\ i.type \notin BitTypes => Length(o) = 1 + Fetched(i)
             /\ i.type \in BitTypes => Length(o) \in 1 .. 2
             /\ i.type \notin AluTypes \cup {"LD", "JR", "JP", "CALL"} => Fetched(i) = 0
             /\ i.type = "JR" => Fetched(i) \in 0 .. 1
             /\ Fetched(i) \in 0 .. 2
<1> DEFINE i == decode(o)
<1>1. Fetches(i.type, i.mode)
  BY AllFormed DEF Formed
<1>2. o > 255 => i.type \in BitTypes
  BY Prefixed
<1>3. Length(o) = (IF o > 255 THEN 2 ELSE 1) + Fetched(i)
  BY Zenon DEF Length
<1> HIDE DEF i
<1>4. /\ Fetched(i) \in 0 .. 2
      /\ i.type \notin AluTypes \cup {"LD", "JR", "JP", "CALL"} => Fetched(i) = 0
      /\ i.type = "JR" => Fetched(i) \in 0 .. 1
  BY <1>1 DEF Fetched, Fetches
<1>5. i.type \in BitTypes => Fetched(i) = 0
  BY <1>4 DEF BitTypes, BitwiseTypes, AluTypes
<1> QED
  BY <1>2, <1>3, <1>4, <1>5 DEF i

(* The modes of LD by their cycles. *)
LEMMA LdTime ==
  ASSUME NEW i, i.type = "LD",
         i.mode \in ToRegister \cup ToMemory
                    \cup {"REG16_IMM16", "REG16_REG16", "MEM_IMM16_REG16", "REG16_SP_IMM8"}
  PROVE  LdCycles(i.mode) % 4 = 0 /\ LdCycles(i.mode) >= 4 * ((1 + Fetched(i)) + BytesMoved(i))
<1> DEFINE m == i.mode
<1>1. ~Pushes(i) /\ ~Pops(i) /\ i.type \notin AluTypes \cup BitTypes \cup {"INC", "DEC"}
  BY DEF Pushes, Pops, AluTypes, BitTypes, BitwiseTypes
<1>2. BytesMoved(i) = IF m = "MEM_IMM16_REG16" THEN 2
                      ELSE IF m \in (ToRegister \cup ToMemory) \ {"REG8_REG8", "REG8_IMM8"} THEN 1
                      ELSE 0
  <2>1. "MEM_IMM16_REG16" \notin ToRegister \cup ToMemory
    BY DEF ToRegister, ToMemory
  <2> QED
    BY <1>1, <2>1 DEF BytesMoved, BitTypes
<1>3. CASE m = "REG8_REG8"
  BY <1>2, <1>3 DEF LdCycles, Fetched, OneByteModes, TwoByteModes
<1>4. CASE m \in {"REG8_IMM8", "REG16_REG16"}
  <2>1. BytesMoved(i) = 0
    BY <1>2, <1>4 DEF ToRegister, ToMemory
  <2>2. LdCycles(m) = 8 /\ Fetched(i) \in 0 .. 1
    BY <1>4 DEF LdCycles, Fetched, OneByteModes, TwoByteModes
  <2> QED
    BY <2>1, <2>2
<1>5. CASE m \in {"MEM_REG16_REG8", "REG8_MEM_REG16", "MEM_HLI_REG8", "REG8_MEM_HLI",
                  "MEM_HLD_REG8", "REG8_MEM_HLD", "MEM_FF00_C_REG8", "REG8_MEM_FF00_C"}
  <2>1. BytesMoved(i) \in 0 .. 1
    BY <1>2, <1>5
  <2>2. LdCycles(m) = 8 /\ Fetched(i) = 0
    BY <1>5 DEF LdCycles, Fetched, OneByteModes, TwoByteModes
  <2> QED
    BY <2>1, <2>2
<1>6. CASE m \in {"REG16_IMM16", "REG16_SP_IMM8"}
  <2>1. BytesMoved(i) = 0
    BY <1>2, <1>6 DEF ToRegister, ToMemory
  <2>2. LdCycles(m) = 12 /\ Fetched(i) \in 0 .. 2
    BY <1>6 DEF LdCycles, Fetched, OneByteModes, TwoByteModes
  <2> QED
    BY <2>1, <2>2
<1>7. CASE m \in {"MEM_REG16_IMM8", "MEM_FF00_IMM8_REG8", "REG8_MEM_FF00_IMM8"}
  <2>1. BytesMoved(i) \in 0 .. 1
    BY <1>2, <1>7
  <2>2. LdCycles(m) = 12 /\ Fetched(i) = 1
    BY <1>7 DEF LdCycles, Fetched, OneByteModes, TwoByteModes
  <2> QED
    BY <2>1, <2>2
<1>8. CASE m \in {"REG8_MEM_IMM16", "MEM_IMM16_REG8"}
  <2>1. BytesMoved(i) \in 0 .. 1
    BY <1>2, <1>8
  <2>2. LdCycles(m) = 16 /\ Fetched(i) = 2
    BY <1>8 DEF LdCycles, Fetched, OneByteModes, TwoByteModes
  <2> QED
    BY <2>1, <2>2
<1>9. CASE m = "MEM_IMM16_REG16"
  <2>1. LdCycles(m) = 20 /\ Fetched(i) = 2
    BY <1>9 DEF LdCycles, Fetched, OneByteModes, TwoByteModes
  <2> QED
    BY <1>2, <1>9, <2>1
<1> QED
  BY <1>3, <1>4, <1>5, <1>6, <1>7, <1>8, <1>9 DEF ToRegister, ToMemory

Enough(o) == cycles' % 4 = 0 /\ cycles' >= 4 * (Length(o) + BytesMoved(decode(o)))
LEMMA Moved ==
  ASSUME NEW i
  PROVE  /\ i.type \in {"PUSH", "CALL", "RST", "POP", "RET", "RETI"} =>
              BytesMoved(i) = IF SP' # SP THEN 2 ELSE 0
         /\ i.type \in AluTypes => BytesMoved(i) = IF i.mode = "REG8_MEM_REG16" THEN 1 ELSE 0
         /\ i.type = "BIT" => BytesMoved(i) = IF i.mode = "MEM_REG16" THEN 1 ELSE 0
         /\ i.type \in BitwiseTypes \cup {"INC", "DEC"} =>
              BytesMoved(i) = IF i.mode = "MEM_REG16" THEN 2 ELSE 0
         /\ i.type \in AccumulatorTypes \cup {"JR", "JP", "NOP", "HALT", "STOP", "DI", "EI"} =>
              BytesMoved(i) = 0
<1>1. ASSUME i.type \in {"PUSH", "CALL", "RST", "POP", "RET", "RETI"}
      PROVE  BytesMoved(i) = IF SP' # SP THEN 2 ELSE 0
  BY <1>1 DEF BytesMoved, Pushes, Pops, AluTypes, BitwiseTypes
<1>2. ASSUME i.type \in AluTypes
      PROVE  BytesMoved(i) = IF i.mode = "REG8_MEM_REG16" THEN 1 ELSE 0
  BY <1>2 DEF BytesMoved, Pushes, Pops, AluTypes, BitwiseTypes
<1>3. ASSUME i.type = "BIT"
      PROVE  BytesMoved(i) = IF i.mode = "MEM_REG16" THEN 1 ELSE 0
  BY <1>3 DEF BytesMoved, Pushes, Pops, AluTypes, BitwiseTypes
<1>4. ASSUME i.type \in BitwiseTypes \cup {"INC", "DEC"}
      PROVE  BytesMoved(i) = IF i.mode = "MEM_REG16" THEN 2 ELSE 0
  BY <1>4 DEF BytesMoved, Pushes, Pops, AluTypes, BitwiseTypes
<1>5. ASSUME i.type \in AccumulatorTypes \cup {"JR", "JP", "NOP", "HALT", "STOP", "DI", "EI"}
      PROVE  BytesMoved(i) = 0
  BY <1>5 DEF BytesMoved, Pushes, Pops, AluTypes, BitwiseTypes, AccumulatorTypes
<1> QED
  BY <1>1, <1>2, <1>3, <1>4, <1>5

LEMMA EnoughTime ==
  ASSUME NEW o \in Opcodes, NEW n, Execute(o, n)
  PROVE  Enough(o)
<1> DEFINE i == decode(o)
           length == Length(o)
           moved == BytesMoved(i)
<1>1. /\ i.type \notin BitTypes => length = 1 + Fetched(i)
      /\ i.type \in BitTypes => length \in 1 .. 2
      /\ i.type \notin AluTypes \cup {"LD", "JR", "JP", "CALL"} => Fetched(i) = 0
      /\ i.type = "JR" => Fetched(i) \in 0 .. 1
      /\ Fetched(i) \in 0 .. 2
  BY Sized, Zenon
<1>2. SUFFICES cycles' % 4 = 0 /\ cycles' >= 4 * (length + moved)
  BY Zenon DEF Enough
<1>3. CASE execute_ld(o, n)
  <2>1. i.type = "LD" /\ cycles' = LdCycles(i.mode)
    BY <1>3, Zenon DEF execute_ld
  <2>2. i.mode \in ToRegister \cup ToMemory
                   \cup {"REG16_IMM16", "REG16_REG16", "MEM_IMM16_REG16", "REG16_SP_IMM8"}
    BY <1>3 DEF execute_ld, LoadRegister, LoadMemory, LoadPair, StorePair, LoadOffset
  <2> HIDE DEF i, length, moved
  <2>3. length = 1 + Fetched(i)
    BY <1>1, <2>1 DEF BitTypes, BitwiseTypes
  <2> QED
    BY <2>1, <2>2, <2>3, LdTime, Zenon DEF moved
<1>4. CASE Arithmetic(o, n) \/ AddPair(o) \/ AddToSP(o, n)
  <2>1. i.type \in AluTypes
    BY <1>4 DEF Arithmetic, AddPair, AddToSP, AluTypes
  <2>2. \/ i.mode = "REG8_REG8" /\ cycles' = 4
        \/ i.mode \in {"REG8_IMM8", "REG8_MEM_REG16", "REG16_REG16"} /\ cycles' = 8
        \/ i.mode = "REG16_IMM8" /\ cycles' = 16
    BY <1>4 DEF Arithmetic, AddPair, AddToSP, AluModes
  <2> HIDE DEF i, length, moved
  <2>3. length = 1 + Fetched(i)
    BY <1>1, <2>1 DEF BitTypes, BitwiseTypes, AluTypes
  <2>4. moved = IF i.mode = "REG8_MEM_REG16" THEN 1 ELSE 0
    BY <2>1, Moved, Zenon DEF moved
  <2>5. Fetched(i) = IF i.mode \in {"REG8_IMM8", "REG16_IMM8"} THEN 1 ELSE 0
    BY <2>2 DEF Fetched, OneByteModes, TwoByteModes
  <2> QED
    BY <2>2, <2>3, <2>4, <2>5
<1>5. CASE Accumulator(o) \/ Still(o)
  <2>1. i.type \in AccumulatorTypes \cup {"NOP", "HALT", "STOP", "DI", "EI"} /\ cycles' = 4
    BY <1>5, Zenon DEF Accumulator, Still
  <2> HIDE DEF i, length, moved
  <2>2. length = 1
    BY <1>1, <2>1 DEF BitTypes, BitwiseTypes, AluTypes, AccumulatorTypes
  <2>3. moved = 0
    BY <2>1, Moved DEF moved
  <2> QED
    BY <2>1, <2>2, <2>3
<1>6. CASE execute_inc_dec(o) \/ IncDecPair(o)
  <2>1. /\ i.type \in {"INC", "DEC"}
        /\ \/ i.mode = "REG8" /\ cycles' = 4
           \/ i.mode = "MEM_REG16" /\ cycles' = 12
           \/ i.mode = "REG16" /\ cycles' = 8
    BY <1>6 DEF execute_inc_dec, IncDecPair
  <2> HIDE DEF i, length, moved
  <2>2. length = 1
    BY <1>1, <2>1 DEF BitTypes, BitwiseTypes, AluTypes
  <2>3. moved = IF i.mode = "MEM_REG16" THEN 2 ELSE 0
    BY <2>1, Moved DEF moved
  <2> QED
    BY <2>1, <2>2, <2>3
<1>7. CASE ChangeBits(o)
  <2>1. i.type \in BitwiseTypes /\ cycles' = IF i.mode = "REG8" THEN 8 ELSE 16
    BY <1>7, Zenon DEF ChangeBits, CbCycles
  <2> HIDE DEF i, length, moved
  <2>2. length \in 1 .. 2
    BY <1>1, <2>1 DEF BitTypes
  <2>3. moved = IF i.mode = "MEM_REG16" THEN 2 ELSE 0
    BY <2>1, Moved DEF moved
  <2> QED
    BY <2>1, <2>2, <2>3
<1>8. CASE execute_bit(o)
  <2>1. i.type = "BIT" /\ cycles' = IF i.mode = "REG8" THEN 8 ELSE 12
    BY <1>8, Zenon DEF execute_bit
  <2> HIDE DEF i, length, moved
  <2>2. length \in 1 .. 2
    BY <1>1, <2>1 DEF BitTypes
  <2>3. moved = IF i.mode = "MEM_REG16" THEN 1 ELSE 0
    BY <2>1, Moved DEF moved
  <2> QED
    BY <2>1, <2>2, <2>3
<1>9. CASE execute_jr(o, n) \/ execute_jp(o, n)
  <2>1. \/ i.type = "JR" /\ cycles' \in {8, 12}
        \/ i.type = "JP" /\ i.mode = "REG16" /\ cycles' = 4
        \/ i.type = "JP" /\ i.mode = "ABS16" /\ cycles' \in {12, 16}
    BY <1>9 DEF execute_jr, execute_jp
  <2> HIDE DEF i, length, moved
  <2>2. length = 1 + Fetched(i)
    BY <1>1, <2>1 DEF BitTypes, BitwiseTypes
  <2>3. moved = 0
    BY <2>1, Moved DEF moved
  <2>4. i.mode = "REG16" => Fetched(i) = 0
    BY DEF Fetched, OneByteModes, TwoByteModes
  <2> QED
    BY <1>1, <2>1, <2>2, <2>3, <2>4
<1>10. CASE execute_call(o, n)
  <2>1. i.type = "CALL" /\ (cycles' = 24 \/ (cycles' = 12 /\ SP' = SP))
    BY <1>10 DEF execute_call
  <2> HIDE DEF i, length, moved
  <2>2. length = 1 + Fetched(i)
    BY <1>1, <2>1 DEF BitTypes, BitwiseTypes
  <2>3. moved = IF SP' # SP THEN 2 ELSE 0
    BY <2>1, Moved DEF moved
  <2> QED
    BY <1>1, <2>1, <2>2, <2>3
<1>11. CASE execute_rst(o) \/ execute_ret(o) \/ execute_push(o) \/ execute_pop(o)
  <2>1. /\ i.type \in {"RST", "RET", "RETI", "PUSH", "POP"}
        /\ cycles' \in {12, 16, 20} \/ (cycles' = 8 /\ SP' = SP)
    BY <1>11, Zenon DEF execute_rst, execute_ret, execute_push, execute_pop
  <2> HIDE DEF i, length, moved
  <2>2. length = 1
    BY <1>1, <2>1 DEF BitTypes, BitwiseTypes, AluTypes
  <2>3. moved = IF SP' # SP THEN 2 ELSE 0
    BY <2>1, Moved DEF moved
  <2> QED
    BY <2>1, <2>2, <2>3
<1>12. Execute(o, n)
  OBVIOUS
<1> HIDE DEF i, length, moved
<1> QED
  BY <1>3, <1>4, <1>5, <1>6, <1>7, <1>8, <1>9, <1>10, <1>11, <1>12, Zenon DEF Execute

(* No instruction of any program takes less time than its bytes need.        *)
THEOREM BytesAlwaysTakeTime == Spec => BytesTakeTime
<1>1. ASSUME Typed, Next, listing # <<>>
      PROVE  /\ cycles' % 4 = 0
             /\ cycles' >= 4 * (Length(op') + BytesMoved(decode(op')))
  <2>1. Step
    BY <1>1 DEF Next, Over
  <2>2. PICK o \in Opcodes, n \in Word : Execute(o, n) /\ op' = o
    BY <1>1, <2>1, Executed
  <2>3. Enough(o)
    BY <2>2, EnoughTime
  <2> QED
    BY <2>2, <2>3, Zenon DEF Enough
<1> QED
  BY <1>1, AlwaysTyped, PTL DEF Spec, BytesTakeTime
=============================================================================
