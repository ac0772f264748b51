------------------------------- MODULE Dtype -------------------------------
(***************************************************************************)
(* The conversions of dtype.h between fp32 and the 16-bit formats, on the  *)
(* bits.  A number is its sign bit and its magnitude, the other bits taken *)
(* as an unsigned integer: 31 of them for a float, 15 for a half or a      *)
(* bfloat16.  The values of two finite numbers of one sign and format      *)
(* compare as their magnitudes do.                                         *)
(***************************************************************************)
EXTENDS Integers

Number(sign, mag) == [sign |-> sign, mag |-> mag]

Man32 == 8388608        \* 2^23: the exponent of a float begins here
Inf32 == 255 * Man32
Man16 == 1024           \* 2^10
Inf16 == 31 * Man16
InfB  == 32640          \* 0x7F80

Mag32 == 2147483647    \* 31 bits
Mag16 == 32767

Floats == [sign : 0 .. 1, mag : 0 .. Mag32]
Halves == [sign : 0 .. 1, mag : 0 .. Mag16]

IsNaN32(f) == f.mag > Inf32
IsNaN16(h) == h.mag > Inf16

-----------------------------------------------------------------------------

\* A subnormal is shifted left until its leading one is bit 10.
Shifts(man) == CHOOSE n \in 1 .. 10 : Man16 <= man * 2^n /\ man * 2^n < 2 * Man16

\* Mutant: the exponent of a subnormal is counted from the first shift.
Fp16ToFp32OffByOne(h) ==
  LET exp == h.mag \div Man16
      man == h.mag % Man16
      k   == Shifts(man)
      mag == IF exp = 0
             THEN IF man = 0 THEN 0
                  ELSE (112 - k) * Man32 + (man * 2^k - Man16) * 8192
             ELSE IF exp = 31 THEN Inf32 + man * 8192
             ELSE (exp + 112) * Man32 + man * 8192
  IN  Number(h.sign, mag)

Fp16ToFp32(h) ==
  LET exp == h.mag \div Man16
      man == h.mag % Man16
      k   == Shifts(man)
      mag == IF exp = 0
             THEN IF man = 0 THEN 0
                  ELSE (112 - (k - 1)) * Man32 + (man * 2^k - Man16) * 8192
             ELSE IF exp = 31 THEN Inf32 + man * 8192
             ELSE (exp + 112) * Man32 + man * 8192
  IN  Number(h.sign, mag)

\* Mutant: a tie goes up.
RoundedTiesUp(m, d) == (m \div d) + (IF m % d >= d \div 2 THEN 1 ELSE 0)

\* m / d, to the nearest integer, a tie to the even one.
Rounded(m, d) ==
  LET q == m \div d
      rem == m % d
  IN  IF rem > d \div 2 \/ (rem = d \div 2 /\ q % 2 = 1) THEN q + 1 ELSE q

\* The mantissa that is set in every NaN.
Quiet(man) == IF man \div 512 = 1 THEN man ELSE man + 512

Fp32ToFp16(f) ==
  LET exp == f.mag \div Man32
      man == f.mag % Man32
      e   == exp - 112
      mag == IF exp = 255 THEN IF man = 0 THEN Inf16 ELSE Inf16 + Quiet(man \div 8192)
             ELSE IF exp = 0 THEN 0
             ELSE IF e >= 31 THEN Inf16
             ELSE IF e <= 0
                  THEN IF e < -10 THEN 0 ELSE Rounded(man + Man32, 2^(14 - e))
             ELSE e * Man16 + Rounded(man, 8192)
  IN  Number(f.sign, mag)

Bf16ToFp32(b) == Number(b.sign, b.mag * 65536)

\* Mutant: the low half of the float is cut off.
Fp32ToBf16Truncated(f) == Number(f.sign, f.mag \div 65536)

\* Rounded as a 16-bit word: a carry out of the magnitude reaches the sign.
Fp32ToBf16(f) ==
  LET b == (f.sign * 32768 + Rounded(f.mag, 65536)) % 65536
  IN  Number(b \div 32768, b % 32768)

-----------------------------------------------------------------------------
(* What rounding means: the float half-way between two neighbours.         *)

\* The value of half h is Significand(h) units of 2^(max(exponent, 1) - 25).
Significand(h) == IF h < Man16 THEN h ELSE Man16 + (h % Man16)
Scale(h) == IF h < Man16 THEN 1 ELSE h \div Man16

\* The position of the leading one of s.
Leading(s) == CHOOSE n \in 0 .. 11 : 2^n <= s /\ s < 2 * 2^n

\* Half-way between h and the next half, which may be the infinity.
Midpoint(h) ==
  LET s == 2 * Significand(h) + 1
      p == Leading(s)
  IN  (127 + Scale(h) - 26 + p) * Man32 + (s - 2^p) * 2^(23 - p)

\* Magnitude h of a half is nearest to magnitude x of a float, ties to even.
IsNearestHalf(h, x) ==
  /\ h \in 0 .. Inf16
  /\ h > 0 => Midpoint(h - 1) < x \/ (Midpoint(h - 1) = x /\ h % 2 = 0)
  /\ h < Inf16 => x < Midpoint(h) \/ (x = Midpoint(h) /\ h % 2 = 0)

\* The same of a bfloat16, whose neighbours are 2^16 apart.
IsNearestBfloat(b, x) ==
  /\ b \in 0 .. InfB
  /\ b > 0 => b * 65536 - 32768 < x \/ (b * 65536 - 32768 = x /\ b % 2 = 0)
  /\ b < InfB => x < b * 65536 + 32768 \/ (x = b * 65536 + 32768 /\ b % 2 = 0)
=============================================================================
