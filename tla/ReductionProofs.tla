-------------------------- MODULE ReductionProofs --------------------------
(***************************************************************************)
(* Proofs about Dtype and Reduction.  First the conversions, for each of   *)
(* the 2^32 floats and 2^16 halves: what a conversion returns, that it     *)
(* rounds to the nearest, and that a half survives the way through a float.*)
(* Then the reductions, for rows of every length.  The bounds of ranges    *)
(* are kept as named constants and used through Ranges; SMT is asked for   *)
(* by name wherever a literal is large.                                    *)
(***************************************************************************)
EXTENDS Reduction, TLAPS

\* Membership in a range, as two inequalities.
LEMMA Ranges ==
  /\ \A c \in Int : \A x \in 0 .. c : x \in Int /\ 0 <= x /\ x <= c
  /\ \A c \in Int, x \in Int : 0 <= x /\ x <= c => x \in 0 .. c
BY SMT

\* The bits of a float and of a half.
LEMMA FloatBits ==
  ASSUME NEW f \in Floats
  PROVE  /\ f.mag \in Int /\ 0 <= f.mag /\ f.mag <= 2147483647
         /\ f.sign \in {0, 1}
<1>1. Mag32 \in Int /\ Mag32 <= 2147483647
  BY SMT DEF Mag32
<1>2. f.mag \in 0 .. Mag32 /\ f.sign \in 0 .. 1
  BY SMT DEF Floats
<1> QED  BY SMT, <1>1, <1>2, Ranges

LEMMA HalfBits ==
  ASSUME NEW h \in Halves
  PROVE  /\ h.mag \in Int /\ 0 <= h.mag /\ h.mag <= 32767
         /\ h.sign \in {0, 1}
<1>1. Mag16 \in Int /\ Mag16 <= 32767
  BY SMT DEF Mag16
<1>2. h.mag \in 0 .. Mag16 /\ h.sign \in 0 .. 1
  BY SMT DEF Halves
<1> QED  BY SMT, <1>1, <1>2, Ranges

LEMMA MakeFloat ==
  ASSUME NEW s \in {0, 1}, NEW x \in Int, 0 <= x, x <= 2147483647
  PROVE  Number(s, x) \in Floats
<1>1. Mag32 \in Int /\ 2147483647 <= Mag32
  BY SMT DEF Mag32
<1>2. x \in 0 .. Mag32
  BY SMT, <1>1, Ranges
<1> QED  BY SMT, <1>2 DEF Number, Floats

LEMMA MakeHalf ==
  ASSUME NEW s \in {0, 1}, NEW x \in Int, 0 <= x, x <= 32767
  PROVE  Number(s, x) \in Halves
<1>1. Mag16 \in Int /\ 32767 <= Mag16
  BY SMT DEF Mag16
<1>2. x \in 0 .. Mag16
  BY SMT, <1>1, Ranges
<1> QED  BY SMT, <1>2 DEF Number, Halves

-----------------------------------------------------------------------------
(* fp32 to bf16.                                                           *)

\* A float that is not NaN rounds to the nearest bfloat16 of its sign: the
\* carry of the rounding never leaves the magnitude.
LEMMA BfloatNearest ==
  ASSUME NEW f \in Floats, ~IsNaN32(f)
  PROVE  /\ Fp32ToBf16(f).sign = f.sign
         /\ IsNearestBfloat(Fp32ToBf16(f).mag, f.mag)
<1> DEFINE r == Rounded(f.mag, 65536)
<1>1. /\ f.mag \in Int /\ 0 <= f.mag /\ f.mag <= 2139095040
      /\ f.sign \in Int /\ 0 <= f.sign /\ f.sign <= 1
  BY SMT, FloatBits DEF IsNaN32, Inf32, Man32
<1>2. r \in Int /\ 0 <= r /\ r <= 32640
  BY SMT, <1>1 DEF Rounded
<1>3. /\ r > 0 => r * 65536 - 32768 < f.mag \/ (r * 65536 - 32768 = f.mag /\ r % 2 = 0)
      /\ f.mag < r * 65536 + 32768 \/ (f.mag = r * 65536 + 32768 /\ r % 2 = 0)
  BY SMT, <1>1, <1>2 DEF Rounded
<1>4. InfB \in Int /\ 32640 <= InfB
  BY SMT DEF InfB
<1> HIDE DEF r
<1>5. r \in 0 .. InfB
  BY SMT, <1>2, <1>4, Ranges
<1>6. IsNearestBfloat(r, f.mag)
  BY SMT, <1>3, <1>5 DEF IsNearestBfloat
<1>7. (f.sign * 32768 + r) % 65536 = f.sign * 32768 + r
  BY SMT, <1>1, <1>2
<1>8. (f.sign * 32768 + r) \div 32768 = f.sign /\ (f.sign * 32768 + r) % 32768 = r
  BY SMT, <1>1, <1>2
<1> QED  BY SMT, <1>6, <1>7, <1>8 DEF Fp32ToBf16, Number, r

-----------------------------------------------------------------------------
(* fp16 to fp32 and back.                                                  *)

\* The shifts of a subnormal: there is a number of them that makes bit 10 the
\* leading one.
LEMMA Normalised ==
  ASSUME NEW man \in Int, 1 <= man, man <= 1023
  PROVE  \E n \in 1 .. 10 : Man16 <= man * 2^n /\ man * 2^n < 2 * Man16
BY SMT DEF Man16

\* What a subnormal becomes, and a normal number.
LEMMA Subnormal ==
  ASSUME NEW h \in Halves, 1 <= h.mag, h.mag <= 1023
  PROVE  /\ Shifts(h.mag) \in 1 .. 10
         /\ 1024 <= h.mag * 2^Shifts(h.mag) /\ h.mag * 2^Shifts(h.mag) < 2048
         /\ Fp16ToFp32(h) = Number(h.sign, (113 - Shifts(h.mag)) * 8388608
                                             + (h.mag * 2^Shifts(h.mag) - 1024) * 8192)
<1>1. h.mag \in Int /\ h.mag # 0
  BY SMT, HalfBits
<1>2. h.mag \div Man16 = 0 /\ h.mag % Man16 = h.mag
  BY SMT, <1>1 DEF Man16
<1>3. /\ Shifts(h.mag) \in 1 .. 10
      /\ Man16 <= h.mag * 2^Shifts(h.mag) /\ h.mag * 2^Shifts(h.mag) < 2 * Man16
  BY Zenon, <1>1, Normalised DEF Shifts
<1>4. Fp16ToFp32(h) = Number(h.sign, (112 - (Shifts(h.mag) - 1)) * Man32
                                       + (h.mag * 2^Shifts(h.mag) - Man16) * 8192)
  BY SMT, <1>1, <1>2 DEF Fp16ToFp32
<1>5. 112 - (Shifts(h.mag) - 1) = 113 - Shifts(h.mag)
  BY SMT, <1>3
<1> QED  BY SMT, <1>3, <1>4, <1>5 DEF Man16, Man32

LEMMA Normal ==
  ASSUME NEW h \in Halves, NEW e \in Int, NEW m \in Int, 1 <= e, e <= 31, 0 <= m, m <= 1023,
         h.mag = e * 1024 + m
  PROVE  /\ e <= 30 => Fp16ToFp32(h) = Number(h.sign, (e + 112) * 8388608 + m * 8192)
         /\ e = 31 => Fp16ToFp32(h) = Number(h.sign, 2139095040 + m * 8192)
<1>1. h.mag \div Man16 = e /\ h.mag % Man16 = m
  BY SMT DEF Man16
<1>2. Man32 = 8388608 /\ Inf32 = 2139095040
  BY SMT DEF Man32, Inf32
<1> QED  BY SMT, <1>1, <1>2 DEF Fp16ToFp32

\* f is the float of sign s, exponent E and mantissa m.
HasFields(f, s, E, m) ==
  /\ f \in Floats /\ f.sign = s /\ f.mag = E * 8388608 + m
  /\ E \in Int /\ 0 <= E /\ E <= 255
  /\ m \in Int /\ 0 <= m /\ m <= 8388607

LEMMA MakeFields ==
  ASSUME NEW s \in {0, 1}, NEW E \in Int, NEW m \in Int,
         0 <= E, E <= 255, 0 <= m, m <= 8388607
  PROVE  HasFields(Number(s, E * 8388608 + m), s, E, m)
<1>1. /\ E * 8388608 + m \in Int /\ 0 <= E * 8388608 + m
      /\ E * 8388608 + m <= 2147483647
  BY SMT
<1>2. Number(s, E * 8388608 + m) \in Floats
  BY SMT, <1>1, MakeFloat
<1> QED  BY SMT, <1>2 DEF HasFields, Number

LEMMA Fields ==
  ASSUME NEW f \in Floats
  PROVE  \E E \in Int, m \in Int : HasFields(f, f.sign, E, m)
<1> DEFINE E == f.mag \div 8388608
           m == f.mag % 8388608
<1>1. /\ E \in Int /\ 0 <= E /\ E <= 255
      /\ m \in Int /\ 0 <= m /\ m <= 8388607
      /\ f.mag = E * 8388608 + m
  BY SMT, FloatBits
<1> HIDE DEF E, m
<1>2. HasFields(f, f.sign, E, m)
  BY SMT, <1>1 DEF HasFields
<1> QED  BY SMT, <1>1, <1>2

\* The branches of fp32ToFp16, by the exponent of the float.
LEMMA ToHalf ==
  ASSUME NEW f, NEW s, NEW E, NEW m, HasFields(f, s, E, m)
  PROVE  /\ E = 255 /\ m = 0 => Fp32ToFp16(f) = Number(s, 31744)
         /\ E = 255 /\ m # 0 => Fp32ToFp16(f) = Number(s, 31744 + Quiet(m \div 8192))
         /\ 143 <= E /\ E <= 254 => Fp32ToFp16(f) = Number(s, 31744)
         /\ 113 <= E /\ E <= 142 =>
              Fp32ToFp16(f) = Number(s, (E - 112) * 1024 + Rounded(m, 8192))
         /\ 102 <= E /\ E <= 112 =>
              Fp32ToFp16(f) = Number(s, Rounded(m + 8388608, 2^(126 - E)))
         /\ E <= 101 => Fp32ToFp16(f) = Number(s, 0)
<1>1. f.mag \div Man32 = E /\ f.mag % Man32 = m /\ f.sign = s /\ E \in Int /\ m \in Int
  BY SMT DEF Man32, HasFields
<1>2. Inf16 = 31744 /\ Man16 = 1024 /\ Man32 = 8388608
  BY SMT DEF Inf16, Man16, Man32
<1>3. 14 - (E - 112) = 126 - E
  BY SMT, <1>1
<1> QED  BY SMT, <1>1, <1>2, <1>3 DEF Fp32ToFp16, HasFields

\* The divisors of the roundings that meet a half: 2^13 .. 2^23.
Divisors == {8192, 16384, 32768, 65536, 131072, 262144, 524288, 1048576, 2097152,
             4194304, 8388608}

\* An exact division is not rounded.
LEMMA RoundedExact ==
  ASSUME NEW a \in Int, 0 <= a, a <= 1023,
         NEW d \in Divisors
  PROVE  Rounded(a * d, d) = a
<1>1. (a * d) \div d = a /\ (a * d) % d = 0 /\ d \div 2 \in Int /\ d \div 2 > 0
  BY SMT DEF Divisors
<1> QED  BY SMT, <1>1 DEF Rounded

IsShift(k) == k \in 1 .. 10

LEMMA Powers ==
  ASSUME NEW k, IsShift(k)
  PROVE  2^k * 8192 \in Divisors /\ 2^(126 - (113 - k)) = 2^k * 8192
<1>1. CASE k = 1   BY SMT, <1>1 DEF Divisors
<1>2. CASE k = 2   BY SMT, <1>2 DEF Divisors
<1>3. CASE k = 3   BY SMT, <1>3 DEF Divisors
<1>4. CASE k = 4   BY SMT, <1>4 DEF Divisors
<1>5. CASE k = 5   BY SMT, <1>5 DEF Divisors
<1>6. CASE k = 6   BY SMT, <1>6 DEF Divisors
<1>7. CASE k = 7   BY SMT, <1>7 DEF Divisors
<1>8. CASE k = 8   BY SMT, <1>8 DEF Divisors
<1>9. CASE k = 9   BY SMT, <1>9 DEF Divisors
<1>10. CASE k = 10  BY SMT, <1>10 DEF Divisors
<1> QED  BY SMT, <1>1, <1>2, <1>3, <1>4, <1>5, <1>6, <1>7, <1>8, <1>9, <1>10 DEF IsShift

\* A half that is not NaN comes back from a float as it was.
LEMMA RoundTrip ==
  ASSUME NEW h \in Halves, ~IsNaN16(h)
  PROVE  /\ Fp16ToFp32(h) \in Floats /\ ~IsNaN32(Fp16ToFp32(h))
         /\ Fp32ToFp16(Fp16ToFp32(h)) = h
<1>1. /\ h.mag \in Int /\ 0 <= h.mag /\ h.mag <= 31744 /\ h.sign \in {0, 1}
      /\ h = Number(h.sign, h.mag)
  <2>1. h = Number(h.sign, h.mag)
    BY SMT DEF Halves, Number
  <2> QED  BY SMT, <2>1, HalfBits DEF IsNaN16, Inf16, Man16
<1> DEFINE f == Fp16ToFp32(h)
<1>2. CASE h.mag = 0
  <2>1. f = Number(h.sign, 0 * 8388608 + 0)
    BY SMT, <1>2 DEF Fp16ToFp32, Man16
  <2> HIDE DEF f
  <2>2. HasFields(f, h.sign, 0, 0)
    BY SMT, <1>1, <2>1, MakeFields
  <2>3. f \in Floats /\ ~IsNaN32(f)
    BY SMT, <2>2 DEF HasFields, IsNaN32, Inf32, Man32
  <2> QED  BY SMT, <1>1, <1>2, <2>2, <2>3, ToHalf DEF f
<1>3. CASE 1 <= h.mag /\ h.mag <= 1023
  <2>1. PICK k \in 1 .. 10 : k = Shifts(h.mag)
    BY SMT, <1>3, Subnormal
  <2>2. /\ 1024 <= h.mag * 2^k /\ h.mag * 2^k < 2048
        /\ f = Number(h.sign, (113 - k) * 8388608 + (h.mag * 2^k - 1024) * 8192)
    BY SMT, <1>3, <2>1, Subnormal
  <2> DEFINE m == (h.mag * 2^k - 1024) * 8192
             E == 113 - k
  <2>3. PICK d \in Divisors : d = 2^k * 8192 /\ 2^(126 - E) = d
    <3>1. IsShift(k)
      BY SMT DEF IsShift
    <3>2. 2^k * 8192 \in Divisors /\ 2^(126 - E) = 2^k * 8192
      BY SMT, <3>1, Powers
    <3> QED  BY SMT, <3>2
  <2>4. m \in Int /\ 0 <= m /\ m <= 8388607 /\ m + 8388608 = h.mag * d
    BY SMT, <1>1, <2>2, <2>3 DEF Divisors
  <2>5. E \in Int /\ 103 <= E /\ E <= 112
    BY SMT
  <2>6. f = Number(h.sign, E * 8388608 + m)
    BY SMT, <2>2
  <2>7. Rounded(h.mag * d, d) = h.mag
    BY SMT, <1>1, <1>3, RoundedExact
  <2> HIDE DEF m, E, f
  <2>8. HasFields(f, h.sign, E, m)
    BY SMT, <1>1, <2>4, <2>5, <2>6, MakeFields
  <2>9. f \in Floats /\ ~IsNaN32(f)
    BY SMT, <2>5, <2>8 DEF HasFields, IsNaN32, Inf32, Man32
  <2>10. Fp32ToFp16(f) = Number(h.sign, Rounded(m + 8388608, 2^(126 - E)))
    BY SMT, <2>5, <2>8, ToHalf
  <2>11. Fp32ToFp16(f) = h
    BY SMT, <1>1, <2>3, <2>4, <2>7, <2>10
  <2> QED  BY SMT, <2>9, <2>11 DEF f
<1>4. CASE 1024 <= h.mag /\ h.mag <= 31743
  <2> DEFINE e == h.mag \div 1024
             m == h.mag % 1024
             E == e + 112
  <2>1. /\ e \in Int /\ 1 <= e /\ e <= 30 /\ m \in Int /\ 0 <= m /\ m <= 1023
        /\ h.mag = e * 1024 + m
    BY SMT, <1>1, <1>4
  <2> HIDE DEF e, m, f
  <2>2. f = Number(h.sign, E * 8388608 + m * 8192)
    BY SMT, <2>1, Normal DEF f
  <2>3. Rounded(m * 8192, 8192) = m
    <3>1. 8192 \in Divisors
      BY SMT DEF Divisors
    <3> QED  BY SMT, <2>1, <3>1, RoundedExact
  <2>4. E \in Int /\ 113 <= E /\ E <= 142 /\ E - 112 = e
    BY SMT, <2>1
  <2>5. m * 8192 \in Int /\ 0 <= m * 8192 /\ m * 8192 <= 8388607
    BY SMT, <2>1
  <2> HIDE DEF E
  <2>6. HasFields(f, h.sign, E, m * 8192)
    BY SMT, <1>1, <2>2, <2>4, <2>5, MakeFields
  <2>7. f \in Floats /\ ~IsNaN32(f)
    BY SMT, <2>4, <2>5, <2>6 DEF HasFields, IsNaN32, Inf32, Man32
  <2>8. Fp32ToFp16(f) = Number(h.sign, (E - 112) * 1024 + Rounded(m * 8192, 8192))
    BY SMT, <2>4, <2>6, ToHalf
  <2>9. Fp32ToFp16(f) = h
    BY SMT, <1>1, <2>1, <2>3, <2>4, <2>8
  <2> QED  BY SMT, <2>7, <2>9 DEF f
<1>5. CASE h.mag = 31744
  <2>1. h.mag = 31 * 1024 + 0
    BY SMT, <1>5
  <2>2. f = Number(h.sign, 255 * 8388608 + 0)
    BY SMT, <2>1, Normal
  <2> HIDE DEF f
  <2>3. HasFields(f, h.sign, 255, 0)
    BY SMT, <1>1, <2>2, MakeFields
  <2>4. f \in Floats /\ ~IsNaN32(f)
    BY SMT, <2>3 DEF HasFields, IsNaN32, Inf32, Man32
  <2> QED  BY SMT, <1>1, <1>5, <2>3, <2>4, ToHalf DEF f
<1> QED  BY SMT, <1>1, <1>2, <1>3, <1>4, <1>5

-----------------------------------------------------------------------------
(* fp32 to fp16: the rounding.                                             *)

\* An integer rounded to a multiple of an even d is at most d / 2 away, and an
\* even multiple if it is exactly d / 2.
RoundsTo(r, v, d) ==
  /\ r \in Int
  /\ r * d - d \div 2 < v \/ (r * d - d \div 2 = v /\ r % 2 = 0)
  /\ v < r * d + d \div 2 \/ (v = r * d + d \div 2 /\ r % 2 = 0)

LEMMA RoundedMeans ==
  ASSUME NEW v \in Int, 0 <= v, NEW c \in Int, 0 < c
  PROVE  RoundsTo(Rounded(v, 2 * c), v, 2 * c) /\ 0 <= Rounded(v, 2 * c)
<1> DEFINE d == 2 * c
           q == v \div d
           rem == v % d
<1>1. /\ d \in Int /\ d > 0 /\ d \div 2 = c
  BY SMT
<1>2. /\ q \in Int /\ 0 <= q /\ rem \in Int /\ 0 <= rem /\ rem < d
      /\ v = q * d + rem
  <2> HIDE DEF d
  <2> QED  BY SMT, <1>1
<1>3. Rounded(v, d) = IF rem > c \/ (rem = c /\ q % 2 = 1) THEN q + 1 ELSE q
  BY SMT, <1>1 DEF Rounded
<1> HIDE DEF q, rem
<1>4. (q + 1) * d = q * d + d /\ q * d \in Int
  BY SMT, <1>1, <1>2
<1>5. q % 2 \in {0, 1} /\ (q % 2 = 1 => (q + 1) % 2 = 0)
  BY SMT, <1>2
<1>6. d = 2 * c
  OBVIOUS
<1> HIDE DEF d
<1>7. RoundsTo(Rounded(v, d), v, d) /\ 0 <= Rounded(v, d)
  <2>1. CASE rem > c \/ (rem = c /\ q % 2 = 1)
    BY SMT, <1>1, <1>2, <1>3, <1>4, <1>5, <1>6, <2>1 DEF RoundsTo
  <2>2. CASE ~(rem > c \/ (rem = c /\ q % 2 = 1))
    BY SMT, <1>1, <1>2, <1>3, <1>4, <1>5, <1>6, <2>2 DEF RoundsTo
  <2> QED  BY SMT, <2>1, <2>2
<1> QED  BY SMT, <1>7 DEF d

\* Powers of two, for the places of the leading one of a subnormal.
IsPlace(p) == p \in 0 .. 10

LEMMA PowerTable ==
  ASSUME NEW p, IsPlace(p)
  PROVE  /\ p \in Int /\ 0 <= p /\ p <= 10
         /\ 2^p \in Int /\ 1 <= 2^p /\ 2^p <= 1024
         /\ 2^(23 - p) \in Int /\ 1 <= 2^(23 - p)
         /\ 2^p * 2^(23 - p) = 8388608 /\ 2^(24 - p) = 2 * 2^(23 - p)
<1>1. p \in {0, 1, 2, 3, 4, 5, 6, 7, 8, 9, 10}
  BY SMT DEF IsPlace
<1>2. CASE p = 0   BY SMT, <1>2
<1>3. CASE p = 1   BY SMT, <1>3
<1>4. CASE p = 2   BY SMT, <1>4
<1>5. CASE p = 3   BY SMT, <1>5
<1>6. CASE p = 4   BY SMT, <1>6
<1>7. CASE p = 5   BY SMT, <1>7
<1>8. CASE p = 6   BY SMT, <1>8
<1>9. CASE p = 7   BY SMT, <1>9
<1>10. CASE p = 8  BY SMT, <1>10
<1>11. CASE p = 9  BY SMT, <1>11
<1>12. CASE p = 10 BY SMT, <1>12
<1> QED
  BY SMT, <1>1, <1>2, <1>3, <1>4, <1>5, <1>6, <1>7, <1>8, <1>9, <1>10, <1>11, <1>12

LEMMA PowerValue ==
  ASSUME NEW p, IsPlace(p)
  PROVE  /\ p \in {0, 1, 2, 3, 4, 5, 6, 7, 8, 9, 10}
         /\ (p = 0 => 2^p = 1) /\ (p = 1 => 2^p = 2) /\ (p = 2 => 2^p = 4) /\ (p = 3 => 2^p = 8)
         /\ (p = 4 => 2^p = 16) /\ (p = 5 => 2^p = 32) /\ (p = 6 => 2^p = 64) /\ (p = 7 => 2^p = 128)
         /\ (p = 8 => 2^p = 256) /\ (p = 9 => 2^p = 512) /\ (p = 10 => 2^p = 1024)
<1>1. p \in {0, 1, 2, 3, 4, 5, 6, 7, 8, 9, 10}
  BY SMT DEF IsPlace
<1>2. CASE p = 0  BY SMT, <1>2
<1>3. CASE p = 1  BY SMT, <1>3
<1>4. CASE p = 2  BY SMT, <1>4
<1>5. CASE p = 3  BY SMT, <1>5
<1>6. CASE p = 4  BY SMT, <1>6
<1>7. CASE p = 5  BY SMT, <1>7
<1>8. CASE p = 6  BY SMT, <1>8
<1>9. CASE p = 7  BY SMT, <1>9
<1>10. CASE p = 8  BY SMT, <1>10
<1>11. CASE p = 9  BY SMT, <1>11
<1>12. CASE p = 10 BY SMT, <1>12
<1> QED
  BY SMT, <1>1, <1>2, <1>3, <1>4, <1>5, <1>6, <1>7, <1>8, <1>9, <1>10, <1>11, <1>12

LEMMA PowerOrder ==
  ASSUME NEW p, NEW a, IsPlace(p), IsPlace(a), p < a
  PROVE  2 * 2^p <= 2^a
<1> DEFINE P == 2^p
           A == 2^a
<1>1. /\ p \in {0, 1, 2, 3, 4, 5, 6, 7, 8, 9, 10}
      /\ (p = 0 => P = 1) /\ (p = 1 => P = 2) /\ (p = 2 => P = 4) /\ (p = 3 => P = 8)
      /\ (p = 4 => P = 16) /\ (p = 5 => P = 32) /\ (p = 6 => P = 64) /\ (p = 7 => P = 128)
      /\ (p = 8 => P = 256) /\ (p = 9 => P = 512) /\ (p = 10 => P = 1024)
  BY SMT, PowerValue
<1>2. /\ a \in {0, 1, 2, 3, 4, 5, 6, 7, 8, 9, 10}
      /\ (a = 0 => A = 1) /\ (a = 1 => A = 2) /\ (a = 2 => A = 4) /\ (a = 3 => A = 8)
      /\ (a = 4 => A = 16) /\ (a = 5 => A = 32) /\ (a = 6 => A = 64) /\ (a = 7 => A = 128)
      /\ (a = 8 => A = 256) /\ (a = 9 => A = 512) /\ (a = 10 => A = 1024)
  BY SMT, PowerValue
<1> HIDE DEF P, A
<1>3. 2 * P <= A
  BY SMT, <1>1, <1>2
<1> QED  BY SMT, <1>3 DEF P, A

LEMMA Product ==
  ASSUME NEW x \in Int, NEW y \in Int, NEW c \in Int, x <= y, 0 <= c
  PROVE  x * c <= y * c
BY SMT

-----------------------------------------------------------------------------
(* Where the floats half-way between two halves are.                       *)

LEMMA LeadingIs ==
  ASSUME NEW s, \E n \in 0 .. 11 : 2^n <= s /\ s < 2 * 2^n
  PROVE  Leading(s) \in 0 .. 11 /\ 2^Leading(s) <= s /\ s < 2 * 2^Leading(s)
BY Zenon DEF Leading

LEMMA LeadingSmall ==
  ASSUME NEW s \in Int, 1 <= s, s <= 2047
  PROVE  IsPlace(Leading(s)) /\ 2^Leading(s) <= s /\ s < 2 * 2^Leading(s)
<1> DEFINE p == Leading(s)
<1>1. \E n \in 0 .. 11 : 2^n <= s /\ s < 2 * 2^n
  BY SMT
<1>2. p \in 0 .. 11 /\ 2^p <= s /\ s < 2 * 2^p
  BY SMT, <1>1, LeadingIs
<1> HIDE DEF p
<1>3. p # 11
  <2>1. ASSUME p = 11 PROVE 2^p = 2048
    BY SMT, <2>1
  <2> QED  BY SMT, <1>2, <2>1
<1>4. IsPlace(p)
  BY SMT, <1>2, <1>3 DEF IsPlace
<1> QED  BY SMT, <1>2, <1>4 DEF p

LEMMA LeadingLarge ==
  ASSUME NEW s \in Int, 2049 <= s, s <= 4095
  PROVE  Leading(s) = 11
<1> DEFINE p == Leading(s)
<1>1. \E n \in 0 .. 11 : 2^n <= s /\ s < 2 * 2^n
  BY SMT
<1>2. p \in 0 .. 11 /\ 2^p <= s /\ s < 2 * 2^p
  BY SMT, <1>1, LeadingIs
<1> HIDE DEF p
<1>3. ASSUME IsPlace(p) PROVE FALSE
  BY SMT, <1>2, <1>3, PowerTable
<1>4. p = 11
  BY SMT, <1>2, <1>3 DEF IsPlace
<1> QED  BY SMT, <1>4 DEF p

\* Behind a normal number of exponent e and mantissa k.
IsNormal(h, e, k) ==
  /\ e \in Int /\ 1 <= e /\ e <= 30 /\ k \in Int /\ 0 <= k /\ k <= 1023
  /\ h = e * 1024 + k

LEMMA MidpointNormal ==
  ASSUME NEW h, NEW e, NEW k, IsNormal(h, e, k)
  PROVE  Midpoint(h) = (e + 112) * 8388608 + (2 * k + 1) * 4096
<1> DEFINE s == 2049 + 2 * k
<1>1. /\ h \in Int /\ ~(h < Man16) /\ h % Man16 = k /\ h \div Man16 = e
      /\ e \in Int /\ k \in Int /\ 0 <= k /\ k <= 1023
  BY SMT DEF Man16, IsNormal
<1>2. Leading(s) = 11 /\ s \in Int
  BY SMT, <1>1, LeadingLarge
<1>3. 2 * Significand(h) + 1 = s /\ Scale(h) = e
  BY SMT, <1>1 DEF Significand, Scale, Man16
<1> HIDE DEF s
<1> DEFINE p == Leading(s)
<1>4. Midpoint(h) = (127 + e - 26 + p) * Man32 + (s - 2^p) * 2^(23 - p)
  BY SMT, <1>3 DEF Midpoint
<1>5. Midpoint(h) = (127 + e - 26 + 11) * 8388608 + (s - 2048) * 4096
  <2>1. p = 11 /\ Man32 = 8388608
    BY SMT, <1>2 DEF Man32
  <2> HIDE DEF p
  <2>2. 2^p = 2048 /\ 2^(23 - p) = 4096
    BY SMT, <2>1
  <2> QED  BY SMT, <1>4, <2>1, <2>2
<1>6. (127 + e - 26 + 11) * 8388608 + (s - 2048) * 4096
        = (e + 112) * 8388608 + (2 * k + 1) * 4096
  BY SMT, <1>1 DEF s
<1> QED  BY SMT, <1>5, <1>6

\* Behind zero or a subnormal.
LEMMA MidpointSubnormal ==
  ASSUME NEW h \in Int, 0 <= h, h <= 1023
  PROVE  \E p \in Int, t \in Int :
           /\ IsPlace(p) /\ 2^p <= 2 * h + 1 /\ 2 * h + 1 < 2 * 2^p
           /\ t = (2 * h + 1) * 2^(23 - p) /\ 8388608 <= t /\ t < 16777216
           /\ Midpoint(h) = (101 + p) * 8388608 + t
<1> DEFINE s == 2 * h + 1
           p == Leading(s)
           t == s * 2^(23 - p)
<1>1. s \in Int /\ 1 <= s /\ s <= 2047
  BY SMT
<1>2. h < Man16 /\ Man32 = 8388608
  BY SMT DEF Man16, Man32
<1> HIDE DEF s
<1>3. IsPlace(p) /\ 2^p <= s /\ s < 2 * 2^p
  BY SMT, <1>1, LeadingSmall
<1>4. 2 * Significand(h) + 1 = s /\ Scale(h) = 1
  BY SMT, <1>2 DEF Significand, Scale, s
<1>5. Midpoint(h) = (127 + 1 - 26 + p) * Man32 + (s - 2^p) * 2^(23 - p)
  BY SMT, <1>4 DEF Midpoint
<1> HIDE DEF p
<1>6. /\ p \in Int /\ 2^p \in Int /\ 1 <= 2^p /\ 2^(23 - p) \in Int /\ 1 <= 2^(23 - p)
      /\ 2^p * 2^(23 - p) = 8388608
  BY SMT, <1>3, PowerTable
<1>7. (s - 2^p) * 2^(23 - p) = s * 2^(23 - p) - 2^p * 2^(23 - p)
  BY SMT, <1>1, <1>6
<1>8. Midpoint(h) = (101 + p) * 8388608 + t /\ t \in Int
  BY SMT, <1>1, <1>2, <1>5, <1>6, <1>7
<1>9. 8388608 <= t /\ t < 16777216
  <2>1. 2^p * 2^(23 - p) <= s * 2^(23 - p)
    BY SMT, <1>1, <1>3, <1>6, Product
  <2>2. (s + 1) * 2^(23 - p) <= (2 * 2^p) * 2^(23 - p)
    BY SMT, <1>1, <1>3, <1>6, Product
  <2>3. (s + 1) * 2^(23 - p) = s * 2^(23 - p) + 2^(23 - p)
    BY SMT, <1>1, <1>6
  <2>4. (2 * 2^p) * 2^(23 - p) = 2 * (2^p * 2^(23 - p))
    BY SMT, <1>6
  <2> QED  BY SMT, <1>1, <1>6, <2>1, <2>2, <2>3, <2>4
<1> QED  BY SMT, <1>3, <1>6, <1>8, <1>9 DEF s

\* A float of exponent 102 + a against a midpoint below 1024, by the integers
\* that stand for both.
LEMMA AgainstMidpoint ==
  ASSUME NEW a, IsPlace(a), NEW v \in Int, 8388608 <= v, v < 16777216,
         NEW h \in Int, 0 <= h, h <= 1023
  PROVE  LET c == (2 * h + 1) * 2^(23 - a)
             x == (101 + a) * 8388608 + v
         IN  /\ v < c => x < Midpoint(h)
             /\ v = c => x = Midpoint(h)
             /\ c < v => Midpoint(h) < x
<1> DEFINE s == 2 * h + 1
           c == s * 2^(23 - a)
           x == (101 + a) * 8388608 + v
<1>1. PICK p \in Int, t \in Int :
        /\ IsPlace(p) /\ 2^p <= s /\ s < 2 * 2^p
        /\ t = s * 2^(23 - p) /\ 8388608 <= t /\ t < 16777216
        /\ Midpoint(h) = (101 + p) * 8388608 + t
  BY SMT, MidpointSubnormal
<1>2. s \in Int
  BY SMT
<1>3. /\ a \in Int /\ 2^a \in Int /\ 2^(23 - a) \in Int /\ 1 <= 2^(23 - a)
      /\ 2^a * 2^(23 - a) = 8388608
  BY SMT, PowerTable
<1> HIDE DEF s
<1>4. c \in Int
  BY SMT, <1>2, <1>3
<1>5. 2^p \in Int
  BY SMT, <1>1, PowerTable
<1>6. CASE p = a
  <2>1. c = t
    BY SMT, <1>1, <1>6
  <2> HIDE DEF c
  <2>2. x = Midpoint(h) - t + v
    BY SMT, <1>1, <1>3, <1>6
  <2> QED  BY SMT, <1>1, <1>3, <1>4, <2>1, <2>2 DEF c, s
<1>7. CASE p < a
  <2>1. s + 1 <= 2^a
    <3>1. 2 * 2^p <= 2^a
      BY SMT, <1>1, <1>7, PowerOrder
    <3> QED  BY SMT, <1>1, <1>2, <1>3, <1>5, <3>1
  <2>2. (s + 1) * 2^(23 - a) <= 2^a * 2^(23 - a)
    BY SMT, <1>2, <1>3, <2>1, Product
  <2>3. (s + 1) * 2^(23 - a) = c + 2^(23 - a)
    BY SMT, <1>2, <1>3
  <2> HIDE DEF c
  <2>4. c < v
    BY SMT, <1>3, <1>4, <2>2, <2>3
  <2>5. Midpoint(h) < x
    BY SMT, <1>1, <1>3, <1>7
  <2> QED  BY SMT, <1>4, <2>4, <2>5 DEF c, s
<1>8. CASE a < p
  <2>1. 2 * 2^a <= s
    <3>1. 2 * 2^a <= 2^p
      BY SMT, <1>1, <1>8, PowerOrder
    <3> QED  BY SMT, <1>1, <1>2, <1>3, <1>5, <3>1
  <2>2. (2 * 2^a) * 2^(23 - a) <= c
    BY SMT, <1>2, <1>3, <2>1, Product
  <2>3. (2 * 2^a) * 2^(23 - a) = 16777216
    BY SMT, <1>3
  <2> HIDE DEF c
  <2>4. v < c
    BY SMT, <1>4, <2>2, <2>3
  <2>5. x < Midpoint(h)
    BY SMT, <1>1, <1>3, <1>8
  <2> QED  BY SMT, <1>4, <2>4, <2>5 DEF c, s
<1> QED  BY SMT, <1>1, <1>3, <1>6, <1>7, <1>8 DEF s

\* The result of rounding to a subnormal, or up to the least normal number.
LEMMA NearestSubnormal ==
  ASSUME NEW a, IsPlace(a), NEW v \in Int, 8388608 <= v, v < 16777216
  PROVE  /\ Rounded(v, 2^(24 - a)) \in Int
         /\ 0 <= Rounded(v, 2^(24 - a)) /\ Rounded(v, 2^(24 - a)) <= 1024
         /\ IsNearestHalf(Rounded(v, 2^(24 - a)), (101 + a) * 8388608 + v)
<1> DEFINE b == 2^(23 - a)
           r == Rounded(v, 2^(24 - a))
           x == (101 + a) * 8388608 + v
<1>1. /\ a \in Int /\ 0 <= a /\ a <= 10 /\ 2^a \in Int /\ 2^a <= 1024 /\ b \in Int /\ 1 <= b
      /\ 2^a * b = 8388608 /\ 2^(24 - a) = 2 * b
  BY SMT, PowerTable
<1> HIDE DEF b
<1>2. RoundsTo(r, v, 2 * b) /\ 0 <= r
  BY SMT, <1>1, RoundedMeans
<1>3. (2 * b) \div 2 = b
  BY SMT, <1>1
<1> HIDE DEF r
<1>4. /\ r \in Int
      /\ r * (2 * b) - b < v \/ (r * (2 * b) - b = v /\ r % 2 = 0)
      /\ v < r * (2 * b) + b \/ (v = r * (2 * b) + b /\ r % 2 = 0)
  BY SMT, <1>2, <1>3 DEF RoundsTo
<1>5. r * (2 * b) - b = (2 * r - 1) * b /\ r * (2 * b) + b = (2 * r + 1) * b
  BY SMT, <1>1, <1>4
<1>6. r <= 1024
  <2>1. ASSUME 1025 <= r PROVE FALSE
    <3>1. 2049 * b <= (2 * r - 1) * b
      BY SMT, <1>1, <1>4, <2>1, Product
    <3>2. (2 * 2^a) * b <= 2048 * b
      BY SMT, <1>1, Product
    <3>3. (2 * 2^a) * b = 16777216
      BY SMT, <1>1
    <3>4. v < 2048 * b
      BY SMT, <1>1, <3>2, <3>3
    <3>5. 2048 * b < (2 * r - 1) * b
      BY SMT, <1>1, <1>4, <3>1
    <3>6. (2 * r - 1) * b <= v
      BY SMT, <1>1, <1>4, <1>5
    <3> QED  BY SMT, <1>1, <1>4, <3>4, <3>5, <3>6
  <2> QED  BY SMT, <1>4, <2>1
<1>7. /\ Inf16 \in Int /\ 1024 < Inf16
  BY SMT DEF Inf16, Man16
<1>8. r \in 0 .. Inf16
  BY SMT, <1>2, <1>4, <1>6, <1>7, Ranges
<1>9. ASSUME r > 0 PROVE Midpoint(r - 1) < x \/ (Midpoint(r - 1) = x /\ r % 2 = 0)
  <2>1. r - 1 \in Int /\ 0 <= r - 1 /\ r - 1 <= 1023 /\ 2 * (r - 1) + 1 = 2 * r - 1
    BY SMT, <1>4, <1>6, <1>9
  <2> DEFINE g == r - 1
             c == (2 * g + 1) * 2^(23 - a)
  <2>2. c = (2 * r - 1) * b
    BY SMT, <2>1 DEF b
  <2>3. (v < c => x < Midpoint(g)) /\ (v = c => x = Midpoint(g)) /\ (c < v => Midpoint(g) < x)
    BY SMT, <2>1, AgainstMidpoint
  <2> HIDE DEF c
  <2> QED  BY SMT, <1>4, <1>5, <2>2, <2>3
<1>10. x < Midpoint(r) \/ (x = Midpoint(r) /\ r % 2 = 0)
  <2>1. CASE r <= 1023
    <3> DEFINE c == (2 * r + 1) * 2^(23 - a)
    <3>1. c = (2 * r + 1) * b
      BY DEF b
    <3>2. (v < c => x < Midpoint(r)) /\ (v = c => x = Midpoint(r)) /\ (c < v => Midpoint(r) < x)
      BY SMT, <1>2, <1>4, <2>1, AgainstMidpoint
    <3> HIDE DEF c
    <3> QED  BY SMT, <1>4, <1>5, <3>1, <3>2
  <2>2. CASE r = 1024
    <3>1. IsNormal(r, 1, 0)
      BY SMT, <2>2 DEF IsNormal
    <3>2. Midpoint(r) = 113 * 8388608 + 4096
      BY SMT, <3>1, MidpointNormal
    <3> QED  BY SMT, <1>1, <3>2
  <2> QED  BY SMT, <1>4, <1>6, <2>1, <2>2
<1>11. IsNearestHalf(r, x)
  <2> HIDE DEF x
  <2> QED  BY SMT, <1>8, <1>9, <1>10 DEF IsNearestHalf
<1> QED  BY SMT, <1>2, <1>4, <1>6, <1>11 DEF r

\* The result of rounding to a normal number, or up to the next power or the
\* infinity.
LEMMA NearestNormal ==
  ASSUME NEW e \in Int, 1 <= e, e <= 30, NEW m \in Int, 0 <= m, m <= 8388607
  PROVE  /\ Rounded(m, 8192) \in Int /\ 0 <= Rounded(m, 8192) /\ Rounded(m, 8192) <= 1024
         /\ IsNearestHalf(e * 1024 + Rounded(m, 8192), (e + 112) * 8388608 + m)
<1> DEFINE r == Rounded(m, 8192)
           h == e * 1024 + r
           x == (e + 112) * 8388608 + m
<1>1. /\ r \in Int /\ 0 <= r /\ r <= 1024
      /\ r * 8192 - 4096 < m \/ (r * 8192 - 4096 = m /\ r % 2 = 0)
      /\ m < r * 8192 + 4096 \/ (m = r * 8192 + 4096 /\ r % 2 = 0)
  BY SMT DEF Rounded
<1> HIDE DEF r
<1>2. Inf16 \in Int /\ 31744 <= Inf16 /\ Inf16 <= 31744
  BY SMT DEF Inf16, Man16
<1>3. h \in 0 .. Inf16
  <2>1. h \in Int /\ 0 <= h /\ h <= 31744
    BY SMT, <1>1
  <2> HIDE DEF h
  <2> QED  BY SMT, <1>2, <2>1, Ranges
<1>4. h % 2 = r % 2
  BY SMT, <1>1
<1>5. Midpoint(h - 1) < x \/ (Midpoint(h - 1) = x /\ h % 2 = 0)
  <2>1. CASE 1 <= r
    <3>1. IsNormal(h - 1, e, r - 1)
      BY SMT, <1>1, <2>1 DEF IsNormal
    <3> DEFINE g == h - 1
               k == r - 1
    <3>2. k = r - 1 /\ k \in Int
      BY SMT, <1>1
    <3> HIDE DEF k, g
    <3>3. Midpoint(g) = (e + 112) * 8388608 + (2 * k + 1) * 4096
      BY SMT, <3>1, MidpointNormal DEF k, g
    <3>4. Midpoint(g) = (e + 112) * 8388608 + r * 8192 - 4096
      BY SMT, <1>1, <3>2, <3>3
    <3> QED  BY SMT, <1>1, <1>4, <3>4 DEF g
  <2>2. CASE r = 0 /\ 2 <= e
    <3> DEFINE g == h - 1
               f == e - 1
    <3>1. f = e - 1 /\ f \in Int /\ IsNormal(g, f, 1023)
      BY SMT, <1>1, <2>2 DEF IsNormal
    <3> HIDE DEF f, g
    <3>2. Midpoint(g) = (f + 112) * 8388608 + (2 * 1023 + 1) * 4096
      BY SMT, <3>1, MidpointNormal
    <3>3. Midpoint(g) < x
      BY SMT, <3>1, <3>2
    <3> QED  BY SMT, <3>3 DEF g
  <2>3. CASE r = 0 /\ e = 1
    <3> DEFINE g == h - 1
    <3>1. g = 1023
      BY SMT, <2>3
    <3> HIDE DEF g
    <3>2. g \in Int /\ 0 <= g /\ g <= 1023
      BY SMT, <3>1
    <3>3. PICK p \in Int, t \in Int :
            /\ IsPlace(p) /\ 2^p <= 2 * g + 1 /\ 2 * g + 1 < 2 * 2^p
            /\ t = (2 * g + 1) * 2^(23 - p) /\ 8388608 <= t /\ t < 16777216
            /\ Midpoint(g) = (101 + p) * 8388608 + t
      BY SMT, <3>2, MidpointSubnormal
    <3>4. p <= 10
      BY SMT, <3>3, PowerTable
    <3>5. Midpoint(g) < x
      BY SMT, <2>3, <3>3, <3>4
    <3> QED  BY SMT, <3>5 DEF g
  <2> QED  BY SMT, <1>1, <2>1, <2>2, <2>3
<1>6. ASSUME h < Inf16 PROVE x < Midpoint(h) \/ (x = Midpoint(h) /\ h % 2 = 0)
  <2>1. CASE r <= 1023
    <3>1. IsNormal(h, e, r)
      BY SMT, <1>1, <2>1 DEF IsNormal
    <3>2. Midpoint(h) = (e + 112) * 8388608 + (2 * r + 1) * 4096
      <4> HIDE DEF h
      <4> QED  BY SMT, <3>1, MidpointNormal
    <3> QED  BY SMT, <1>1, <1>4, <3>2
  <2>2. CASE r = 1024
    <3> DEFINE f == e + 1
    <3>1. f = e + 1 /\ f \in Int /\ f <= 30 /\ IsNormal(h, f, 0)
      BY SMT, <1>2, <1>6, <2>2 DEF IsNormal
    <3> HIDE DEF f
    <3>2. Midpoint(h) = (f + 112) * 8388608 + (2 * 0 + 1) * 4096
      <4> HIDE DEF h
      <4> QED  BY SMT, <3>1, MidpointNormal
    <3> QED  BY SMT, <3>1, <3>2
  <2> QED  BY SMT, <1>1, <2>1, <2>2
<1>7. IsNearestHalf(h, x)
  <2> HIDE DEF x, h
  <2> QED  BY SMT, <1>3, <1>5, <1>6 DEF IsNearestHalf
<1> QED  BY SMT, <1>1, <1>7 DEF r

\* fp32ToFp16 of any float: a half of its sign, NaN for NaN, else the nearest.
LEMMA HalfOfFloat ==
  ASSUME NEW f \in Floats
  PROVE  /\ Fp32ToFp16(f) \in Halves /\ Fp32ToFp16(f).sign = f.sign
         /\ IsNaN32(f) => IsNaN16(Fp32ToFp16(f))
         /\ ~IsNaN32(f) => IsNearestHalf(Fp32ToFp16(f).mag, f.mag)
<1> DEFINE s == f.sign
           x == f.mag
<1>1. PICK E \in Int, m \in Int : HasFields(f, s, E, m)
  BY SMT, Fields
<1>2. /\ 0 <= E /\ E <= 255 /\ 0 <= m /\ m <= 8388607 /\ x = E * 8388608 + m
      /\ s \in {0, 1}
  BY SMT, <1>1, FloatBits DEF HasFields
<1>3. Inf16 \in Int /\ 31744 <= Inf16 /\ Inf16 <= 31744 /\ Inf32 = 2139095040
  BY SMT DEF Inf16, Man16, Inf32, Man32
<1>4. IsNaN32(f) <=> E = 255 /\ m # 0
  BY SMT, <1>2, <1>3 DEF IsNaN32
<1> DEFINE Good(h) ==
      /\ h \in Halves /\ h.sign = s
      /\ IsNaN32(f) => IsNaN16(h)
      /\ ~IsNaN32(f) => IsNearestHalf(h.mag, x)
<1> HIDE DEF s, x
<1>5. ASSUME NEW y \in Int, 0 <= y, y <= 31744, ~IsNaN32(f), IsNearestHalf(y, x)
      PROVE  Good(Number(s, y))
  <2>1. Number(s, y) \in Halves
    BY SMT, <1>2, <1>5, MakeHalf
  <2> QED  BY SMT, <1>5, <2>1 DEF Number
<1>6. CASE E = 255 /\ m # 0
  <2>1. Fp32ToFp16(f) = Number(s, 31744 + Quiet(m \div 8192))
    BY SMT, <1>1, <1>6, ToHalf
  <2> DEFINE q == Quiet(m \div 8192)
  <2>2. q \in Int /\ 1 <= q /\ q <= 1023
    BY SMT, <1>2 DEF Quiet
  <2> HIDE DEF q
  <2>3. Number(s, 31744 + q) \in Halves
    BY SMT, <1>2, <2>2, MakeHalf
  <2>4. IsNaN16(Number(s, 31744 + q))
    BY SMT, <1>3, <2>2 DEF IsNaN16, Number
  <2>5. Number(s, 31744 + q).sign = s
    BY SMT DEF Number
  <2> QED  BY SMT, <1>4, <1>6, <2>1, <2>3, <2>4, <2>5 DEF q, s, x
<1>7. CASE 143 <= E /\ ~(E = 255 /\ m # 0)
  <2>1. Fp32ToFp16(f) = Number(s, 31744)
    BY SMT, <1>1, <1>2, <1>7, ToHalf
  <2> DEFINE y == 31744
             g == y - 1
  <2>2. y \in 0 .. Inf16
    <3>1. y \in Int /\ 0 <= y /\ y <= Inf16
      BY SMT, <1>3
    <3> HIDE DEF y
    <3> QED  BY SMT, <1>3, <3>1, Ranges
  <2>3. IsNormal(g, 30, 1023) /\ ~(y < Inf16)
    BY SMT, <1>3 DEF IsNormal
  <2> HIDE DEF g
  <2>4. Midpoint(g) = (30 + 112) * 8388608 + (2 * 1023 + 1) * 4096
    BY SMT, <2>3, MidpointNormal
  <2>5. Midpoint(g) < x
    BY SMT, <1>2, <1>7, <2>4
  <2>6. g = y - 1 /\ y \in Int /\ 0 <= y /\ y <= 31744
    BY SMT DEF g
  <2> HIDE DEF y
  <2>7. IsNearestHalf(y, x)
    BY SMT, <2>2, <2>3, <2>5, <2>6 DEF IsNearestHalf
  <2>8. Good(Number(s, y))
    <3> HIDE DEF Good
    <3> QED  BY SMT, <1>4, <1>5, <1>7, <2>6, <2>7
  <2> QED  BY SMT, <2>1, <2>8 DEF s, x, y
<1>8. CASE 113 <= E /\ E <= 142
  <2> DEFINE e == E - 112
             r == Rounded(m, 8192)
  <2>1. e \in Int /\ 1 <= e /\ e <= 30 /\ e + 112 = E
    BY SMT, <1>2, <1>8
  <2>2. Fp32ToFp16(f) = Number(s, e * 1024 + r)
    BY SMT, <1>1, <1>8, ToHalf
  <2> HIDE DEF e
  <2>3. r \in Int /\ 0 <= r /\ r <= 1024 /\ IsNearestHalf(e * 1024 + r, (e + 112) * 8388608 + m)
    BY SMT, <1>2, <2>1, NearestNormal
  <2> HIDE DEF r
  <2> DEFINE y == e * 1024 + r
  <2>4. y \in Int /\ 0 <= y /\ y <= 31744
    BY SMT, <2>1, <2>3
  <2>5. IsNearestHalf(y, x)
    BY SMT, <1>2, <2>1, <2>3
  <2> HIDE DEF y
  <2>6. Good(Number(s, y))
    <3> HIDE DEF Good
    <3>1. ~IsNaN32(f)
      BY SMT, <1>4, <1>8
    <3> QED  BY SMT, <1>5, <2>4, <2>5, <3>1
  <2> QED  BY SMT, <2>2, <2>6 DEF s, x, y
<1>9. CASE 102 <= E /\ E <= 112
  <2> DEFINE a == E - 102
             v == m + 8388608
             y == Rounded(v, 2^(24 - a))
  <2>1. /\ IsPlace(a) /\ a \in Int /\ 24 - a = 126 - E
        /\ v \in Int /\ 8388608 <= v /\ v < 16777216 /\ (101 + a) * 8388608 + v = x
    BY SMT, <1>2, <1>9 DEF IsPlace
  <2>2. Fp32ToFp16(f) = Number(s, Rounded(v, 2^(126 - E)))
    BY SMT, <1>1, <1>9, ToHalf
  <2> HIDE DEF a, v
  <2>3. Fp32ToFp16(f) = Number(s, y)
    BY SMT, <2>1, <2>2
  <2>4. y \in Int /\ 0 <= y /\ y <= 1024 /\ IsNearestHalf(y, (101 + a) * 8388608 + v)
    BY SMT, <2>1, NearestSubnormal
  <2> HIDE DEF y
  <2>5. Good(Number(s, y))
    <3> HIDE DEF Good
    <3>1. ~IsNaN32(f) /\ IsNearestHalf(y, x) /\ y <= 31744
      BY SMT, <1>4, <1>9, <2>1, <2>4
    <3> QED  BY SMT, <1>5, <2>4, <3>1
  <2> QED  BY SMT, <2>3, <2>5 DEF s, x
<1>10. CASE E <= 101
  <2>1. Fp32ToFp16(f) = Number(s, 0)
    BY SMT, <1>1, <1>10, ToHalf
  <2> DEFINE y == 0
  <2>2. y \in 0 .. Inf16 /\ ~(y > 0) /\ y % 2 = 0
    BY SMT, <1>3, Ranges
  <2>3. PICK p \in Int, t \in Int :
          /\ IsPlace(p) /\ 2^p <= 2 * y + 1 /\ 2 * y + 1 < 2 * 2^p
          /\ t = (2 * y + 1) * 2^(23 - p) /\ 8388608 <= t /\ t < 16777216
          /\ Midpoint(y) = (101 + p) * 8388608 + t
    BY SMT, MidpointSubnormal
  <2>4. 0 <= p
    BY SMT, <2>3, PowerTable
  <2>5. x < Midpoint(y)
    BY SMT, <1>2, <1>10, <2>3, <2>4
  <2> HIDE DEF y
  <2>6. IsNearestHalf(y, x)
    BY SMT, <2>2, <2>5 DEF IsNearestHalf
  <2>7. Good(Number(s, y))
    <3> HIDE DEF Good
    <3>1. y \in Int /\ 0 <= y /\ y <= 31744
      BY SMT DEF y
    <3>2. ~IsNaN32(f)
      BY SMT, <1>4, <1>10
    <3> QED  BY SMT, <1>5, <2>6, <3>1, <3>2
  <2> QED  BY SMT, <2>1, <2>7 DEF s, x, y
<1> QED  BY SMT, <1>2, <1>6, <1>7, <1>8, <1>9, <1>10 DEF s, x

\* fp16ToFp32 of any half: a float, NaN for NaN only.
LEMMA FloatOfHalf ==
  ASSUME NEW h \in Halves
  PROVE  Fp16ToFp32(h) \in Floats /\ (IsNaN32(Fp16ToFp32(h)) <=> IsNaN16(h))
<1>1. CASE ~IsNaN16(h)
  BY SMT, <1>1, RoundTrip
<1>2. CASE IsNaN16(h)
  <2> DEFINE m == h.mag - 31744
             f == Fp16ToFp32(h)
  <2>1. h.mag = 31 * 1024 + m /\ m \in Int /\ 1 <= m /\ m <= 1023 /\ h.sign \in {0, 1}
    BY SMT, <1>2, HalfBits DEF IsNaN16, Inf16, Man16
  <2> HIDE DEF m
  <2>2. f = Number(h.sign, 2139095040 + m * 8192)
    BY SMT, <2>1, Normal
  <2>3. /\ 2139095040 + m * 8192 \in Int /\ 0 <= 2139095040 + m * 8192
        /\ 2139095040 + m * 8192 <= 2147483647
    BY SMT, <2>1
  <2> HIDE DEF f
  <2>4. f \in Floats
    BY SMT, <2>1, <2>2, <2>3, MakeFloat
  <2>5. IsNaN32(f)
    BY SMT, <2>1, <2>2 DEF Number, IsNaN32, Inf32, Man32
  <2> QED  BY SMT, <1>2, <2>4, <2>5 DEF f
<1> QED  BY SMT, <1>1, <1>2

-----------------------------------------------------------------------------
(* The reductions of a sequence of floats.                                 *)

\* reduceMax returns an operand, the larger, +0 before -0, or NaN for NaN.
LEMMA MaxOfTwo ==
  ASSUME NEW a \in Floats, NEW b \in Floats
  PROVE  /\ ReduceMax(a, b) \in Floats
         /\ IsNaN32(ReduceMax(a, b)) <=> IsNaN32(a) \/ IsNaN32(b)
         /\ ~IsNaN32(ReduceMax(a, b)) =>
              /\ ReduceMax(a, b) \in {a, b}
              /\ Key(a) <= Key(ReduceMax(a, b)) /\ Key(b) <= Key(ReduceMax(a, b))
              /\ Key(a) = Key(ReduceMax(a, b)) \/ ReduceMax(a, b) = b
              /\ a = Number(0, 0) \/ b = Number(0, 0) => ReduceMax(a, b) # Number(1, 0)
<1>1. /\ a.mag \in Int /\ 0 <= a.mag /\ a.sign \in {0, 1} /\ Key(a) \in Int
      /\ b.mag \in Int /\ 0 <= b.mag /\ b.sign \in {0, 1} /\ Key(b) \in Int
  BY SMT, FloatBits DEF Key
<1>2. QuietNaN \in Floats /\ IsNaN32(QuietNaN)
  <2>1. Inf32 + 4194304 \in Int /\ 0 <= Inf32 + 4194304 /\ Inf32 + 4194304 <= 2147483647
    BY SMT DEF Inf32, Man32
  <2>2. QuietNaN \in Floats
    BY SMT, <2>1, MakeFloat DEF QuietNaN
  <2> QED  BY SMT, <2>2 DEF QuietNaN, Number, IsNaN32, Inf32, Man32
<1>3. CASE IsNaN32(a) \/ IsNaN32(b)
  BY SMT, <1>2, <1>3 DEF ReduceMax
<1>4. CASE ~(IsNaN32(a) \/ IsNaN32(b))
  <2>1. Number(0, 0).sign = 0 /\ Number(1, 0).sign = 1 /\ Number(0, 0).mag = 0 /\ Number(1, 0).mag = 0
    BY SMT DEF Number
  <2> QED  BY SMT, <1>1, <1>4, <2>1 DEF ReduceMax, Greater, Key
<1> QED  BY SMT, <1>3, <1>4

\* m is the maximum of the first n floats of e, k the place of the first one.
LargestOf(e, n, m) ==
  IF \E i \in 1 .. n : IsNaN32(e[i]) THEN IsNaN32(m)
  ELSE /\ \E i \in 1 .. n : e[i] = m
       /\ \A i \in 1 .. n : /\ Key(e[i]) <= Key(m)
                            /\ e[i] = Number(0, 0) => m # Number(1, 0)

HasValue(x, m) == IF IsNaN32(m) THEN IsNaN32(x) ELSE Equal(x, m)

FirstOf(e, n, m, k) ==
  /\ k \in 0 .. n - 1
  /\ HasValue(e[k + 1], m)
  /\ \A i \in 1 .. k : ~HasValue(e[i], m)

LEMMA LargestStep ==
  ASSUME NEW N \in Nat, NEW e \in [1 .. N -> Floats], NEW n \in Nat, 1 <= n, n < N,
         NEW m \in Floats, LargestOf(e, n, m)
  PROVE  LargestOf(e, n + 1, ReduceMax(m, e[n + 1]))
<1> DEFINE b == e[n + 1]
           M == ReduceMax(m, b)
<1>1. b \in Floats /\ \A i \in 1 .. n : e[i] \in Floats
  BY SMT
<1>2. \A i \in 1 .. n : Key(e[i]) \in Int
  BY SMT, <1>1, FloatBits DEF Key
<1>3. Key(m) \in Int
  BY SMT, FloatBits DEF Key
<1>4. /\ M \in Floats
      /\ IsNaN32(M) <=> IsNaN32(m) \/ IsNaN32(b)
      /\ ~IsNaN32(M) =>
           /\ M \in {m, b} /\ Key(m) <= Key(M) /\ Key(b) <= Key(M)
           /\ m = Number(0, 0) \/ b = Number(0, 0) => M # Number(1, 0)
  BY SMT, <1>1, MaxOfTwo
<1> HIDE DEF M
<1>5. Key(M) \in Int
  BY SMT, <1>4, FloatBits DEF Key
<1>6. \A i \in 1 .. n + 1 : i \in 1 .. n \/ i = n + 1
  BY SMT
<1>7. 1 .. n \subseteq 1 .. n + 1 /\ n + 1 \in 1 .. n + 1
  BY SMT
<1>8. CASE \E i \in 1 .. n : IsNaN32(e[i])
  BY SMT, <1>4, <1>7, <1>8 DEF LargestOf, M
<1>9. CASE ~(\E i \in 1 .. n : IsNaN32(e[i])) /\ IsNaN32(b)
  BY SMT, <1>4, <1>7, <1>9 DEF LargestOf, M
<1>10. CASE ~(\E i \in 1 .. n : IsNaN32(e[i])) /\ ~IsNaN32(b)
  <2>1. /\ \E i \in 1 .. n : e[i] = m
        /\ \A i \in 1 .. n : /\ Key(e[i]) <= Key(m)
                             /\ e[i] = Number(0, 0) => m # Number(1, 0)
    BY SMT, <1>10 DEF LargestOf
  <2>2. ~IsNaN32(m) /\ ~IsNaN32(M)
    BY SMT, <1>4, <1>10, <2>1
  <2>3. \E i \in 1 .. n + 1 : e[i] = M
    BY SMT, <1>4, <1>7, <2>1, <2>2
  <2>4. \A i \in 1 .. n + 1 : Key(e[i]) <= Key(M)
    BY SMT, <1>2, <1>3, <1>4, <1>5, <1>6, <2>1, <2>2
  <2>5. ASSUME NEW i \in 1 .. n, e[i] = Number(0, 0), M = Number(1, 0) PROVE FALSE
    <3>1. Key(e[i]) = 0 /\ Key(M) = 0
      <4>1. /\ Number(0, 0).sign = 0 /\ Number(0, 0).mag = 0
            /\ Number(1, 0).sign = 1 /\ Number(1, 0).mag = 0
        BY SMT DEF Number
      <4>2. Key(Number(0, 0)) = 0 /\ Key(Number(1, 0)) = 0
        BY SMT, <4>1 DEF Key
      <4> QED  BY SMT, <2>5, <4>2
    <3>2. Key(m) = 0
      BY SMT, <1>2, <1>3, <1>4, <2>1, <2>2, <2>5, <3>1
    <3>3. m.mag = 0 /\ m.sign \in {0, 1}
      BY SMT, <3>2, FloatBits DEF Key
    <3>4. m = Number(m.sign, m.mag)
      BY SMT DEF Number, Floats
    <3>5. m = Number(0, 0) \/ m = Number(1, 0)
      BY SMT, <3>3, <3>4
    <3> QED  BY SMT, <1>4, <2>1, <2>2, <2>5, <3>5
  <2>6. \A i \in 1 .. n + 1 : e[i] = Number(0, 0) => M # Number(1, 0)
    BY SMT, <1>4, <1>6, <2>2, <2>5
  <2>7. ~(\E i \in 1 .. n + 1 : IsNaN32(e[i]))
    BY SMT, <1>6, <1>10
  <2> QED  BY Zenon, <2>3, <2>4, <2>6, <2>7 DEF LargestOf, M
<1> QED  BY <1>8, <1>9, <1>10

LEMMA FirstStep ==
  ASSUME NEW N \in Nat, NEW e \in [1 .. N -> Floats], NEW n \in Nat, 1 <= n, n < N,
         NEW m \in Floats, NEW k, LargestOf(e, n, m), FirstOf(e, n, m, k)
  PROVE  FirstOf(e, n + 1, ReduceMax(m, e[n + 1]),
                 ReduceArgmax([value |-> m, index |-> k],
                              [value |-> e[n + 1], index |-> n]).index)
<1> DEFINE b == e[n + 1]
           M == ReduceMax(m, b)
           K == IF IsNaN32(M) THEN IF IsNaN32(m) THEN k ELSE n
                ELSE IF Equal(m, M) THEN k ELSE n
<1>1. ReduceArgmax([value |-> m, index |-> k], [value |-> b, index |-> n]).index = K
  BY SMT DEF ReduceArgmax
<1>2. b \in Floats /\ \A i \in 1 .. n : e[i] \in Floats
  BY SMT
<1>3. Key(m) \in Int /\ Key(b) \in Int /\ \A i \in 1 .. n : Key(e[i]) \in Int
  BY SMT, <1>2, FloatBits DEF Key
<1>4. /\ M \in Floats
      /\ IsNaN32(M) <=> IsNaN32(m) \/ IsNaN32(b)
      /\ ~IsNaN32(M) =>
           /\ M \in {m, b} /\ Key(m) <= Key(M) /\ Key(b) <= Key(M)
           /\ Key(m) = Key(M) \/ M = b
  BY SMT, <1>2, MaxOfTwo
<1> HIDE DEF M
<1>5. Key(M) \in Int
  BY SMT, <1>4, FloatBits DEF Key
<1>6. k \in Int /\ 0 <= k /\ k <= n - 1 /\ k + 1 \in 1 .. n /\ 1 .. k \subseteq 1 .. n
  BY SMT DEF FirstOf
<1>7. HasValue(e[k + 1], m) /\ \A i \in 1 .. k : ~HasValue(e[i], m)
  BY DEF FirstOf
<1>8. CASE IsNaN32(m)
  <2>1. IsNaN32(M) /\ K = k
    BY SMT, <1>4, <1>8
  <2>2. HasValue(e[k + 1], M) /\ \A i \in 1 .. k : ~HasValue(e[i], M)
    BY SMT, <1>7, <1>8, <2>1 DEF HasValue
  <2> QED  BY SMT, <1>1, <1>6, <2>1, <2>2 DEF FirstOf, M
<1>9. CASE ~IsNaN32(m) /\ IsNaN32(b)
  <2>1. IsNaN32(M) /\ K = n
    BY SMT, <1>4, <1>9
  <2>2. \A i \in 1 .. n : ~IsNaN32(e[i])
    BY SMT, <1>9 DEF LargestOf
  <2>3. HasValue(e[n + 1], M) /\ \A i \in 1 .. n : ~HasValue(e[i], M)
    BY SMT, <1>9, <2>1, <2>2 DEF HasValue
  <2> QED  BY SMT, <1>1, <2>1, <2>3 DEF FirstOf, M
<1>10. CASE ~IsNaN32(m) /\ ~IsNaN32(b) /\ Key(m) = Key(M)
  <2>1. ~IsNaN32(M) /\ Equal(m, M) /\ K = k
    BY SMT, <1>4, <1>10 DEF Equal
  <2>2. \A i \in 1 .. n : HasValue(e[i], M) <=> HasValue(e[i], m)
    BY SMT, <1>3, <1>5, <1>10, <2>1 DEF HasValue, Equal
  <2>3. HasValue(e[k + 1], M) /\ \A i \in 1 .. k : ~HasValue(e[i], M)
    BY SMT, <1>6, <1>7, <2>2
  <2> QED  BY SMT, <1>1, <1>6, <2>1, <2>3 DEF FirstOf, M
<1>11. CASE ~IsNaN32(m) /\ ~IsNaN32(b) /\ Key(m) # Key(M)
  <2>1. ~IsNaN32(M) /\ M = b /\ ~Equal(m, M) /\ K = n /\ Key(m) < Key(M)
    BY SMT, <1>3, <1>4, <1>5, <1>11 DEF Equal
  <2>2. \A i \in 1 .. n : ~IsNaN32(e[i]) /\ Key(e[i]) <= Key(m)
    BY SMT, <1>11 DEF LargestOf
  <2>3. \A i \in 1 .. n : ~HasValue(e[i], M)
    BY SMT, <1>3, <1>5, <2>1, <2>2 DEF HasValue, Equal
  <2>4. HasValue(e[n + 1], M)
    BY SMT, <1>11, <2>1 DEF HasValue, Equal
  <2> QED  BY SMT, <1>1, <2>1, <2>3, <2>4 DEF FirstOf, M
<1> QED  BY SMT, <1>8, <1>9, <1>10, <1>11

-----------------------------------------------------------------------------
(* The specification.                                                      *)

\* What the rows and the variables are made of, and the two facts the
\* properties need beside themselves: row holds the results rounded, and
\* nothing is read before everything is stored.
RowsTyped ==
  /\ input \in Seq(Floats) /\ Len(input) \in Nat /\ 1 <= Len(input)
  /\ row \in Seq(Halves) /\ Len(row) \in Nat /\ Len(row) <= Len(input)
  /\ j \in Nat /\ j <= Len(row)
  /\ max \in Floats /\ arg = [value |-> arg.value, index |-> arg.index]

RowsRounded ==
  /\ \A i \in 1 .. Len(row) : row[i] = Fp32ToFp16(input[i])
  /\ j > 0 => Stored

Elements == [i \in 1 .. Len(row) |-> Element(i)]

ReductionsDone ==
  j > 0 => /\ LargestOf(Elements, j, max)
           /\ arg.value = max /\ FirstOf(Elements, j, max, arg.index)

ResultsDone ==
  \A r \in out : /\ j = Len(row) /\ j > 0
                 /\ r.max = Fp32ToFp16(max) /\ r.value = Fp32ToFp16(max)

IInv == RowsTyped /\ RowsRounded /\ ReductionsDone /\ ResultsDone

LEMMA ElementsTyped ==
  ASSUME RowsTyped
  PROVE  /\ Elements \in [1 .. Len(row) -> Floats]
         /\ \A i \in 1 .. Len(row) : Elements[i] = Element(i) /\ row[i] \in Halves
<1>1. \A i \in 1 .. Len(row) : row[i] \in Halves
  BY SMT DEF RowsTyped
<1>2. \A i \in 1 .. Len(row) : Element(i) \in Floats
  BY SMT, <1>1, FloatOfHalf DEF Element
<1> QED  BY SMT, <1>1, <1>2 DEF Elements

LEMMA ReductionInit == RInit => IInv
<1> SUFFICES ASSUME RInit PROVE IInv
  OBVIOUS
<1>1. input \in Seq(Floats) /\ input # <<>>
  BY SMT, RowsAssumption DEF RInit
<1>2. Len(input) \in Nat /\ 1 <= Len(input)
  BY SMT, <1>1
<1>3. row = <<>> /\ Len(row) = 0 /\ row \in Seq(Halves)
  BY SMT DEF RInit
<1>4. QuietNaN \in Floats
  <2>1. Inf32 + 4194304 \in Int /\ 0 <= Inf32 + 4194304 /\ Inf32 + 4194304 <= 2147483647
    BY SMT DEF Inf32, Man32
  <2> QED  BY SMT, <2>1, MakeFloat DEF QuietNaN
<1>5. RowsTyped
  BY SMT, <1>1, <1>2, <1>3, <1>4 DEF RowsTyped, RInit
<1>6. RowsRounded /\ ReductionsDone
  BY SMT, <1>3 DEF RowsRounded, ReductionsDone, RInit
<1>7. ResultsDone
  BY SMT DEF ResultsDone, RInit
<1> QED  BY <1>5, <1>6, <1>7 DEF IInv

LEMMA ReductionStep == IInv /\ [RNext]_reductionVars => IInv'
<1> SUFFICES ASSUME IInv, [RNext]_reductionVars PROVE IInv'
  OBVIOUS
<1> USE DEF IInv
<1>1. CASE StoreElement
  <2> DEFINE n == Len(row) + 1
             h == Fp32ToFp16(input[n])
  <2>1. n \in 1 .. Len(input) /\ input[n] \in Floats /\ h \in Halves
    <3>1. n \in 1 .. Len(input) /\ input[n] \in Floats
      BY SMT, <1>1 DEF StoreElement, RowsTyped
    <3> QED  BY SMT, <3>1, HalfOfFloat
  <2>2. /\ row' = Append(row, h) /\ j' = j /\ max' = max /\ arg' = arg /\ out' = out
        /\ input' = input /\ j = 0
    BY SMT, <1>1 DEF StoreElement, RowsRounded, RowsTyped, Stored
  <2> HIDE DEF h
  <2>3. /\ row' \in Seq(Halves) /\ Len(row') = n /\ row'[n] = h
        /\ \A i \in 1 .. Len(row) : row'[i] = row[i]
    BY SMT, <2>1, <2>2 DEF RowsTyped
  <2>4. \A i \in 1 .. n : i \in 1 .. Len(row) \/ i = n
    BY SMT DEF RowsTyped
  <2>5. RowsTyped'
    BY SMT, <2>1, <2>2, <2>3 DEF RowsTyped
  <2>6. RowsRounded'
    BY SMT, <2>2, <2>3, <2>4 DEF RowsRounded, h
  <2>7. ReductionsDone'
    BY SMT, <2>2 DEF ReductionsDone
  <2>8. ResultsDone'
    BY SMT, <2>2 DEF ResultsDone
  <2> QED  BY <2>5, <2>6, <2>7, <2>8
<1>2. CASE ReadFirst
  <2>1. /\ j' = 1 /\ j = 0 /\ row' = row /\ input' = input /\ out' = out /\ Stored
        /\ max' = Element(1) /\ arg' = [value |-> Element(1), index |-> 0]
    BY <1>2 DEF ReadFirst
  <2>2. 1 \in 1 .. Len(row) /\ 1 <= Len(row)
    BY SMT, <2>1 DEF RowsTyped, Stored
  <2>3. Element(1) \in Floats /\ Elements[1] = Element(1)
    BY SMT, <2>2, ElementsTyped
  <2>4. RowsTyped'
    BY SMT, <2>1, <2>2, <2>3 DEF RowsTyped
  <2>5. RowsRounded'
    BY SMT, <2>1 DEF RowsRounded, Stored
  <2>6. Elements' = Elements
    BY SMT, <2>1 DEF Elements, Element
  <2>7. LargestOf(Elements, 1, Element(1))
    <3>1. \A i \in 1 .. 1 : i = 1
      BY SMT
    <3>2. Key(Element(1)) \in Int
      BY SMT, <2>3, FloatBits DEF Key
    <3>3. Number(0, 0) # Number(1, 0)
      BY SMT DEF Number
    <3> QED  BY SMT, <2>3, <3>1, <3>2, <3>3 DEF LargestOf
  <2>8. FirstOf(Elements, 1, Element(1), 0)
    BY SMT, <2>3 DEF FirstOf, HasValue, Equal
  <2>9. ReductionsDone'
    BY SMT, <2>1, <2>6, <2>7, <2>8 DEF ReductionsDone
  <2>10. ResultsDone'
    BY SMT, <2>1 DEF ResultsDone
  <2> QED  BY <2>4, <2>5, <2>9, <2>10
<1>3. CASE ReadNext
  <2> DEFINE n == Len(row)
             b == Element(j + 1)
  <2>1. /\ j' = j + 1 /\ 0 < j /\ j < n /\ row' = row /\ input' = input /\ out' = out /\ Stored
        /\ max' = ReduceMax(max, b)
        /\ arg' = ReduceArgmax(arg, [value |-> b, index |-> j])
    BY <1>3 DEF ReadNext
  <2>2. n \in Nat /\ j \in Nat /\ 1 <= j /\ j + 1 \in 1 .. n /\ max \in Floats
    BY SMT, <2>1 DEF RowsTyped
  <2>3. /\ Elements \in [1 .. n -> Floats] /\ b \in Floats /\ Elements[j + 1] = b
    BY SMT, <2>2, ElementsTyped
  <2>4. max' \in Floats
    BY SMT, <2>1, <2>2, <2>3, MaxOfTwo
  <2>5. RowsTyped'
    BY SMT, <2>1, <2>2, <2>4 DEF RowsTyped, ReduceArgmax
  <2>6. RowsRounded'
    BY SMT, <2>1 DEF RowsRounded, Stored
  <2>7. Elements' = Elements
    BY SMT, <2>1 DEF Elements, Element
  <2>8. /\ LargestOf(Elements, j, max) /\ arg.value = max
        /\ FirstOf(Elements, j, max, arg.index)
    BY SMT, <2>1 DEF ReductionsDone
  <2>9. LargestOf(Elements, j + 1, max')
    BY SMT, <2>1, <2>2, <2>3, <2>8, LargestStep
  <2>10. arg = [value |-> max, index |-> arg.index]
    BY SMT, <2>8 DEF RowsTyped
  <2>11. FirstOf(Elements, j + 1, max', arg'.index)
    BY SMT, <2>1, <2>2, <2>3, <2>8, <2>10, FirstStep
  <2>12. arg'.value = max'
    BY SMT, <2>1, <2>8 DEF ReduceArgmax
  <2>13. ReductionsDone'
    BY SMT, <2>1, <2>7, <2>9, <2>11, <2>12 DEF ReductionsDone
  <2>14. ResultsDone'
    BY SMT, <2>1 DEF ResultsDone
  <2> QED  BY <2>5, <2>6, <2>13, <2>14
<1>4. CASE WriteBack
  <2>1. /\ UNCHANGED <<input, row, j, max, arg>> /\ Stored /\ j = Len(row)
        /\ out' = {[max |-> Fp32ToFp16(max), value |-> Fp32ToFp16(arg.value), index |-> arg.index]}
    BY <1>4 DEF WriteBack
  <2>2. j > 0 /\ arg.value = max
    BY SMT, <2>1 DEF RowsTyped, Stored, ReductionsDone
  <2>3. RowsTyped'
    BY SMT, <2>1 DEF RowsTyped
  <2>4. RowsRounded' /\ ReductionsDone'
    BY SMT, <2>1 DEF RowsRounded, ReductionsDone, Stored, Elements, Element
  <2>5. ResultsDone'
    BY SMT, <2>1, <2>2 DEF ResultsDone
  <2> QED  BY <2>3, <2>4, <2>5
<1>5. CASE UNCHANGED reductionVars
  BY SMT, <1>5 DEF reductionVars, RowsTyped, RowsRounded, ReductionsDone, ResultsDone, Stored,
     Elements, Element
<1> QED  BY <1>1, <1>2, <1>3, <1>4, <1>5 DEF RNext, Reduced

LEMMA ReductionInvariant == RSpec => []IInv
BY ReductionInit, ReductionStep, PTL DEF RSpec

-----------------------------------------------------------------------------
(* The theorems.                                                           *)

\* Every result an instruction stores is the fp16 number nearest to the fp32
\* result, ties to even, of its sign, and NaN for NaN (fp32ToFp16).
THEOREM StoringRounds == RSpec => []StoredIsNearest
<1>1. ASSUME IInv PROVE StoredIsNearest
  <2>1. \A i \in 1 .. Len(row) : input[i] \in Floats /\ row[i] = Fp32ToFp16(input[i])
    BY SMT, <1>1 DEF IInv, RowsTyped, RowsRounded
  <2>2. ASSUME NEW i \in 1 .. Len(row)
        PROVE  /\ row[i].sign = input[i].sign
               /\ IF IsNaN32(input[i]) THEN IsNaN16(row[i])
                  ELSE IsNearestHalf(row[i].mag, input[i].mag)
    BY SMT, <2>1, HalfOfFloat
  <2> QED  BY <2>2 DEF StoredIsNearest
<1> QED  BY <1>1, ReductionInvariant, PTL

\* The bfloat16 of every result is the nearest one, NaN excepted (fp32ToBf16).
THEOREM BfloatRounds == RSpec => []BfloatIsNearest
<1>1. ASSUME IInv PROVE BfloatIsNearest
  <2>1. \A i \in 1 .. Len(input) : input[i] \in Floats
    BY SMT, <1>1 DEF IInv, RowsTyped
  <2> QED  BY SMT, <2>1, BfloatNearest DEF BfloatIsNearest
<1> QED  BY <1>1, ReductionInvariant, PTL

\* REDUCE_MAX of a row of any length is an element that none exceeds, +0 before
\* -0, and NaN exactly if there is a NaN, whatever the order (reduceMax).
THEOREM MaximumCorrect == RSpec => []MaxIsLargest
<1>1. ASSUME IInv PROVE MaxIsLargest
  <2>1. CASE j > 0
    <3>1. LargestOf(Elements, j, max) /\ 1 .. j \subseteq 1 .. Len(row)
      BY SMT, <1>1, <2>1 DEF IInv, RowsTyped, ReductionsDone
    <3>2. \A i \in 1 .. j : Elements[i] = Element(i)
      BY SMT, <1>1, <3>1, ElementsTyped DEF IInv
    <3> QED  BY SMT, <3>1, <3>2 DEF LargestOf, MaxIsLargest
  <2>2. CASE ~(j > 0)
    BY <2>2 DEF MaxIsLargest
  <2> QED  BY <2>1, <2>2
<1> QED  BY <1>1, ReductionInvariant, PTL

\* REDUCE_ARGMAX returns that same value and the index of its first occurrence,
\* comparing numerically, or of the first NaN (reduceArgmax).
THEOREM ArgmaxCorrect == RSpec => []ArgmaxAgrees
<1>1. ASSUME IInv PROVE ArgmaxAgrees
  <2>1. CASE j > 0
    <3>1. /\ arg.value = max /\ FirstOf(Elements, j, max, arg.index)
          /\ j \in Nat /\ 1 .. j \subseteq 1 .. Len(row)
      BY SMT, <1>1, <2>1 DEF IInv, RowsTyped, ReductionsDone
    <3>2. \A i \in 1 .. j : Elements[i] = Element(i)
      BY SMT, <1>1, <3>1, ElementsTyped DEF IInv
    <3>3. /\ arg.index \in 0 .. j - 1 /\ HasValue(Elements[arg.index + 1], max)
          /\ \A i \in 1 .. arg.index : ~HasValue(Elements[i], max)
      BY SMT, <3>1 DEF FirstOf
    <3>4. arg.index + 1 \in 1 .. j /\ 1 .. arg.index \subseteq 1 .. j
      BY SMT, <3>1, <3>3
    <3>5. /\ HasValue(Element(arg.index + 1), max)
          /\ \A i \in 1 .. arg.index : ~HasValue(Element(i), max)
      BY SMT, <3>2, <3>3, <3>4
    <3> QED  BY SMT, <3>1, <3>3, <3>5 DEF HasValue, ArgmaxAgrees
  <2>2. CASE ~(j > 0)
    BY <2>2 DEF ArgmaxAgrees
  <2> QED  BY <2>1, <2>2
<1> QED  BY <1>1, ReductionInvariant, PTL

\* What the reductions write back is an element of the stored row bit for bit:
\* reading it as fp32 and rounding it again changes nothing.
THEOREM NothingLost == RSpec => []MaximumIsAnElement
<1>1. ASSUME IInv PROVE MaximumIsAnElement
  <2> SUFFICES ASSUME NEW r \in out
               PROVE  /\ r.max = r.value
                      /\ IF \E i \in 1 .. Len(row) : IsNaN16(row[i]) THEN IsNaN16(r.max)
                         ELSE \E i \in 1 .. Len(row) : row[i] = r.max
    BY DEF MaximumIsAnElement
  <2>1. /\ j = Len(row) /\ j > 0 /\ r.max = Fp32ToFp16(max) /\ r.value = Fp32ToFp16(max)
        /\ max \in Floats /\ LargestOf(Elements, j, max)
    BY SMT, <1>1 DEF IInv, RowsTyped, ResultsDone, ReductionsDone
  <2>2. \A i \in 1 .. j : /\ row[i] \in Halves /\ Elements[i] = Fp16ToFp32(row[i])
                          /\ IsNaN32(Elements[i]) <=> IsNaN16(row[i])
    BY SMT, <1>1, <2>1, ElementsTyped, FloatOfHalf DEF IInv, Element
  <2>3. CASE \E i \in 1 .. j : IsNaN16(row[i])
    BY SMT, <2>1, <2>2, <2>3, HalfOfFloat DEF LargestOf
  <2>4. CASE ~(\E i \in 1 .. j : IsNaN16(row[i]))
    <3>1. \E i \in 1 .. j : Elements[i] = max
      BY SMT, <2>1, <2>2, <2>4 DEF LargestOf
    <3>2. PICK i \in 1 .. j : Elements[i] = max
      BY <3>1
    <3>3. Fp32ToFp16(Fp16ToFp32(row[i])) = row[i]
      BY SMT, <2>2, <2>4, RoundTrip
    <3>4. row[i] = r.max
      BY SMT, <2>1, <2>2, <3>2, <3>3
    <3> QED  BY SMT, <2>1, <2>4, <3>4
  <2> QED  BY <2>3, <2>4
<1> QED  BY <1>1, ReductionInvariant, PTL

=============================================================================
