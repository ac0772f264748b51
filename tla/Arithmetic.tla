----------------------------- MODULE Arithmetic -----------------------------
(***************************************************************************)
(* Facts that the proofs of several components need: remainders, row-major *)
(* positions in a table, sums, strides, induction, and what Lists leaves   *)
(* of a list.                                                              *)
(***************************************************************************)
EXTENDS Lists, WellFoundedInduction, TLAPS

LEMMA Smallest ==
  ASSUME NEW T, T \subseteq Nat, T # {}
  PROVE  \E x \in T : \A y \in T : x <= y
<1>1. PICK x \in T : \A y \in T : ~ (<<y, x>> \in OpToRel(<, Nat))
  BY NatLessThanWellFounded, WFMin, Zenon
<1>2. ASSUME NEW y \in T
      PROVE  x <= y
  <2>1. x \in Nat /\ y \in Nat /\ ~ (y < x)
    BY <1>1 DEF OpToRel
  <2> QED BY <2>1
<1> QED BY <1>2

LEMMA Largest ==
  ASSUME NEW T, T \subseteq Nat, T # {}, NEW n \in Nat, \A x \in T : x <= n
  PROVE  \E x \in T : \A y \in T : x >= y
<1> DEFINE U == {u \in Nat : \A x \in T : x <= u}
<1>1. U \subseteq Nat /\ U # {}
  OBVIOUS
<1>2. PICK u \in U : \A v \in U : u <= v
  <2> HIDE DEF U
  <2> QED BY <1>1, Smallest
<1>3. CASE u \in T
  BY <1>3
<1>4. CASE u \notin T
  <2>1. \A x \in T : x < u
    BY <1>4
  <2>2. u > 0
    <3>1. PICK x \in T : TRUE
      OBVIOUS
    <3>2. x \in Nat /\ x < u /\ u \in Nat
      BY <2>1
    <3> QED BY <3>2
  <2>3. u - 1 \in U
    BY <2>1, <2>2
  <2> QED BY <1>2, <2>3
<1> QED BY <1>3, <1>4

\* Induction, with a set in the place of the predicate: of the naturals not in
\* the set there would be a smallest.
LEMMA Induction ==
  ASSUME NEW S, 0 \in S, \A n \in Nat : n \in S => n + 1 \in S
  PROVE  \A n \in Nat : n \in S
<1> DEFINE T == Nat \ S
<1> SUFFICES ASSUME T # {} PROVE FALSE
  OBVIOUS
<1>1. PICK x \in T : \A y \in T : x <= y
  <2>1. T \subseteq Nat
    OBVIOUS
  <2> HIDE DEF T
  <2> QED BY <2>1, Smallest
<1>2. x # 0 /\ x - 1 \in Nat /\ x - 1 < x /\ x \in Nat
  OBVIOUS
<1>3. x - 1 \in S
  BY <1>1, <1>2
<1>4. (x - 1) + 1 = x
  BY <1>2
<1> QED BY <1>2, <1>3, <1>4

-----------------------------------------------------------------------------

LEMMA Remainder ==
  ASSUME NEW n \in Nat \ {0}, NEW x \in Int
  PROVE  /\ x % n \in 0 .. n - 1 /\ x \div n \in Int
         /\ x = (x \div n) * n + (x % n)
<1> DEFINE q == x \div n
           r == x % n
<1>1. q \in Int /\ r \in Int /\ 0 <= r /\ r < n
  BY SMT
<1>2. x = n * q + r
  BY SMT
<1> HIDE DEF q, r
<1>3. n * q = q * n
  BY <1>1, SMT
<1>4. r \in 0 .. n - 1
  BY <1>1, SMT
<1>5. x = q * n + r
  BY <1>2, <1>3
<1> QED BY <1>1, <1>4, <1>5, ZenonT(20) DEF q, r

LEMMA RemainderUnique ==
  ASSUME NEW n \in Nat \ {0}, NEW x \in Int, NEW q \in Int, NEW r \in 0 .. n - 1, x = q * n + r
  PROVE  x % n = r
<1> DEFINE p == x \div n
           d == p - q
<1>1. x % n \in 0 .. n - 1 /\ p \in Int /\ x = p * n + (x % n)
  BY Remainder
<1> HIDE DEF p
<1>2. d \in Int /\ d * n = r - (x % n)
  <2> DEFINE u == p * n
             v == q * n
             w == x % n
  <2>1. d * n = u - v /\ u \in Int /\ v \in Int /\ d \in Int
    BY <1>1, SMT
  <2>2. x = u + w /\ x = v + r /\ w \in Int /\ r \in Int
    BY <1>1
  <2> HIDE DEF u, v, w
  <2>3. u - v = r - w
    BY <2>1, <2>2
  <2> QED BY <2>1, <2>3 DEF w
<1> HIDE DEF d
<1>3. CASE d >= 1
  <2>1. d * n >= n
    BY <1>2, <1>3, SMT
  <2> QED BY <1>1, <1>2, <2>1
<1>4. CASE d <= -1
  <2>1. (-d) * n >= n /\ (-d) * n = -(d * n)
    BY <1>2, <1>4, SMT
  <2> QED BY <1>1, <1>2, <2>1
<1>5. CASE d = 0
  BY <1>1, <1>2, <1>5
<1> QED BY <1>2, <1>3, <1>4, <1>5

LEMMA RemainderOfSum ==
  ASSUME NEW n \in Nat \ {0}, NEW x \in Int, NEW t \in Int
  PROVE  ((x % n) + t) % n = (x + t) % n
<1> DEFINE y == (x % n) + t
           p == x \div n
           q == y \div n
           r == y % n
<1>1. x = p * n + (x % n) /\ p \in Int /\ x % n \in Int
  BY Remainder
<1>2. y \in Int
  BY <1>1
<1>3. r \in 0 .. n - 1 /\ q \in Int /\ y = q * n + r
  <2> HIDE DEF y
  <2> QED BY <1>2, Remainder
<1>4. x + t = p * n + y
  BY <1>1
<1> HIDE DEF y, p, q, r
<1>5. x + t = (p + q) * n + r
  BY <1>1, <1>3, <1>4, SMT
<1>6. p + q \in Int /\ x + t \in Int
  BY <1>1, <1>3
<1>7. (x + t) % n = r
  BY <1>3, <1>5, <1>6, RemainderUnique
<1> QED BY <1>7 DEF r, y

\* The bank of a word does not change when the SRAM wraps.
LEMMA RemainderOfRemainder ==
  ASSUME NEW n \in Nat \ {0}, NEW m \in Nat \ {0}, m % n = 0, NEW x \in Int
  PROVE  (x % m) % n = x % n
<1> DEFINE k == m \div n
           p == x \div m
           y == x % m
           q == y \div n
           r == y % n
<1>1. k \in Int /\ m = k * n
  BY Remainder
<1>2. p \in Int /\ y \in Int /\ x = p * m + y
  BY Remainder
<1>3. q \in Int /\ r \in 0 .. n - 1 /\ y = q * n + r
  <2> HIDE DEF y
  <2> QED BY <1>2, Remainder
<1> HIDE DEF k, p, y, q, r
<1>4. p * m = (p * k) * n /\ p * k \in Int
  BY <1>1, <1>2, SMT
<1>5. x = (p * k + q) * n + r /\ p * k + q \in Int
  BY <1>2, <1>3, <1>4, SMT
<1>6. x % n = r
  BY <1>3, <1>5, RemainderUnique
<1> QED BY <1>6 DEF r, y

LEMMA RemaindersApart ==
  ASSUME NEW n \in Nat \ {0}, NEW b \in Int, NEW i \in 0 .. n - 1, NEW j \in 0 .. n - 1,
         (b + i) % n = (b + j) % n
  PROVE  i = j
<1> DEFINE x == b + i
           y == b + j
           p == x \div n
           q == y \div n
           r == x % n
           d == p - q
<1>1. x \in Int /\ y \in Int /\ x - y = i - j /\ y % n = r /\ i \in Int /\ j \in Int
  OBVIOUS
<1>2. x = p * n + r /\ p \in Int /\ r \in 0 .. n - 1
  <2> HIDE DEF x
  <2> QED BY <1>1, Remainder
<1>3. y = q * n + r /\ q \in Int
  <2> HIDE DEF x, y, r
  <2> QED BY <1>1, Remainder
<1> HIDE DEF x, y, p, q, r
<1>4. d \in Int /\ d * n = i - j
  <2>1. d * n = p * n - q * n /\ p * n \in Int /\ q * n \in Int
    BY <1>2, <1>3, SMT
  <2> QED BY <1>1, <1>2, <1>3, <2>1
<1> HIDE DEF d
<1>5. CASE d >= 1
  <2>1. d * n >= n
    BY <1>4, <1>5, SMT
  <2> QED BY <1>4, <2>1
<1>6. CASE d <= -1
  <2>1. (-d) * n >= n /\ (-d) * n = -(d * n)
    BY <1>4, <1>6, SMT
  <2> QED BY <1>4, <2>1
<1>7. CASE d = 0
  BY <1>4, <1>7
<1> QED BY <1>4, <1>5, <1>6, <1>7

-----------------------------------------------------------------------------

\* Row-major positions stay inside the table: the bound behind every packed
\* operand of parse_instruction.
LEMMA CellInTable ==
  ASSUME NEW rows \in Nat, NEW cols \in Nat,
         NEW i \in 0 .. rows - 1, NEW j \in 0 .. cols - 1
  PROVE  i * cols + j \in 0 .. rows * cols - 1
<1>1. i * cols \in Nat  BY SMT
<1>2. (i + 1) * cols <= rows * cols BY SMT
<1>3. (i + 1) * cols = i * cols + cols BY SMT
<1> QED BY <1>1, <1>2, <1>3

\* The row an element index falls in.
LEMMA RowOfElement ==
  ASSUME NEW rows \in Nat, NEW cols \in Nat, NEW i \in 0 .. rows * cols - 1
  PROVE  cols > 0 /\ i \div cols \in 0 .. rows - 1
<1>1. cols > 0
  <2>1. CASE cols = 0
    <3>1. rows * cols = 0
      BY <2>1, SMT
    <3> QED BY <3>1
  <2> QED BY <2>1
<1> DEFINE q == i \div cols
<1>2. q \in Int /\ q * cols <= i /\ i < (q + 1) * cols
  BY <1>1, SMT
<1>3. q >= 0
  <2>1. ASSUME q <= -1 PROVE FALSE
    <3>1. (q + 1) * cols <= 0
      BY <1>1, <1>2, <2>1, SMT
    <3> QED BY <1>2, <3>1
  <2> QED BY <1>2, <2>1
<1>4. q <= rows - 1
  <2>1. ASSUME q >= rows PROVE FALSE
    <3>1. rows * cols <= q * cols
      BY <1>1, <1>2, <2>1, SMT
    <3>2. rows * cols \in Int
      OBVIOUS
    <3> QED BY <1>2, <3>1, <3>2
  <2> QED BY <1>2, <2>1
<1> QED BY <1>1, <1>2, <1>3, <1>4

\* Two positions of a table at the same place are the same.
LEMMA CellsDistinct ==
  ASSUME NEW cols \in Nat, NEW i \in Int, NEW j \in 0 .. cols - 1,
         NEW k \in Int, NEW l \in 0 .. cols - 1, i * cols + j = k * cols + l
  PROVE  i = k /\ j = l
<1> DEFINE x == i * cols + j
<1>1. cols \in Nat \ {0}
  OBVIOUS
<1>2. x \in Int
  BY SMT
<1>3. x = i * cols + j /\ x = k * cols + l
  OBVIOUS
<1> HIDE DEF x
<1>4. x % cols = j
  BY <1>1, <1>2, <1>3, RemainderUnique
<1>5. x % cols = l
  BY <1>1, <1>2, <1>3, RemainderUnique
<1>6. j = l
  BY <1>4, <1>5
<1>7. i * cols = k * cols
  <2> DEFINE a == i * cols
             b == k * cols
  <2>1. a \in Int /\ b \in Int /\ a + j = b + l /\ j \in Int
    BY <1>3, SMT
  <2> HIDE DEF a, b
  <2>2. a = b
    BY <2>1, <1>6
  <2> QED BY <2>2 DEF a, b
<1>8. i = k
  BY <1>1, <1>7, SMT
<1> QED BY <1>6, <1>8

LEMMA QuotientUnique ==
  ASSUME NEW n \in Nat \ {0}, NEW x \in Int, NEW q \in Int, NEW r \in 0 .. n - 1, x = q * n + r
  PROVE  x \div n = q
<1> DEFINE p == x \div n
<1>1. x % n = r
  BY RemainderUnique
<1>2. p \in Int /\ x = p * n + (x % n)
  BY Remainder
<1> HIDE DEF p
<1>3. p * n = q * n
  <2>1. p * n \in Int /\ q * n \in Int /\ r \in Int
    BY <1>2, SMT
  <2> QED BY <1>1, <1>2, <2>1
<1>4. p = q
  BY <1>2, <1>3, SMT
<1> QED BY <1>4 DEF p

\* The parts of x split by m * n: x div n leaves (x div (m * n)) times m and a rest
\* below m.
LEMMA QuotientOfProduct ==
  ASSUME NEW n \in Nat \ {0}, NEW m \in Nat \ {0}, NEW x \in Nat
  PROVE  /\ m * n \in Nat \ {0}
         /\ (x \div n) - (x \div (m * n)) * m \in 0 .. m - 1
<1> DEFINE mn == m * n
           f == x \div mn
           u == x % mn
           t == u \div n
           v == u % n
<1>1. mn \in Nat \ {0}
  BY SMT
<1>2. f \in Int /\ u \in 0 .. mn - 1 /\ x = f * mn + u
  <2>1. x \in Int
    OBVIOUS
  <2> HIDE DEF mn
  <2> QED BY <1>1, <2>1, Remainder
<1>3. t \in Int /\ v \in 0 .. n - 1 /\ u = t * n + v
  <2>1. u \in Int
    BY <1>1, <1>2
  <2> HIDE DEF u
  <2> QED BY <2>1, Remainder
<1> HIDE DEF f, u, t, v
<1>4. t \in 0 .. m - 1
  <2>1. t * n \in Int /\ m * n \in Int
    BY <1>3, SMT
  <2>2. t * n < m * n /\ t * n > 0 - n
    BY <1>1, <1>2, <1>3, <2>1
  <2>3. t < m
    BY <1>3, <2>2, SMT
  <2>4. t > -1
    BY <1>3, <2>2, SMT
  <2> QED BY <1>3, <2>3, <2>4
<1>5. x = (f * m + t) * n + v /\ f * m + t \in Int
  <2>1. f * (m * n) = (f * m) * n /\ ((f * m) + t) * n = (f * m) * n + t * n
    BY <1>2, <1>3, SMT
  <2>2. f * m \in Int /\ (f * m) * n \in Int /\ t * n \in Int
    BY <1>2, <1>3, SMT
  <2> QED BY <1>2, <1>3, <2>1, <2>2
<1>6. x \div n = f * m + t
  <2> DEFINE q == f * m + t
  <2>1. x \in Int /\ q \in Int /\ x = q * n + v
    BY <1>5
  <2> HIDE DEF q
  <2>2. x \div n = q
    BY <1>3, <2>1, QuotientUnique
  <2> QED BY <2>2 DEF q
<1>7. (x \div n) - f * m = t
  <2>1. f * m \in Int
    BY <1>2, SMT
  <2> QED BY <1>3, <1>6, <2>1
<1> QED BY <1>1, <1>4, <1>7 DEF f

LEMMA Scaled ==
  ASSUME NEW x \in Int, NEW y \in Int, NEW c \in Nat, x <= y
  PROVE  x * c <= y * c
<1>1. y * c - x * c = (y - x) * c /\ 0 <= (y - x) * c
  BY SMT
<1> QED BY SMT, <1>1

LEMMA Fitting ==
  ASSUME NEW w \in Nat, NEW x \in Nat, x < w
  PROVE  x % w = x
OBVIOUS

\* n strides from a on, k more to come: each begins where the one ahead ends,
\* and none wraps at w.
LEMMA Strides ==
  ASSUME NEW s \in Nat \ {0}, NEW a \in Nat, NEW n \in Nat, NEW k \in Nat, NEW w \in Nat,
         a + (n + k) * s < w
  PROVE  /\ a + n * s \in Nat /\ a <= a + n * s /\ a + n * s < w /\ a + n * s + k * s < w
         /\ \A i \in 1 .. n :
              /\ a + (i - 1) * s \in Nat /\ a <= a + (i - 1) * s
              /\ a + (i - 1) * s + s <= a + n * s
              /\ (a + (i - 1) * s) % w = a + (i - 1) * s
         /\ \A i, j \in 1 .. n : i < j => a + (i - 1) * s + s <= a + (j - 1) * s
<1> DEFINE T(i) == i * s
<1>1. T(n) \in Nat /\ T(k) \in Nat /\ (n + k) * s = T(n) + T(k)
  BY SMT
<1>2. ASSUME NEW i \in Int PROVE T(i) \in Int /\ T(i) = T(i - 1) + s
  BY SMT
<1>3. ASSUME NEW i \in Int, NEW j \in Int, i <= j PROVE T(i) <= T(j)
  BY <1>3, Scaled
<1>4. \A i \in 1 .. n : T(i - 1) \in Nat
  BY SMT
<1> HIDE DEF T
<1>5. a + T(n) \in Nat /\ a <= a + T(n) /\ a + T(n) < w /\ a + T(n) + T(k) < w
  BY <1>1
<1>6. ASSUME NEW i \in 1 .. n
      PROVE  /\ a + T(i - 1) \in Nat /\ a <= a + T(i - 1)
             /\ a + T(i - 1) + s <= a + T(n)
             /\ (a + T(i - 1)) % w = a + T(i - 1)
  <2>1. T(i) <= T(n) /\ T(i) = T(i - 1) + s /\ T(i - 1) \in Nat
    BY <1>2, <1>3, <1>4
  <2> DEFINE b == a + T(i - 1)
  <2>2. b \in Nat /\ a <= b /\ b + s <= a + T(n) /\ b < w
    BY <1>1, <1>5, <2>1
  <2> HIDE DEF b
  <2>3. b % w = b
    BY <2>2, Fitting
  <2> QED BY <2>2, <2>3 DEF b
<1>7. ASSUME NEW i \in 1 .. n, NEW j \in 1 .. n, i < j
      PROVE  a + T(i - 1) + s <= a + T(j - 1)
  <2>1. T(i) <= T(j - 1) /\ T(i) = T(i - 1) + s
    BY <1>2, <1>3, <1>7
  <2> QED BY <1>2, <1>4, <2>1
<1> QED BY <1>5, <1>6, <1>7 DEF T

\* With one stride taken, or given back, what is left still fits below w.
LEMMA StrideTaken ==
  ASSUME NEW s \in Nat \ {0}, NEW a \in Nat, NEW n \in Nat \ {0}, NEW w \in Nat, a + n * s < w
  PROVE  /\ a + s \in Nat /\ a + s < w /\ a + s + (n - 1) * s < w
         /\ a + (n - 1) * s < w
<1> DEFINE T(i) == i * s
<1>1. T(n) \in Nat /\ T(n - 1) \in Nat /\ T(n) = T(n - 1) + s
  BY SMT
<1> HIDE DEF T
<1>2. a + T(n) < w
  BY DEF T
<1>3. a + s \in Nat /\ a + s < w /\ a + s + T(n - 1) < w /\ a + T(n - 1) < w
  BY <1>1, <1>2
<1> QED BY <1>3 DEF T

\* Recursion over the naturals up to m, from c in V: F[n] is what the n-th step
\* makes of the value before it.
StepsIn(F, m, V) == \A n \in 1 .. m, x \in V : F[n][x] \in V
Unrolls(g, F, m, V, c) ==
  g \in [0 .. m -> V] /\ g[0] = c /\ \A n \in 1 .. m : g[n] = F[n][g[n - 1]]

\* The function that a recursive definition names exists.
LEMMA RecursionExists ==
  ASSUME NEW m \in Nat, NEW V, NEW c \in V, NEW F, StepsIn(F, m, V)
  PROVE  \E g : Unrolls(g, F, m, V, c)
<1> DEFINE Steps(g, k) == g[0] = c /\ \A n \in 1 .. k : g[n] = F[n][g[n - 1]]
           S == {k \in Nat : k <= m => \E g \in [0 .. k -> V] : Steps(g, k)}
<1>1. 0 \in S
  <2> DEFINE g == [n \in 0 .. 0 |-> c]
  <2>1. g \in [0 .. 0 -> V] /\ Steps(g, 0)
    OBVIOUS
  <2> QED BY <2>1
<1>2. ASSUME NEW k \in Nat, k \in S
      PROVE  k + 1 \in S
  <2> SUFFICES ASSUME k + 1 <= m
               PROVE  \E h \in [0 .. k + 1 -> V] : Steps(h, k + 1)
    OBVIOUS
  <2>1. PICK g \in [0 .. k -> V] : Steps(g, k)
    BY <1>2
  <2> DEFINE h == [n \in 0 .. k + 1 |-> IF n <= k THEN g[n] ELSE F[k + 1][g[k]]]
  <2>2. h \in [0 .. k + 1 -> V]
    <3>1. F[k + 1][g[k]] \in V
      BY <2>1 DEF StepsIn
    <3> QED BY <2>1, <3>1
  <2>3. h[0] = c
    BY <2>1
  <2>4. ASSUME NEW n \in 1 .. k + 1
        PROVE  h[n] = F[n][h[n - 1]]
    <3>1. CASE n = k + 1
      <4>1. h[n] = F[k + 1][g[k]] /\ n - 1 = k /\ h[n - 1] = g[k]
        BY <3>1
      <4> QED BY <3>1, <4>1
    <3>2. CASE n # k + 1
      <4>1. n \in 1 .. k /\ h[n] = g[n] /\ h[n - 1] = g[n - 1]
        BY <3>2
      <4> QED BY <2>1, <4>1
    <3> QED BY <3>1, <3>2
  <2> HIDE DEF h
  <2>5. Steps(h, k + 1)
    BY <2>3, <2>4
  <2> QED BY <2>2, <2>5
<1>3. m \in S
  <2> HIDE DEF S
  <2>1. \A n \in Nat : n \in S
    BY <1>1, <1>2, Induction
  <2> QED BY <2>1
<1>4. PICK g \in [0 .. m -> V] : Steps(g, m)
  BY <1>3
<1>5. Unrolls(g, F, m, V, c)
  BY <1>4 DEF Unrolls
<1> QED BY <1>5

\* keep[n] is what is left of the first n elements of s.
Keeps(keep, s, K, T) ==
  /\ keep \in [0 .. Len(s) -> Seq(T)] /\ keep[0] = <<>> /\ Without(s, K) = keep[Len(s)]
  /\ \A n \in 1 .. Len(s) :
       keep[n] = IF n \in K THEN keep[n - 1] ELSE Append(keep[n - 1], s[n])

LEMMA WithoutSteps ==
  ASSUME NEW T, NEW s \in Seq(T), NEW K
  PROVE  \E keep : Keeps(keep, s, K, T)
<1> DEFINE m == Len(s)
           F == [n \in 1 .. m |-> [x \in Seq(T) |-> IF n \in K THEN x ELSE Append(x, s[n])]]
           keep[n \in 0 .. Len(s)] ==
             IF n = 0 THEN <<>> ELSE IF n \in K THEN keep[n - 1] ELSE Append(keep[n - 1], s[n])
<1>1. m \in Nat /\ <<>> \in Seq(T)
  OBVIOUS
<1>2. \A n \in 1 .. m, x \in Seq(T) :
        F[n][x] \in Seq(T) /\ F[n][x] = IF n \in K THEN x ELSE Append(x, s[n])
  OBVIOUS
<1>3. PICK g : Unrolls(g, F, m, Seq(T), <<>>)
  <2> DEFINE V == Seq(T)
  <2>1. <<>> \in V
    OBVIOUS
  <2> HIDE DEF F, V
  <2>2. StepsIn(F, m, V)
    BY <1>2 DEF StepsIn, V
  <2>3. m \in Nat
    BY <1>1
  <2> HIDE DEF m
  <2>4. \E g : Unrolls(g, F, m, V, <<>>)
    BY <2>1, <2>2, <2>3, RecursionExists
  <2> QED BY <2>4 DEF V
<1>4. /\ g \in [0 .. m -> Seq(T)] /\ g[0] = <<>>
      /\ \A n \in 1 .. m : g[n] = IF n \in K THEN g[n - 1] ELSE Append(g[n - 1], s[n])
  <2>1. \A n \in 1 .. m : n - 1 \in 0 .. m
    BY <1>1
  <2> HIDE DEF F, m, keep
  <2>2. g \in [0 .. m -> Seq(T)] /\ g[0] = <<>> /\ \A n \in 1 .. m : g[n] = F[n][g[n - 1]]
    BY <1>3 DEF Unrolls
  <2>3. \A n \in 1 .. m : g[n - 1] \in Seq(T)
    BY <2>1, <2>2
  <2> QED BY <1>2, <2>2, <2>3
<1>5. g = [n \in 0 .. Len(s) |->
             IF n = 0 THEN <<>> ELSE IF n \in K THEN g[n - 1] ELSE Append(g[n - 1], s[n])]
  <2>1. \A n \in 0 .. m : n # 0 => n \in 1 .. m
    BY <1>1
  <2> HIDE DEF F, keep
  <2> QED BY <1>4, <2>1
<1>6. keep = [n \in 0 .. Len(s) |->
                IF n = 0 THEN <<>> ELSE IF n \in K THEN keep[n - 1] ELSE Append(keep[n - 1], s[n])]
  <2> HIDE DEF F
  <2> QED BY <1>5
<1>7. Without(s, K) = keep[Len(s)]
  BY DEF Without
<1> HIDE DEF F, keep
<1>8. \A n \in 0 .. m : keep[n] = g[n]
  <2> DEFINE S == {n \in Nat : n <= m => keep[n] = g[n]}
  <2>1. 0 \in S
    BY <1>1, <1>4, <1>6
  <2>2. ASSUME NEW n \in Nat, n \in S
        PROVE  n + 1 \in S
    <3> SUFFICES ASSUME n + 1 <= m PROVE keep[n + 1] = g[n + 1]
      OBVIOUS
    <3>1. n + 1 \in 1 .. m /\ n + 1 \in 0 .. Len(s) /\ n + 1 # 0 /\ (n + 1) - 1 = n /\ keep[n] = g[n]
      BY <1>1, <2>2
    <3>2. keep[n + 1] = IF n + 1 \in K THEN keep[n] ELSE Append(keep[n], s[n + 1])
      BY <1>6, <3>1
    <3> QED BY <1>4, <3>1, <3>2
  <2>3. \A n \in Nat : n \in S
    <3> HIDE DEF S
    <3> QED BY <2>1, <2>2, Induction
  <2> QED BY <1>1, <2>3
<1>9. Without(s, K) = g[Len(s)]
  BY <1>1, <1>7, <1>8
<1> QED BY <1>4, <1>9 DEF Keeps

\* What Without leaves comes from the positions that are not taken out.
LEMMA WithoutLeaves ==
  ASSUME NEW T, NEW s \in Seq(T), NEW K
  PROVE  \A x \in DOMAIN Without(s, K) : \E k \in 1 .. Len(s) : k \notin K /\ Without(s, K)[x] = s[k]
<1> DEFINE m == Len(s)
           Left(n, x) == \E k \in 1 .. n : k \notin K /\ x = s[k]
<1>0. PICK keep : Keeps(keep, s, K, T)
  BY WithoutSteps
<1>1. /\ keep \in [0 .. m -> Seq(T)] /\ keep[0] = <<>> /\ Without(s, K) = keep[m]
      /\ \A n \in 1 .. m :
           keep[n] = IF n \in K THEN keep[n - 1] ELSE Append(keep[n - 1], s[n])
  BY <1>0 DEF Keeps
<1>2. m \in Nat
  OBVIOUS
<1> HIDE DEF m
<1> DEFINE S == {n \in Nat : n <= m => \A x \in 1 .. Len(keep[n]) : Left(n, keep[n][x])}
<1>3. 0 \in S
  BY <1>1
<1>4. ASSUME NEW n \in Nat, n \in S
      PROVE  n + 1 \in S
  <2> SUFFICES ASSUME n + 1 <= m, NEW x \in 1 .. Len(keep[n + 1])
               PROVE  Left(n + 1, keep[n + 1][x])
    OBVIOUS
  <2>1. /\ n + 1 \in 1 .. m /\ n \in 0 .. m /\ (n + 1) - 1 = n
        /\ \A y \in 1 .. Len(keep[n]) : Left(n, keep[n][y])
    BY <1>2, <1>4
  <2>2. \A e : Left(n, e) => Left(n + 1, e)
    OBVIOUS
  <2>3. keep[n] \in Seq(T) /\ s[n + 1] \in T
    <3> HIDE DEF S, Left
    <3>1. keep[n] \in Seq(T)
      BY <1>1, <2>1
    <3>2. s[n + 1] \in T
      BY <2>1 DEF m
    <3> QED BY <3>1, <3>2
  <2>4. keep[n + 1] = IF n + 1 \in K THEN keep[n] ELSE Append(keep[n], s[n + 1])
    BY <1>1, <2>1
  <2>5. n + 1 \notin K => Left(n + 1, s[n + 1])
    OBVIOUS
  <2> HIDE DEF Left, S
  <2>6. CASE n + 1 \in K
    BY <2>1, <2>2, <2>4, <2>6
  <2>7. CASE n + 1 \notin K
    <3>1. x \in 1 .. Len(keep[n]) \/ x = Len(keep[n]) + 1
      BY <2>3, <2>4, <2>7
    <3>2. CASE x \in 1 .. Len(keep[n])
      <4>1. keep[n + 1][x] = keep[n][x]
        BY <2>3, <2>4, <2>7, <3>2
      <4> QED BY <2>1, <2>2, <3>2, <4>1
    <3>3. CASE x = Len(keep[n]) + 1
      <4>1. keep[n + 1][x] = s[n + 1]
        BY <2>3, <2>4, <2>7, <3>3
      <4> QED BY <2>5, <2>7, <4>1
    <3> QED BY <3>1, <3>2, <3>3
  <2> QED BY <2>6, <2>7
<1>5. \A n \in Nat : n \in S
  <2> HIDE DEF S
  <2> QED BY <1>3, <1>4, Induction
<1>6. \A x \in 1 .. Len(keep[m]) : Left(m, keep[m][x])
  BY <1>2, <1>5
<1>7. DOMAIN keep[m] = 1 .. Len(keep[m])
  <2>1. keep[m] \in Seq(T)
    BY <1>1, <1>2
  <2> QED BY <2>1
<1> QED BY <1>1, <1>6, <1>7 DEF m

\* Whatever satisfies the recursion of Without is what it computes.
LEMMA WithoutIs ==
  ASSUME NEW T, NEW s \in Seq(T), NEW K, NEW g, g[0] = <<>>,
         \A n \in 1 .. Len(s) : g[n] = IF n \in K THEN g[n - 1] ELSE Append(g[n - 1], s[n])
  PROVE  Without(s, K) = g[Len(s)]
<1> DEFINE m == Len(s)
<1>1. PICK keep : Keeps(keep, s, K, T)
  BY WithoutSteps
<1>2. /\ keep[0] = <<>> /\ Without(s, K) = keep[m] /\ m \in Nat
      /\ \A n \in 1 .. m : keep[n] = IF n \in K THEN keep[n - 1] ELSE Append(keep[n - 1], s[n])
  BY <1>1 DEF Keeps
<1>3. \A n \in 1 .. m : g[n] = IF n \in K THEN g[n - 1] ELSE Append(g[n - 1], s[n])
  OBVIOUS
<1> HIDE DEF m
<1> DEFINE S == {n \in Nat : n <= m => keep[n] = g[n]}
<1>4. 0 \in S
  BY <1>2
<1>5. ASSUME NEW n \in Nat, n \in S PROVE n + 1 \in S
  <2> SUFFICES ASSUME n + 1 <= m PROVE keep[n + 1] = g[n + 1]
    OBVIOUS
  <2>1. n + 1 \in 1 .. m /\ (n + 1) - 1 = n /\ keep[n] = g[n]
    BY <1>2, <1>5
  <2>2. keep[n + 1] = IF n + 1 \in K THEN keep[n] ELSE Append(keep[n], s[n + 1])
    BY <1>2, <2>1
  <2>3. g[n + 1] = IF n + 1 \in K THEN g[n] ELSE Append(g[n], s[n + 1])
    BY <1>3, <2>1
  <2> QED BY <2>1, <2>2, <2>3
<1> HIDE DEF S
<1>6. \A n \in Nat : n \in S
  BY <1>4, <1>5, Induction
<1> QED BY <1>2, <1>6 DEF S, m

LEMMA WithoutNothing == ASSUME NEW K PROVE Without(<<>>, K) = <<>>
<1> DEFINE T == {}
           g == [n \in 0 .. 0 |-> <<>>]
           s == <<>>
<1>1. s \in Seq(T) /\ Len(s) = 0 /\ g[0] = <<>>
  OBVIOUS
<1> HIDE DEF g, s, T
<1>2. \A n \in 1 .. Len(s) : g[n] = IF n \in K THEN g[n - 1] ELSE Append(g[n - 1], s[n])
  BY <1>1
<1>3. Without(s, K) = g[Len(s)]
  BY <1>1, <1>2, WithoutIs
<1> QED BY <1>1, <1>3 DEF s

\* The last element is left, or taken out.
LEMMA WithoutLast ==
  ASSUME NEW T, NEW s \in Seq(T), NEW e \in T, NEW K, NEW J,
         \A n \in 1 .. Len(s) : n \in J <=> n \in K
  PROVE  Without(Append(s, e), J) = IF Len(s) + 1 \in J THEN Without(s, K)
                                    ELSE Append(Without(s, K), e)
<1> DEFINE m == Len(s)
           u == Append(s, e)
<1>1. PICK keep : Keeps(keep, s, K, T)
  BY WithoutSteps
<1>2. /\ keep[0] = <<>> /\ Without(s, K) = keep[m] /\ m \in Nat
      /\ \A n \in 1 .. m : keep[n] = IF n \in K THEN keep[n - 1] ELSE Append(keep[n - 1], s[n])
  BY <1>1 DEF Keeps
<1>3. /\ u \in Seq(T) /\ Len(u) = m + 1 /\ u[m + 1] = e
      /\ \A n \in 1 .. m : u[n] = s[n] /\ (n \in J <=> n \in K)
  OBVIOUS
<1> HIDE DEF m, u
<1> DEFINE last == IF m + 1 \in J THEN keep[m] ELSE Append(keep[m], e)
           g == [n \in 0 .. m + 1 |-> IF n = m + 1 THEN last ELSE keep[n]]
<1>4. g[0] = <<>> /\ g[m + 1] = last /\ \A n \in 0 .. m : g[n] = keep[n]
  BY <1>2
<1> HIDE DEF g
<1>5. ASSUME NEW n \in 1 .. Len(u)
      PROVE  g[n] = IF n \in J THEN g[n - 1] ELSE Append(g[n - 1], u[n])
  <2>1. CASE n = m + 1
    <3>1. n - 1 = m /\ m \in 0 .. m
      BY <1>2, <2>1
    <3>2. g[n] = last
      BY <1>4, <2>1
    <3>3. g[m] = keep[m] /\ u[n] = e
      BY <1>3, <1>4, <2>1, <3>1
    <3> QED BY <2>1, <3>1, <3>2, <3>3
  <2>2. CASE n # m + 1
    <3>1. n \in 1 .. m /\ n \in 0 .. m /\ n - 1 \in 0 .. m
      BY <1>2, <1>3, <2>2
    <3>2. g[n] = keep[n] /\ g[n - 1] = keep[n - 1] /\ u[n] = s[n] /\ (n \in J <=> n \in K)
      BY <1>3, <1>4, <3>1
    <3> QED BY <1>2, <3>1, <3>2
  <2> QED BY <2>1, <2>2
<1>6. Without(u, J) = g[Len(u)]
  BY <1>3, <1>4, <1>5, WithoutIs
<1> QED BY <1>2, <1>3, <1>4, <1>6 DEF u, m
=============================================================================
