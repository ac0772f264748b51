---------------------------- MODULE BankXbarProofs ----------------------------
(***************************************************************************)
(* The banked SRAM implements the flat memory of WordMemory, and a batch   *)
(* takes as many edges as its most crowded bank has requests, for every    *)
(* number of banks and words, hashed or not, and all batches of requests.  *)
(***************************************************************************)
EXTENDS BankXbar, Arithmetic, FiniteSetTheorems, TLAPS

Requests == UNION {{s[i] : i \in DOMAIN s} : s \in WriteBatches}

XbarInv ==
  /\ hash_en \in BOOLEAN
  /\ reads \in Seq(Addrs) /\ Len(reads) <= NBANK
  /\ writes \in Seq(Requests) /\ Len(writes) <= NBANK
  /\ asked \in 0 .. NBANK

-----------------------------------------------------------------------------
\* What Without leaves of a sequence.

\* How many elements of s are in P.
Count(s, P) == Cardinality({i \in DOMAIN s : s[i] \in P})

LEMMA WithoutType ==
  ASSUME NEW T, NEW s \in Seq(T), NEW K
  PROVE  Without(s, K) \in Seq(T) /\ Len(Without(s, K)) <= Len(s)
<1> DEFINE m == Len(s)
<1>0. PICK keep : Keeps(keep, s, K, T)
  BY WithoutSteps
<1>1. /\ keep \in [0 .. m -> Seq(T)] /\ keep[0] = <<>> /\ Without(s, K) = keep[m]
      /\ \A n \in 1 .. m :
           keep[n] = IF n \in K THEN keep[n - 1] ELSE Append(keep[n - 1], s[n])
  BY <1>0 DEF Keeps
<1>2. m \in Nat
  OBVIOUS
<1> HIDE DEF m
<1> DEFINE S == {n \in Nat : n <= m => Len(keep[n]) <= n}
<1>3. 0 \in S
  BY <1>1
<1>4. ASSUME NEW n \in Nat, n \in S
      PROVE  n + 1 \in S
  <2> SUFFICES ASSUME n + 1 <= m PROVE Len(keep[n + 1]) <= n + 1
    OBVIOUS
  <2>1. n + 1 \in 1 .. m /\ n \in 0 .. m /\ (n + 1) - 1 = n /\ Len(keep[n]) <= n
    BY <1>2, <1>4
  <2>2. keep[n] \in Seq(T) /\ s[n + 1] \in T
    <3> HIDE DEF S
    <3>1. keep[n] \in Seq(T)
      BY <1>1, <2>1
    <3>2. s[n + 1] \in T
      BY <2>1 DEF m
    <3> QED BY <3>1, <3>2
  <2>3. keep[n + 1] = IF n + 1 \in K THEN keep[n] ELSE Append(keep[n], s[n + 1])
    BY <1>1, <2>1
  <2> QED BY <2>1, <2>2, <2>3
<1>5. \A n \in Nat : n \in S
  <2> HIDE DEF S
  <2> QED BY <1>3, <1>4, Induction
<1> QED BY <1>1, <1>2, <1>5 DEF m

\* An edge in reset leaves all the reads.
LEMMA WithoutNone ==
  ASSUME NEW T, NEW s \in Seq(T), NEW K, K = {}
  PROVE  Without(s, K) = s
<1> DEFINE m == Len(s)
<1>0. PICK keep : Keeps(keep, s, K, T)
  BY WithoutSteps
<1>1. /\ keep \in [0 .. m -> Seq(T)] /\ keep[0] = <<>> /\ Without(s, K) = keep[m]
      /\ \A n \in 1 .. m :
           keep[n] = IF n \in K THEN keep[n - 1] ELSE Append(keep[n - 1], s[n])
  BY <1>0 DEF Keeps
<1>2. m \in Nat
  OBVIOUS
<1> HIDE DEF m
<1> DEFINE S == {n \in Nat : n <= m => /\ Len(keep[n]) = n
                                       /\ \A i \in 1 .. n : keep[n][i] = s[i]}
<1>3. 0 \in S
  BY <1>1
<1>4. ASSUME NEW n \in Nat, n \in S
      PROVE  n + 1 \in S
  <2> SUFFICES ASSUME n + 1 <= m
               PROVE  Len(keep[n + 1]) = n + 1 /\ \A i \in 1 .. n + 1 : keep[n + 1][i] = s[i]
    OBVIOUS
  <2>1. /\ n + 1 \in 1 .. m /\ n \in 0 .. m /\ (n + 1) - 1 = n /\ Len(keep[n]) = n
        /\ \A i \in 1 .. n : keep[n][i] = s[i]
    BY <1>2, <1>4
  <2>2. keep[n] \in Seq(T) /\ s[n + 1] \in T
    <3> HIDE DEF S
    <3>1. keep[n] \in Seq(T)
      BY <1>1, <2>1
    <3>2. s[n + 1] \in T
      BY <2>1 DEF m
    <3> QED BY <3>1, <3>2
  <2>3. keep[n + 1] = Append(keep[n], s[n + 1])
    BY <1>1, <2>1
  <2> QED BY <2>1, <2>2, <2>3
<1>5. \A n \in Nat : n \in S
  <2> HIDE DEF S
  <2> QED BY <1>3, <1>4, Induction
<1>6. keep[m] \in Seq(T) /\ Len(keep[m]) = m /\ \A i \in 1 .. m : keep[m][i] = s[i]
  <2>1. m \in S /\ m <= m
    BY <1>2, <1>5
  <2>2. Len(keep[m]) = m /\ \A i \in 1 .. m : keep[m][i] = s[i]
    BY <2>1
  <2> HIDE DEF S
  <2>3. keep[m] \in Seq(T)
    BY <1>1, <1>2
  <2> QED BY <2>2, <2>3
<1> HIDE DEF S
<1>7. keep[m] = s
  BY <1>6 DEF m
<1> QED BY <1>1, <1>7

LEMMA CountType ==
  ASSUME NEW T, NEW s \in Seq(T), NEW P
  PROVE  /\ IsFiniteSet({i \in DOMAIN s : s[i] \in P})
         /\ Count(s, P) \in Nat /\ Count(s, P) <= Len(s)
<1> DEFINE D == {i \in DOMAIN s : s[i] \in P}
<1>1. Len(s) \in Nat /\ D \subseteq 1 .. Len(s)
  OBVIOUS
<1>2. IsFiniteSet(1 .. Len(s)) /\ Cardinality(1 .. Len(s)) = Len(s)
  BY <1>1, FS_Interval
<1>3. Count(s, P) = Cardinality(D)
  BY DEF Count
<1> HIDE DEF D
<1>4. IsFiniteSet(D) /\ Cardinality(D) <= Cardinality(1 .. Len(s))
  BY <1>1, <1>2, FS_Subset
<1>5. Cardinality(D) \in Nat
  BY <1>4, FS_CardinalityType
<1> QED BY <1>2, <1>3, <1>4, <1>5 DEF D

LEMMA CountOfAppend ==
  ASSUME NEW T, NEW s \in Seq(T), NEW x \in T, NEW P
  PROVE  /\ Count(s, P) \in Nat
         /\ Count(Append(s, x), P) = IF x \in P THEN Count(s, P) + 1 ELSE Count(s, P)
<1> DEFINE D == {i \in DOMAIN s : s[i] \in P}
           E == {i \in DOMAIN Append(s, x) : Append(s, x)[i] \in P}
<1>1. /\ Len(s) \in Nat /\ DOMAIN s = 1 .. Len(s)
      /\ DOMAIN Append(s, x) = 1 .. Len(s) + 1 /\ Append(s, x)[Len(s) + 1] = x
      /\ \A i \in 1 .. Len(s) : Append(s, x)[i] = s[i]
  OBVIOUS
<1>2. Count(s, P) = Cardinality(D) /\ Count(Append(s, x), P) = Cardinality(E)
  BY DEF Count
<1>3. IsFiniteSet(D) /\ Count(s, P) \in Nat
  BY CountType
<1>4. E = IF x \in P THEN D \cup {Len(s) + 1} ELSE D
  <2>1. \A i : i \in 1 .. Len(s) + 1 <=> i \in 1 .. Len(s) \/ i = Len(s) + 1
    BY <1>1
  <2>2. Len(s) + 1 \notin 1 .. Len(s)
    BY <1>1
  <2> QED BY <1>1, <2>1, <2>2
<1>5. Len(s) + 1 \notin D
  BY <1>1
<1> HIDE DEF D, E
<1>6. Cardinality(D \cup {Len(s) + 1}) = Cardinality(D) + 1
  BY <1>3, <1>5, FS_AddElement
<1> QED BY <1>2, <1>3, <1>4, <1>6

\* What is left counts what was at the positions not in K.
LEMMA CountOfRest ==
  ASSUME NEW T, NEW s \in Seq(T), NEW K, NEW P
  PROVE  Count(Without(s, K), P) = Cardinality({i \in DOMAIN s : s[i] \in P} \ K)
<1> DEFINE m == Len(s)
           left(n) == {i \in 1 .. n : s[i] \in P} \ K
<1>0. PICK keep : Keeps(keep, s, K, T)
  BY WithoutSteps
<1>1. /\ keep \in [0 .. m -> Seq(T)] /\ keep[0] = <<>> /\ Without(s, K) = keep[m]
      /\ \A n \in 1 .. m :
           keep[n] = IF n \in K THEN keep[n - 1] ELSE Append(keep[n - 1], s[n])
  BY <1>0 DEF Keeps
<1>2. m \in Nat /\ DOMAIN s = 1 .. m /\ \A i \in 1 .. m : s[i] \in T
  OBVIOUS
<1> DEFINE S == {n \in Nat : n <= m => Count(keep[n], P) = Cardinality(left(n))}
<1> HIDE DEF m
<1>3. 0 \in S
  <2>1. {i \in DOMAIN <<>> : <<>>[i] \in P} = {} /\ left(0) = {}
    OBVIOUS
  <2>2. Count(<<>>, P) = Cardinality(left(0))
    BY <2>1 DEF Count
  <2> QED BY <1>1, <2>2
<1>4. ASSUME NEW n \in Nat, n \in S
      PROVE  n + 1 \in S
  <2> SUFFICES ASSUME n + 1 <= m PROVE Count(keep[n + 1], P) = Cardinality(left(n + 1))
    OBVIOUS
  <2>1. /\ n + 1 \in 1 .. m /\ n \in 0 .. m /\ (n + 1) - 1 = n
        /\ Count(keep[n], P) = Cardinality(left(n))
    BY <1>2, <1>4
  <2>2. keep[n] \in Seq(T) /\ s[n + 1] \in T
    BY <1>1, <1>2, <2>1
  <2>3. keep[n + 1] = IF n + 1 \in K THEN keep[n] ELSE Append(keep[n], s[n + 1])
    BY <1>1, <2>1
  <2>4. /\ Count(keep[n], P) \in Nat
        /\ Count(Append(keep[n], s[n + 1]), P)
             = IF s[n + 1] \in P THEN Count(keep[n], P) + 1 ELSE Count(keep[n], P)
    <3> DEFINE k == keep[n]
               x == s[n + 1]
    <3>1. k \in Seq(T) /\ x \in T
      BY <2>2
    <3> HIDE DEF k, x, left, S
    <3>2. /\ Count(k, P) \in Nat
          /\ Count(Append(k, x), P) = IF x \in P THEN Count(k, P) + 1 ELSE Count(k, P)
      BY <3>1, CountOfAppend
    <3> QED BY <3>2 DEF k, x
  <2>5. IsFiniteSet(left(n)) /\ n + 1 \notin left(n)
    <3>1. left(n) \subseteq 1 .. n /\ n + 1 \notin left(n)
      OBVIOUS
    <3>2. IsFiniteSet(1 .. n)
      BY FS_Interval
    <3> HIDE DEF left
    <3> QED BY <3>1, <3>2, FS_Subset
  <2>6. left(n + 1) = IF n + 1 \notin K /\ s[n + 1] \in P THEN left(n) \cup {n + 1} ELSE left(n)
    <3>1. \A i : i \in 1 .. n + 1 <=> i \in 1 .. n \/ i = n + 1
      BY <2>1
    <3> QED BY <3>1
  <2> HIDE DEF left, S
  <2>7. Cardinality(left(n) \cup {n + 1}) = Cardinality(left(n)) + 1
    BY <2>5, FS_AddElement
  <2> QED BY <2>1, <2>3, <2>4, <2>6, <2>7
<1>5. \A n \in Nat : n \in S
  <2> HIDE DEF S
  <2> QED BY <1>3, <1>4, Induction
<1>6. Count(keep[m], P) = Cardinality(left(m))
  BY <1>2, <1>5
<1>7. left(m) = {i \in DOMAIN s : s[i] \in P} \ K
  BY <1>2
<1> QED BY <1>1, <1>6, <1>7

-----------------------------------------------------------------------------
\* Addresses and their places in the banks.

LEMMA Numbers ==
  NBANK \in Nat \ {0} /\ DEPTH \in Nat \ {0} /\ DOMAIN <<>> = {} /\ Addrs \subseteq Nat
BY XbarAssumption DEF Addrs

LEMMA PlaceType ==
  ASSUME NEW a \in Addrs
  PROVE  Bank(a) \in Banks /\ Local(a) \in Locals
<1>1. /\ NBANK \in Nat \ {0} /\ DEPTH \in Nat \ {0} /\ DEPTH \in Nat /\ NBANK \in Nat
      /\ a \in 0 .. DEPTH * NBANK - 1 /\ a \in Int
  <2>1. NBANK * DEPTH = DEPTH * NBANK
    BY Numbers, SMT
  <2> QED BY <2>1, Numbers DEF Addrs
<1>2. a \div NBANK \in 0 .. DEPTH - 1
  BY <1>1, RowOfElement
<1>3. a % NBANK \in 0 .. NBANK - 1
  BY <1>1, Remainder
<1>4. (a \div NBANK) % NBANK \in 0 .. NBANK - 1
  <2> DEFINE q == a \div NBANK
  <2>1. q \in Int
    BY <1>1, <1>2
  <2> HIDE DEF q
  <2>2. q % NBANK \in 0 .. NBANK - 1
    BY <1>1, <2>1, Remainder
  <2> QED BY <2>2 DEF q
<1> QED BY <1>2, <1>3, <1>4, XbarAssumption DEF Bank, Local, Banks, Locals

\* Two addresses in one place are the same, hashed or not.
LEMMA PlacesDistinct ==
  ASSUME NEW a \in Addrs, NEW c \in Addrs, Bank(a) = Bank(c), Local(a) = Local(c)
  PROVE  a = c
<1> DEFINE q == a \div NBANK
           x == a % NBANK
           y == c % NBANK
           h == q % NBANK
<1>1. NBANK \in Nat \ {0} /\ a \in Int /\ c \in Int /\ c \div NBANK = q
  BY Numbers DEF Local, Addrs
<1>2. q \in Int /\ x \in 0 .. NBANK - 1 /\ a = q * NBANK + x
  BY <1>1, Remainder
<1>3. y \in 0 .. NBANK - 1 /\ c = q * NBANK + y
  <2>1. c % NBANK \in 0 .. NBANK - 1 /\ c = (c \div NBANK) * NBANK + (c % NBANK)
    BY <1>1, Remainder
  <2> QED BY <1>1, <2>1
<1>4. h \in 0 .. NBANK - 1
  <2> HIDE DEF q
  <2> QED BY <1>1, <1>2, Remainder
<1>5. Bank(a) = (IF hash_en THEN BankXor(x, h) ELSE x)
      /\ Bank(c) = (IF hash_en THEN BankXor(y, h) ELSE y)
  BY <1>1 DEF Bank
<1> HIDE DEF q, x, y, h
<1>6. x = y
  <2>1. CASE hash_en
    <3>1. BankXor(x, h) = BankXor(y, h)
      BY <1>5, <2>1
    <3>2. BankXor(BankXor(x, h), h) = x /\ BankXor(BankXor(y, h), h) = y
      BY <1>2, <1>3, <1>4, XbarAssumption DEF Banks
    <3> QED BY <3>1, <3>2
  <2>2. CASE ~ hash_en
    BY <1>5, <2>2
  <2> QED BY <2>1, <2>2
<1> QED BY <1>2, <1>3, <1>6

\* The positions that no earlier one has the bank of, and those of one bank.
Firsts(bank, n) == {i \in 1 .. n : \A j \in 1 .. i - 1 : bank[j] # bank[i]}
OfBank(bank, n, b) == {i \in 1 .. n : bank[i] = b}

\* Of the requests for one bank exactly the first is served.
LEMMA FirstServed ==
  ASSUME NEW n \in Nat, NEW bank, NEW b, NEW K, NEW D,
         K = Firsts(bank, n), D = OfBank(bank, n, b), D # {}
  PROVE  \E i \in D : D \cap K = {i}
<1> USE DEF Firsts, OfBank
<1>1. D \subseteq Nat
  OBVIOUS
<1>2. PICK i \in D : \A j \in D : i <= j
  BY <1>1, Smallest
<1>3. i \in K
  <2>1. ASSUME NEW j \in 1 .. i - 1
        PROVE  bank[j] # bank[i]
    <3>1. j \in 1 .. n /\ ~ (i <= j)
      BY <1>2
    <3>2. j \notin D
      BY <1>2, <3>1
    <3> QED BY <1>2, <3>1, <3>2
  <2> QED BY <1>2, <2>1
<1>4. ASSUME NEW k \in D \cap K
      PROVE  k = i
  <2>1. i <= k /\ i \in 1 .. n /\ k \in 1 .. n /\ bank[i] = bank[k]
    BY <1>2
  <2>2. ~ (i \in 1 .. k - 1)
    BY <2>1
  <2> QED BY <2>1, <2>2
<1> QED BY <1>2, <1>3, <1>4

\* An edge that serves one of the elements in P, if there is any, leaves one less.
LEMMA OneLess ==
  ASSUME NEW T, NEW s \in Seq(T), NEW K, NEW P, NEW D, D = {i \in DOMAIN s : s[i] \in P},
         D # {} => \E i \in D : D \cap K = {i}
  PROVE  Count(Without(s, K), P) = IF Count(s, P) = 0 THEN 0 ELSE Count(s, P) - 1
<1>1. Count(Without(s, K), P) = Cardinality(D \ K)
  BY CountOfRest
<1>2. IsFiniteSet(D) /\ Count(s, P) = Cardinality(D) /\ Cardinality(D) \in Nat
  BY CountType DEF Count
<1>3. Cardinality(D) = 0 <=> D = {}
  BY <1>2, FS_EmptySet
<1>4. CASE D = {}
  <2>1. D \ K = {}
    BY <1>4
  <2> QED BY <1>1, <1>2, <1>3, <1>4, <2>1
<1>5. CASE D # {}
  <2>1. PICK i \in D : D \cap K = {i}
    BY <1>5
  <2>2. D \ K = D \ {i}
    BY <2>1
  <2>3. Cardinality(D \ {i}) = Cardinality(D) - 1
    BY <1>2, <2>1, FS_RemoveElement
  <2> QED BY <1>1, <1>2, <1>3, <1>5, <2>2, <2>3
<1> QED BY <1>4, <1>5

-----------------------------------------------------------------------------
\* The most crowded bank.

For(b) == {a \in Addrs : Bank(a) = b}

LEMMA CrowdIsMost ==
  ASSUME NEW s \in Seq(Addrs)
  PROVE  /\ Crowd(s) \in Nat
         /\ \E b \in Banks : Crowd(s) = Count(s, For(b))
         /\ \A b \in Banks : Count(s, For(b)) <= Crowd(s)
<1> DEFINE N(b) == Cardinality({i \in DOMAIN s : Bank(s[i]) = b})
           C == {N(b) : b \in Banks}
<1>1. ASSUME NEW b \in Banks
      PROVE  N(b) = Count(s, For(b)) /\ N(b) \in Nat /\ N(b) <= Len(s)
  <2>1. {i \in DOMAIN s : Bank(s[i]) = b} = {i \in DOMAIN s : s[i] \in For(b)}
    <3>1. \A i \in DOMAIN s : s[i] \in Addrs
      OBVIOUS
    <3> QED BY <3>1 DEF For
  <2>2. N(b) = Count(s, For(b))
    BY <2>1 DEF Count
  <2> QED BY <2>2, CountType
<1>2. Crowd(s) = CHOOSE x \in C : \A y \in C : x >= y
  BY DEF Crowd, Max
<1>3. 0 \in Banks
  BY Numbers DEF Banks
<1> HIDE DEF N
<1>4. C \subseteq Nat /\ C # {} /\ Len(s) \in Nat /\ \A x \in C : x <= Len(s)
  BY <1>1, <1>3
<1> HIDE DEF C
<1>5. \E x \in C : \A y \in C : x >= y
  BY <1>4, Largest
<1>6. Crowd(s) \in C /\ \A y \in C : Crowd(s) >= y
  BY <1>2, <1>5
<1> USE DEF C
<1>7. \A b \in Banks : N(b) \in C
  OBVIOUS
<1>8. PICK b \in Banks : Crowd(s) = N(b)
  BY <1>6
<1>9. ASSUME NEW c \in Banks
      PROVE  Count(s, For(c)) <= Crowd(s)
  BY <1>1, <1>6, <1>7, <1>8
<1> QED BY <1>1, <1>8, <1>9

LEMMA CrowdOfNone == Crowd(<<>>) = 0
<1>1. <<>> \in Seq(Addrs) /\ Len(<<>>) = 0
  OBVIOUS
<1>2. PICK b \in Banks : Crowd(<<>>) = Count(<<>>, For(b))
  BY <1>1, CrowdIsMost
<1>3. Count(<<>>, For(b)) \in Nat /\ Count(<<>>, For(b)) <= 0
  BY <1>1, CountType
<1> QED BY <1>2, <1>3

LEMMA CrowdFalls ==
  ASSUME NEW s \in Seq(Addrs), NEW t \in Seq(Addrs), s # <<>>,
         \A b \in Banks : Count(t, For(b))
           = IF Count(s, For(b)) = 0 THEN 0 ELSE Count(s, For(b)) - 1
  PROVE  Crowd(t) = Crowd(s) - 1
<1>1. PICK b \in Banks : Crowd(s) = Count(s, For(b))
  BY CrowdIsMost
<1>2. PICK c \in Banks : Crowd(t) = Count(t, For(c))
  BY CrowdIsMost
<1>3. /\ Crowd(s) \in Nat /\ \A d \in Banks : Count(s, For(d)) <= Crowd(s)
      /\ Crowd(t) \in Nat /\ \A d \in Banks : Count(t, For(d)) <= Crowd(t)
  BY CrowdIsMost
<1>4. \A d \in Banks : Count(s, For(d)) \in Nat
  BY CountType
<1>5. Crowd(s) # 0
  <2> DEFINE d == Bank(s[1])
             D == {i \in DOMAIN s : s[i] \in For(d)}
  <2>1. 1 \in DOMAIN s /\ s[1] \in Addrs
    OBVIOUS
  <2>2. d \in Banks /\ 1 \in D
    BY <2>1, PlaceType DEF For
  <2>3. IsFiniteSet(D) /\ Count(s, For(d)) = Cardinality(D)
    BY CountType DEF Count
  <2> HIDE DEF d, D
  <2>4. Cardinality(D) # 0
    BY <2>2, <2>3, FS_EmptySet
  <2> QED BY <1>3, <1>4, <2>2, <2>3, <2>4
<1>6. Count(t, For(b)) = Crowd(s) - 1
  BY <1>1, <1>5
<1>7. Crowd(t) <= Crowd(s) - 1
  BY <1>2, <1>3, <1>4, <1>5
<1> QED BY <1>3, <1>6, <1>7

-----------------------------------------------------------------------------
\* What an edge leaves of the batches.

LEMMA ReadsLeft ==
  ASSUME XbarInv, NEW t, t = Without(reads, {i \in DOMAIN reads : served(i)})
  PROVE  /\ t \in Seq(Addrs) /\ Len(t) <= Len(reads)
         /\ Crowd(t) = IF reads = <<>> THEN Crowd(reads) ELSE Crowd(reads) - 1
<1> DEFINE K == {i \in DOMAIN reads : served(i)}
           n == Len(reads)
           bank == [i \in 1 .. n |-> Bank(reads[i])]
<1>1. reads \in Seq(Addrs) /\ n \in Nat /\ DOMAIN reads = 1 .. n
  BY DEF XbarInv
<1>2. t \in Seq(Addrs) /\ Len(t) <= Len(reads)
  <2> HIDE DEF K
  <2>1. t = Without(reads, K)
    BY DEF K
  <2> QED BY <1>1, <2>1, WithoutType
<1>3. CASE reads = <<>>
  <2>1. Len(t) <= 0 /\ Len(t) \in Nat
    BY <1>2, <1>3
  <2>2. t = <<>>
    BY <1>2, <2>1
  <2> QED BY <1>2, <1>3, <2>2
<1>4. CASE reads # <<>>
  <2>1. K = Firsts(bank, n)
    <3>1. ASSUME NEW i \in 1 .. n
          PROVE  served(i) <=> \A j \in 1 .. i - 1 : bank[j] # bank[i]
      <4>1. \A j \in 1 .. i - 1 : j \in 1 .. n
        BY <1>1
      <4>2. \A j \in 1 .. n : req_addr(j) = reads[j] /\ bank[j] = Bank(reads[j])
        BY <1>1 DEF req_addr
      <4> HIDE DEF bank, n
      <4> QED BY <4>1, <4>2 DEF served
    <3> QED BY <1>1, <3>1 DEF Firsts
  <2>2. ASSUME NEW b \in Banks
        PROVE  Count(t, For(b)) = IF Count(reads, For(b)) = 0 THEN 0 ELSE Count(reads, For(b)) - 1
    <3> DEFINE D == {i \in DOMAIN reads : reads[i] \in For(b)}
    <3>1. D = OfBank(bank, n, b)
      <4>1. \A i \in 1 .. n : reads[i] \in Addrs
        BY <1>1
      <4> QED BY <1>1, <4>1 DEF For, OfBank
    <3> HIDE DEF D, K, bank, n
    <3>2. D # {} => \E i \in D : D \cap K = {i}
      BY <1>1, <2>1, <3>1, FirstServed
    <3>3. t = Without(reads, K)
      BY DEF K
    <3>4. D = {i \in DOMAIN reads : reads[i] \in For(b)}
      BY DEF D
    <3> DEFINE P == For(b)
    <3> HIDE DEF P
    <3>5. Count(Without(reads, K), P) = IF Count(reads, P) = 0 THEN 0 ELSE Count(reads, P) - 1
      <4>1. D = {i \in DOMAIN reads : reads[i] \in P}
        BY <3>4 DEF P
      <4> QED BY <1>1, <3>2, <4>1, OneLess
    <3> QED BY <3>3, <3>5 DEF P
  <2>3. Crowd(t) = Crowd(reads) - 1
    <3> HIDE DEF K
    <3> QED BY <1>1, <1>2, <1>4, <2>2, CrowdFalls
  <2> QED BY <1>2, <1>4, <2>3
<1> QED BY <1>3, <1>4

AddrsIn(w) == [i \in DOMAIN w |-> w[i].addr]
WritesFor(b) == {r \in Requests : Bank(r.addr) = b}

LEMMA RequestType ==
  ASSUME NEW r \in Requests
  PROVE  r.addr \in Addrs
BY XbarAssumption DEF Requests

LEMMA AddrsOfWrites ==
  ASSUME NEW w \in Seq(Requests)
  PROVE  /\ AddrsIn(w) \in Seq(Addrs) /\ Len(AddrsIn(w)) = Len(w)
         /\ \A b \in Banks : Count(AddrsIn(w), For(b)) = Count(w, WritesFor(b))
<1>1. Len(w) \in Nat /\ DOMAIN w = 1 .. Len(w) /\ \A i \in 1 .. Len(w) : w[i] \in Requests
  OBVIOUS
<1>2. \A i \in 1 .. Len(w) : w[i].addr \in Addrs
  BY <1>1, RequestType
<1>3. AddrsIn(w) = [i \in 1 .. Len(w) |-> w[i].addr]
  BY <1>1 DEF AddrsIn
<1>4. AddrsIn(w) \in Seq(Addrs) /\ Len(AddrsIn(w)) = Len(w)
  BY <1>1, <1>2, <1>3
<1>5. ASSUME NEW b \in Banks
      PROVE  Count(AddrsIn(w), For(b)) = Count(w, WritesFor(b))
  <2>1. {i \in DOMAIN AddrsIn(w) : AddrsIn(w)[i] \in For(b)} = {i \in DOMAIN w : w[i] \in WritesFor(b)}
    BY <1>1, <1>2, <1>3 DEF For, WritesFor
  <2> QED BY <2>1 DEF Count
<1> QED BY <1>4, <1>5

LEMMA WritesLeft ==
  ASSUME XbarInv, NEW t, t = Without(writes, {i \in DOMAIN writes : wr_grant(i)})
  PROVE  /\ t \in Seq(Requests) /\ Len(t) <= Len(writes)
         /\ Crowd(AddrsIn(t)) = IF writes = <<>> THEN Crowd(AddrsIn(writes))
                                ELSE Crowd(AddrsIn(writes)) - 1
<1> DEFINE K == {i \in DOMAIN writes : wr_grant(i)}
           n == Len(writes)
           bank == [i \in 1 .. n |-> Bank(writes[i].addr)]
<1>1. writes \in Seq(Requests) /\ n \in Nat /\ DOMAIN writes = 1 .. n
  BY DEF XbarInv
<1>2. t \in Seq(Requests) /\ Len(t) <= Len(writes)
  <2> HIDE DEF K
  <2>1. t = Without(writes, K)
    BY DEF K
  <2> QED BY <1>1, <2>1, WithoutType
<1>3. CASE writes = <<>>
  <2>1. Len(t) <= 0 /\ Len(t) \in Nat
    BY <1>2, <1>3
  <2>2. t = <<>>
    BY <1>2, <2>1
  <2> QED BY <1>2, <1>3, <2>2
<1>4. CASE writes # <<>>
  <2>1. K = Firsts(bank, n)
    <3>1. ASSUME NEW i \in 1 .. n
          PROVE  wr_grant(i) <=> \A j \in 1 .. i - 1 : bank[j] # bank[i]
      <4>1. \A j \in 1 .. i - 1 : j \in 1 .. n
        BY <1>1
      <4>2. \A j \in 1 .. n : bank[j] = Bank(writes[j].addr)
        OBVIOUS
      <4>3. i \in DOMAIN writes
        BY <1>1
      <4> HIDE DEF bank, n
      <4> QED BY <4>1, <4>2, <4>3 DEF wr_grant
    <3> QED BY <1>1, <3>1 DEF Firsts
  <2>2. ASSUME NEW b \in Banks
        PROVE  Count(t, WritesFor(b))
                 = IF Count(writes, WritesFor(b)) = 0 THEN 0 ELSE Count(writes, WritesFor(b)) - 1
    <3> DEFINE P == WritesFor(b)
               D == {i \in DOMAIN writes : writes[i] \in P}
    <3>1. D = OfBank(bank, n, b)
      <4>1. \A i \in 1 .. n : writes[i] \in Requests
        BY <1>1
      <4> QED BY <1>1, <4>1 DEF WritesFor, OfBank
    <3> HIDE DEF D, K, bank, n, P
    <3>2. D # {} => \E i \in D : D \cap K = {i}
      BY <1>1, <2>1, <3>1, FirstServed
    <3>3. t = Without(writes, K)
      BY DEF K
    <3>4. D = {i \in DOMAIN writes : writes[i] \in P}
      BY DEF D
    <3>5. Count(Without(writes, K), P) = IF Count(writes, P) = 0 THEN 0 ELSE Count(writes, P) - 1
      BY <1>1, <3>2, <3>4, OneLess
    <3> QED BY <3>3, <3>5 DEF P
  <2>3. Crowd(AddrsIn(t)) = Crowd(AddrsIn(writes)) - 1
    <3> DEFINE u == AddrsIn(t)
               v == AddrsIn(writes)
    <3>1. /\ u \in Seq(Addrs) /\ v \in Seq(Addrs) /\ Len(v) = n
          /\ \A b \in Banks : Count(u, For(b)) = Count(t, WritesFor(b))
          /\ \A b \in Banks : Count(v, For(b)) = Count(writes, WritesFor(b))
      <4> HIDE DEF K
      <4> QED BY <1>1, <1>2, AddrsOfWrites
    <3>2. v # <<>>
      BY <1>1, <1>4, <3>1
    <3> HIDE DEF K, u, v
    <3>3. Crowd(u) = Crowd(v) - 1
      BY <2>2, <3>1, <3>2, CrowdFalls
    <3> QED BY <3>3 DEF u, v
  <2> QED BY <1>2, <1>4, <2>3
<1> QED BY <1>3, <1>4

-----------------------------------------------------------------------------
\* Requests stay requests, and never more of them than there are ports.

LEMMA BatchType ==
  /\ \A s \in ReadBatches : s \in Seq(Addrs) /\ Len(s) <= NBANK
  /\ \A s \in WriteBatches : s \in Seq(Requests) /\ Len(s) <= NBANK
<1>1. \A s \in ReadBatches : s \in Seq(Addrs) /\ Len(s) <= NBANK
  BY XbarAssumption DEF Ports
<1>2. ASSUME NEW s \in WriteBatches
      PROVE  s \in Seq(Requests) /\ Len(s) <= NBANK
  <2>1. s = [i \in 1 .. Len(s) |-> s[i]] /\ Len(s) \in Nat /\ Len(s) <= NBANK
    BY XbarAssumption DEF Ports
  <2>2. \A i \in 1 .. Len(s) : s[i] \in Requests
    BY <2>1 DEF Requests
  <2> DEFINE n == Len(s)
  <2> HIDE DEF n
  <2>3. s = [i \in 1 .. n |-> s[i]] /\ n \in Nat
    BY <2>1 DEF n
  <2>4. s \in [1 .. n -> Requests]
    BY <2>2, <2>3 DEF n
  <2>5. s \in Seq(Requests)
    BY <2>3, <2>4
  <2> QED BY <2>1, <2>5
<1> QED BY <1>1, <1>2

LEMMA XbarInvStep == XbarInv /\ [XbarNext]_xbarVars => XbarInv'
<1> SUFFICES ASSUME XbarInv, [XbarNext]_xbarVars PROVE XbarInv'
  OBVIOUS
<1>0. NBANK \in Nat /\ Len(reads) \in Nat /\ Len(writes) \in Nat
  BY Numbers DEF XbarInv
<1>1. CASE ClockEdge
  <2>1. reads' \in Seq(Addrs) /\ Len(reads') <= Len(reads)
    BY <1>1, ReadsLeft DEF ClockEdge, ReadSide
  <2>2. writes' \in Seq(Requests) /\ Len(writes') <= Len(writes)
    BY <1>1, WritesLeft DEF ClockEdge, WriteSide
  <2>3. asked' = Len(reads) /\ hash_en' = hash_en
    BY <1>1 DEF ClockEdge, ReadSide
  <2>4. Len(reads') \in Nat /\ Len(writes') \in Nat
    BY <2>1, <2>2
  <2> QED BY <1>0, <2>1, <2>2, <2>3, <2>4 DEF XbarInv
<1>2. CASE ResetEdge
  <2>1. writes' \in Seq(Requests) /\ Len(writes') <= Len(writes)
    BY <1>2, WritesLeft DEF ResetEdge, WriteSide
  <2>2. asked' = Len(reads) /\ hash_en' = hash_en /\ reads' = reads
    BY <1>2 DEF ResetEdge
  <2>3. Len(writes') \in Nat
    BY <2>1
  <2> QED BY <1>0, <2>1, <2>2, <2>3 DEF XbarInv
<1>3. CASE NewReads
  BY <1>3, BatchType DEF NewReads, XbarInv
<1>4. CASE NewWrites
  BY <1>4, BatchType DEF NewWrites, XbarInv
<1>5. CASE UNCHANGED xbarVars
  BY <1>5 DEF xbarVars, XbarInv
<1> QED BY <1>1, <1>2, <1>3, <1>4, <1>5 DEF XbarNext

LEMMA XbarInvHolds == XbarSpec => []XbarInv
<1>1. XbarInit => XbarInv
  <2> SUFFICES ASSUME XbarInit PROVE XbarInv
    OBVIOUS
  <2>1. <<>> \in Seq(Addrs) /\ <<>> \in Seq(Requests) /\ Len(<<>>) = 0
    OBVIOUS
  <2>2. NBANK \in Nat
    BY Numbers
  <2> QED BY <2>1, <2>2 DEF XbarInit, XbarInv
<1> QED BY <1>1, XbarInvStep, PTL DEF XbarSpec

-----------------------------------------------------------------------------
\* The rounds of a batch.

RoundsInv ==
  /\ rounds \in [readsDue : Nat, reads : Nat, writesDue : Nat, writes : Nat]
  /\ RoundsAreConflicts

\* The place of an address is fixed: the design does not change hash_en.
LEMMA CrowdIsFixed ==
  ASSUME hash_en' = hash_en
  PROVE  /\ Crowd(reads)' = Crowd(reads')
         /\ Crowd(WriteAddrs)' = Crowd(AddrsIn(writes'))
         /\ Crowd(WriteAddrs') = Crowd(AddrsIn(writes'))
<1>1. \A a : Bank(a)' = Bank(a)
  BY DEF Bank
<1>2. Crowd(reads)' = Crowd(reads')
  BY <1>1 DEF Crowd
<1>3. WriteAddrs' = AddrsIn(writes')
  BY DEF WriteAddrs, AddrsIn
<1>4. Crowd(WriteAddrs)' = Crowd(WriteAddrs')
  BY <1>1 DEF Crowd
<1> QED BY <1>2, <1>3, <1>4

LEMMA RoundsStart == XbarInit => RoundsInv
<1> SUFFICES ASSUME XbarInit PROVE RoundsInv
  OBVIOUS
<1>1. reads = <<>> /\ writes = <<>> /\ rounds = NoRounds
  BY DEF XbarInit
<1>2. WriteAddrs = <<>>
  BY <1>1 DEF WriteAddrs
<1>3. Crowd(reads) = 0 /\ Crowd(WriteAddrs) = 0
  BY <1>1, <1>2, CrowdOfNone
<1> QED BY <1>1, <1>3 DEF RoundsInv, RoundsAreConflicts, NoRounds

LEMMA RoundsStep == XbarInv /\ RoundsInv /\ [XbarNext]_xbarVars => RoundsInv'
<1> SUFFICES ASSUME XbarInv, RoundsInv, [XbarNext]_xbarVars PROVE RoundsInv'
  OBVIOUS
<1> DEFINE R == Crowd(reads)
           W == Crowd(AddrsIn(writes))
<1>1. /\ rounds \in [readsDue : Nat, reads : Nat, writesDue : Nat, writes : Nat]
      /\ rounds.reads + R = rounds.readsDue /\ rounds.writes + W = rounds.writesDue
  <2>1. WriteAddrs = AddrsIn(writes)
    BY DEF WriteAddrs, AddrsIn
  <2> QED BY <2>1 DEF RoundsInv, RoundsAreConflicts
<1>2. R \in Nat /\ W \in Nat
  <2>1. reads \in Seq(Addrs) /\ AddrsIn(writes) \in Seq(Addrs)
    BY AddrsOfWrites DEF XbarInv
  <2> QED BY <2>1, CrowdIsMost
<1>3. hash_en' = hash_en
  BY DEF XbarNext, xbarVars, ClockEdge, ResetEdge, NewReads, NewWrites
<1> DEFINE C == Crowd(reads')
           E == Crowd(AddrsIn(writes'))
<1> SUFFICES /\ rounds' \in [readsDue : Nat, reads : Nat, writesDue : Nat, writes : Nat]
             /\ rounds'.reads + C = rounds'.readsDue /\ rounds'.writes + E = rounds'.writesDue
  BY <1>3, CrowdIsFixed DEF RoundsInv, RoundsAreConflicts
<1>4. ASSUME WriteSide
      PROVE  E = IF writes = <<>> THEN W ELSE W - 1
  BY <1>4, WritesLeft DEF WriteSide
<1>5. CASE ClockEdge
  <2>1. C = IF reads = <<>> THEN R ELSE R - 1
    BY <1>5, ReadsLeft DEF ClockEdge, ReadSide
  <2>2. E = IF writes = <<>> THEN W ELSE W - 1
    BY <1>4, <1>5 DEF ClockEdge
  <2>3. rounds' = [rounds EXCEPT !.reads = IF reads = <<>> THEN @ ELSE @ + 1,
                                 !.writes = IF writes = <<>> THEN @ ELSE @ + 1]
    BY <1>5 DEF ClockEdge
  <2> HIDE DEF R, W, C, E
  <2>4. rounds' = [readsDue |-> rounds.readsDue,
                   reads |-> IF reads = <<>> THEN rounds.reads ELSE rounds.reads + 1,
                   writesDue |-> rounds.writesDue,
                   writes |-> IF writes = <<>> THEN rounds.writes ELSE rounds.writes + 1]
    BY <1>1, <2>3
  <2> QED BY <1>1, <1>2, <2>1, <2>2, <2>4
<1>6. CASE ResetEdge
  <2>1. E = IF writes = <<>> THEN W ELSE W - 1
    BY <1>4, <1>6 DEF ResetEdge
  <2>2. /\ rounds' = [rounds EXCEPT !.writes = IF writes = <<>> THEN @ ELSE @ + 1]
        /\ C = R
    BY <1>6 DEF ResetEdge
  <2> HIDE DEF R, W, C, E
  <2> QED BY <1>1, <1>2, <2>1, <2>2
<1>7. CASE NewReads
  <2>1. /\ rounds' = [rounds EXCEPT !.readsDue = C, !.reads = 0]
        /\ writes' = writes /\ reads' \in ReadBatches
    BY <1>7 DEF NewReads
  <2>2. C \in Nat
    BY <2>1, BatchType, CrowdIsMost
  <2>3. E = W
    BY <2>1
  <2> HIDE DEF R, W, C, E
  <2>4. rounds' = [readsDue |-> C, reads |-> 0, writesDue |-> rounds.writesDue, writes |-> rounds.writes]
    BY <1>1, <2>1
  <2> QED BY <1>1, <1>2, <2>2, <2>3, <2>4
<1>8. CASE NewWrites
  <2>1. /\ rounds' = [rounds EXCEPT !.writesDue = E, !.writes = 0]
        /\ reads' = reads /\ writes' \in WriteBatches
    BY <1>8, CrowdIsFixed DEF NewWrites
  <2>2. E \in Nat
    BY <2>1, BatchType, AddrsOfWrites, CrowdIsMost
  <2>3. C = R
    BY <2>1
  <2> HIDE DEF R, W, C, E
  <2>4. rounds' = [readsDue |-> rounds.readsDue, reads |-> rounds.reads, writesDue |-> E, writes |-> 0]
    BY <1>1, <2>1
  <2> QED BY <1>1, <1>2, <2>2, <2>3, <2>4
<1>9. CASE UNCHANGED xbarVars
  <2>1. rounds' = rounds /\ C = R /\ E = W
    BY <1>9 DEF xbarVars
  <2> HIDE DEF R, W, C, E
  <2> QED BY <1>1, <1>2, <2>1
<1> QED BY <1>5, <1>6, <1>7, <1>8, <1>9 DEF XbarNext

\* A batch of reads, or of writes, takes as many edges as its most crowded bank
\* has requests, for every number of banks and every batch: at each edge every
\* bank that is still wanted serves the lowest port that wants it (bank_xbar.sv
\* served, wr_grant), so the count of the most crowded one falls by exactly one.
THEOREM BatchTakesItsCrowd == XbarSpec => []RoundsAreConflicts
<1>1. RoundsInv => RoundsAreConflicts
  BY DEF RoundsInv
<1> QED BY <1>1, XbarInvHolds, RoundsStart, RoundsStep, PTL DEF XbarSpec

-----------------------------------------------------------------------------
\* The flat memory that the ports see.

words == [a \in Addrs |-> mem[Bank(a)][Local(a)]]
answered == [i \in {p \in 1 .. asked : grant[p]} |-> rd_data(i)]

Served == {i \in DOMAIN reads : served(i)}
Granted == {i \in DOMAIN writes : wr_grant(i)}

\* The lowest of the ports that want a bank, if one of them has it.
LEMMA LowestIs ==
  ASSUME NEW S, S \subseteq Nat, NEW i \in S, \A j \in S : ~ (j < i)
  PROVE  Min(S) = i
<1>1. \A j \in S : i <= j
  OBVIOUS
<1>2. Min(S) \in S /\ \A j \in S : Min(S) <= j
  BY <1>1 DEF Min
<1> DEFINE m == Min(S)
<1> HIDE DEF m
<1>3. m \in Nat /\ i \in Nat /\ m <= i /\ i <= m
  BY <1>1, <1>2 DEF m
<1> QED BY <1>3 DEF m

LEMMA AnswersAreWords ==
  ASSUME XbarInv, ReadSide
  PROVE  answered' = [k \in Served |-> words[reads[k]]]
<1> DEFINE n == Len(reads)
<1>1. /\ n \in Nat /\ n <= NBANK /\ DOMAIN reads = 1 .. n /\ NBANK \in Nat
      /\ \A i \in 1 .. n : reads[i] \in Addrs /\ req_addr(i) = reads[i]
  BY Numbers DEF XbarInv, req_addr
<1>2. {p \in 1 .. asked' : grant'[p]} = Served
  <2>1. asked' = n /\ grant' = [i \in Ports |-> served(i)] /\ Ports = 1 .. NBANK
    BY DEF ReadSide, Ports
  <2>2. \A p \in 1 .. n : p \in Ports
    BY <1>1, <2>1
  <2>3. \A p \in 1 .. n : grant'[p] <=> served(p)
    BY <2>1, <2>2
  <2> HIDE DEF n
  <2> QED BY <1>1, <2>1, <2>3 DEF Served
<1>3. ASSUME NEW i \in Served
      PROVE  rd_data(i)' = words[reads[i]]
  <2> DEFINE b == Bank(reads[i])
  <2>1. i \in 1 .. n /\ i \in Ports /\ reads[i] \in Addrs /\ req_addr(i) = reads[i]
    BY <1>1 DEF Served, Ports
  <2>2. b \in Banks
    BY <2>1, PlaceType
  <2>3. rd_data(i)' = mem[b][b_rd_addr(b)]
    <3>1. bank_of_d'[i] = b
      BY <2>1 DEF ReadSide
    <3>2. b_rd_data'[b] = mem[b][b_rd_addr(b)]
      BY <2>2 DEF ReadSide
    <3> QED BY <3>1, <3>2 DEF rd_data
  <2>4. Min(Readers(b)) = i
    <3>1. Readers(b) \subseteq Nat /\ i \in Readers(b)
      BY <1>1, <2>1 DEF Readers, Ports
    <3>2. ASSUME NEW j \in Readers(b)
          PROVE  ~ (j < i)
      <4>1. Bank(req_addr(j)) = b /\ j \in 1 .. NBANK
        BY DEF Readers, Ports
      <4>2. \A k \in 1 .. i - 1 : Bank(req_addr(k)) # b
        BY <2>1 DEF Served, served
      <4>3. j < i => j \in 1 .. i - 1
        BY <2>1, <4>1
      <4> QED BY <4>1, <4>2, <4>3
    <3> HIDE DEF b
    <3> QED BY <3>1, <3>2, LowestIs
  <2>5. Readers(b) # {}
    BY <2>1 DEF Readers
  <2>6. b_rd_addr(b) = Local(reads[i])
    BY <2>1, <2>4, <2>5 DEF b_rd_addr
  <2> QED BY <2>1, <2>3, <2>6 DEF words
<1>4. answered' = [k \in {p \in 1 .. asked' : grant'[p]} |-> rd_data(k)']
  BY DEF answered
<1> QED BY <1>2, <1>3, <1>4

\* After an edge a word has the data of the granted write to it, if there is one.
LEMMA WordsWritten ==
  ASSUME XbarInv, WriteSide, hash_en' = hash_en
  PROVE  words' = [a \in Addrs |->
                     IF \E k \in Granted : writes[k].addr = a
                     THEN writes[CHOOSE k \in Granted : writes[k].addr = a].data ELSE words[a]]
<1> DEFINE n == Len(writes)
<1>1. /\ n \in Nat /\ DOMAIN writes = 1 .. n
      /\ \A i \in 1 .. n : writes[i].addr \in Addrs
  BY RequestType DEF XbarInv
<1>2. ASSUME NEW a \in Addrs
      PROVE  mem'[Bank(a)][Local(a)]
               = IF \E k \in Granted : writes[k].addr = a
                 THEN writes[CHOOSE k \in Granted : writes[k].addr = a].data ELSE words[a]
  <2> DEFINE b == Bank(a)
             l == Local(a)
             S == Writers(b)
  <2>1. b \in Banks /\ l \in Locals
    BY PlaceType
  <2>2. mem'[b][l] = Written(b, l)
    BY <2>1 DEF WriteSide
  <2>3. ASSUME NEW k \in Granted, writes[k].addr = a
        PROVE  Min(S) = k /\ k \in S
    <3>1. k \in 1 .. n /\ \A j \in 1 .. k - 1 : Bank(writes[j].addr) # b
      BY <1>1, <2>3 DEF Granted, wr_grant
    <3>2. S \subseteq Nat /\ k \in S
      BY <1>1, <2>3, <3>1 DEF Writers
    <3>3. ASSUME NEW j \in S
          PROVE  ~ (j < k)
      <4>1. j \in 1 .. n /\ Bank(writes[j].addr) = b
        BY <1>1 DEF Writers
      <4>2. j < k => j \in 1 .. k - 1
        BY <3>1, <4>1
      <4> QED BY <3>1, <4>1, <4>2
    <3> HIDE DEF S
    <3> QED BY <3>2, <3>3, LowestIs
  <2>4. CASE \E k \in Granted : writes[k].addr = a
    <3> DEFINE k == CHOOSE i \in Granted : writes[i].addr = a
    <3>1. k \in Granted /\ writes[k].addr = a
      BY <2>4
    <3> HIDE DEF k
    <3>2. Min(S) = k /\ S # {}
      BY <2>3, <3>1
    <3>3. Written(b, l) = writes[k].data
      BY <3>1, <3>2 DEF Written
    <3> QED BY <2>2, <2>4, <3>3 DEF k
  <2>5. CASE ~ \E k \in Granted : writes[k].addr = a
    <3>1. Written(b, l) = mem[b][l]
      <4> SUFFICES ASSUME S # {}, Local(writes[Min(S)].addr) = l
                   PROVE  FALSE
        BY DEF Written
      <4>1. S \subseteq Nat
        BY <1>1 DEF Writers
      <4>2. PICK i \in S : \A j \in S : i <= j
        <5> HIDE DEF S
        <5> QED BY <4>1, Smallest
      <4>3. i \in 1 .. n /\ Bank(writes[i].addr) = b /\ i \in DOMAIN writes
        BY <1>1 DEF Writers
      <4>4. ASSUME NEW j \in S
            PROVE  ~ (j < i)
        BY <4>1, <4>2
      <4>5. Min(S) = i
        <5> HIDE DEF S
        <5> QED BY <4>1, <4>4, LowestIs
      <4>6. writes[i].addr = a
        <5>1. Local(writes[i].addr) = Local(a) /\ Bank(writes[i].addr) = Bank(a)
          BY <4>3, <4>5
        <5>2. writes[i].addr \in Addrs
          BY <1>1, <4>3
        <5> QED BY <5>1, <5>2, PlacesDistinct
      <4>7. wr_grant(i)
        <5>1. ASSUME NEW j \in 1 .. i - 1
              PROVE  Bank(writes[j].addr) # b
          <6>1. j \in 1 .. n /\ ~ (i <= j)
            BY <4>3
          <6>2. j \notin S
            BY <4>2, <6>1
          <6> QED BY <1>1, <6>1, <6>2 DEF Writers
        <5> QED BY <4>3, <5>1 DEF wr_grant
      <4> QED BY <2>5, <4>3, <4>6, <4>7 DEF Granted
    <3> QED BY <2>2, <2>5, <3>1 DEF words
  <2> QED BY <2>4, <2>5
<1>3. words' = [a \in Addrs |-> mem'[Bank(a)][Local(a)]]
  <2>1. \A a : Bank(a)' = Bank(a) /\ Local(a)' = Local(a)
    BY DEF Bank, Local
  <2> QED BY <2>1 DEF words
<1> QED BY <1>2, <1>3

LEMMA SameRest == \A s, K : Memory!Without(s, K) = Without(s, K)
BY DEF Memory!Without, Without

LEMMA EdgeServes ==
  ASSUME XbarInv, hash_en' = hash_en, WriteSide,
         NEW R, R \subseteq DOMAIN reads,
         answered' = [k \in R |-> words[reads[k]]], reads' = Without(reads, R)
  PROVE  Memory!MemoryNext
<1>1. \A k \in Granted, j \in 1 .. Len(writes) : j < k => writes[j].addr # writes[k].addr
  <2> SUFFICES ASSUME NEW k \in Granted, NEW j \in 1 .. Len(writes), j < k
               PROVE  Bank(writes[j].addr) # Bank(writes[k].addr)
    BY DEF Bank
  <2>1. k \in 1 .. Len(writes) /\ wr_grant(k)
    BY DEF Granted, XbarInv
  <2>2. j \in 1 .. k - 1
    BY <2>1
  <2> QED BY <2>1, <2>2 DEF wr_grant
<1>2. writes' = Without(writes, Granted) /\ Granted \subseteq DOMAIN writes
  BY DEF WriteSide, Granted
<1>3. PICK W : W = Granted
  OBVIOUS
<1>4. Memory!Serve(R, W)
  <2>1. Memory!Without(reads, R) = Without(reads, R) /\ Memory!Without(writes, W) = Without(writes, W)
    BY SameRest
  <2> QED BY <1>1, <1>2, <1>3, <2>1, WordsWritten DEF Memory!Serve, words, answered
<1>5. R \in SUBSET DOMAIN reads /\ W \in SUBSET DOMAIN writes
  BY <1>2, <1>3
<1> QED BY <1>4, <1>5, Zenon DEF Memory!MemoryNext

LEMMA MemoryStart == XbarInit => Memory!MemoryInit
<1> SUFFICES ASSUME XbarInit PROVE Memory!MemoryInit
  OBVIOUS
<1>1. words = [a \in Addrs |-> Blank]
  <2>1. \A a \in Addrs : Bank(a) \in Banks /\ Local(a) \in Locals
    BY PlaceType
  <2>2. mem = [b \in Banks |-> [l \in Locals |-> Blank]]
    BY DEF XbarInit
  <2> QED BY <2>1, <2>2 DEF words
<1>2. answered = <<>>
  <2>1. {p \in 1 .. asked : grant[p]} = {}
    BY DEF XbarInit
  <2>2. answered = [i \in {} |-> rd_data(i)]
    BY <2>1 DEF answered
  <2> QED BY <2>2
<1> QED BY <1>1, <1>2 DEF XbarInit, Memory!MemoryInit, words, answered

LEMMA MemoryStep ==
  XbarInv /\ [XbarNext]_xbarVars => [Memory!MemoryNext]_<<words, reads, writes, answered>>
<1> SUFFICES ASSUME XbarInv, [XbarNext]_xbarVars
             PROVE  [Memory!MemoryNext]_<<words, reads, writes, answered>>
  OBVIOUS
<1>1. CASE ClockEdge
  <2>1. hash_en' = hash_en /\ ReadSide /\ WriteSide
    BY <1>1 DEF ClockEdge
  <2>2. reads' = Without(reads, Served) /\ Served \subseteq DOMAIN reads
    BY <2>1 DEF ReadSide, Served
  <2>3. answered' = [k \in Served |-> words[reads[k]]]
    BY <2>1, AnswersAreWords
  <2> QED BY <2>1, <2>2, <2>3, EdgeServes
<1>2. CASE ResetEdge
  <2> DEFINE R == {}
  <2>1. hash_en' = hash_en /\ WriteSide /\ R \subseteq DOMAIN reads
    BY <1>2 DEF ResetEdge
  <2>2. reads' = Without(reads, R)
    <3>1. reads \in Seq(Addrs) /\ reads' = reads
      BY <1>2 DEF XbarInv, ResetEdge
    <3>2. R = {}
      OBVIOUS
    <3> HIDE DEF R
    <3> QED BY <3>1, <3>2, WithoutNone
  <2>3. answered' = [k \in R |-> words[reads[k]]]
    <3>1. {p \in 1 .. asked' : grant'[p]} = {}
      <4>1. asked' = Len(reads) /\ grant' = [i \in Ports |-> FALSE] /\ Len(reads) <= NBANK
            /\ Len(reads) \in Nat /\ NBANK \in Nat
        BY <1>2, Numbers DEF ResetEdge, XbarInv
      <4> QED BY <4>1 DEF Ports
    <3>2. answered' = [k \in {p \in 1 .. asked' : grant'[p]} |-> rd_data(k)']
      BY DEF answered
    <3> QED BY <3>1, <3>2
  <2> HIDE DEF R
  <2> QED BY <2>1, <2>2, <2>3, EdgeServes
<1>3. CASE NewReads \/ NewWrites
  <2>1. words' = words
    <3>1. mem' = mem /\ hash_en' = hash_en
      BY <1>3 DEF NewReads, NewWrites
    <3>2. \A a : Bank(a)' = Bank(a) /\ Local(a)' = Local(a)
      BY <3>1 DEF Bank, Local
    <3> QED BY <3>1, <3>2 DEF words
  <2>2. answered' = answered
    <3>1. asked' = asked /\ grant' = grant /\ b_rd_data' = b_rd_data /\ bank_of_d' = bank_of_d
      BY <1>3 DEF NewReads, NewWrites
    <3> QED BY <3>1 DEF answered, rd_data
  <2>3. Memory!Ask
    BY <1>3, <2>1, <2>2 DEF NewReads, NewWrites, Memory!Ask, words, answered
  <2> QED BY <2>3 DEF Memory!MemoryNext
<1>4. CASE UNCHANGED xbarVars
  BY <1>4 DEF xbarVars, words, answered, Bank, Local, rd_data
<1> QED BY <1>1, <1>2, <1>3, <1>4 DEF XbarNext

\* Seen from its ports the banked SRAM is one flat memory, for every number of
\* banks and words, with the hash on or off: a granted read has, a cycle later,
\* the word from before that edge, a granted write is done and no other, and
\* nothing asked for is lost (bank_xbar.sv over sram.sv).
THEOREM XbarIsOneMemory == XbarSpec => ImplementsMemory
BY XbarInvHolds, MemoryStart, MemoryStep, PTL
   DEF XbarSpec, ImplementsMemory, Memory!MemorySpec, words, answered
=============================================================================
