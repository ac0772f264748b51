------------------------------ MODULE DmaProofs ------------------------------
(***************************************************************************)
(* The DMA engine, for every descriptor that fits the SRAM, every latency  *)
(* and moment of a reset: it implements the copy, writes one word per bank *)
(* and cycle, survives the hash of the banks but at a fold, and takes the  *)
(* bursts and cycles the cycle model gives it.                             *)
(*   DmaInv    what the position and the commands in flight are;           *)
(*   CopyInv   what is written, what is still owed and what is left behind *)
(*             make up the tile;                                           *)
(*   CountInv  how many bursts and clock edges the position stands for.    *)
(***************************************************************************)
EXTENDS Dma, Arithmetic, FiniteSetTheorems, FunctionTheorems, TLAPS

-----------------------------------------------------------------------------

Position(s) ==
  /\ s.row \in Nat /\ s.rstart \in Nat /\ s.blk \in Nat /\ s.left \in Nat /\ s.wptr \in Nat

\* A write command: at most the words of its burst from lo on.
CommandOK(c) ==
  /\ c.v \in BOOLEAN /\ c.addr \in Nat /\ c.lo \in Nat /\ c.n \in Nat
  /\ c.n <= Burst /\ c.addr < SramWords
  /\ ~c.v => c.n = 0

\* The commands of one cycle and the requests of the same cycle: B begins where
\* A ends, and a command waits for a burst that was requested.
PairOK(p, r) ==
  /\ CommandOK(p.a) /\ CommandOK(p.b)
  /\ r.a.v \in BOOLEAN /\ r.b.v \in BOOLEAN
  /\ p.a.v => r.a.v
  /\ p.b.v => r.b.v /\ p.a.v /\ p.b.addr = (p.a.addr + p.a.n) % SramWords

DmaInv ==
  /\ desc \in Descriptors
  /\ Position(st)
  /\ \A i \in 1 .. Latency : PairOK(pl[i], ring[i])

\* The n words of W are f[0] .. f[n - 1] and go to the addresses from base on.
InARow(W, n, base, f) ==
  /\ W = {f[k] : k \in 0 .. n - 1} /\ f = [k \in 0 .. n - 1 |-> f[k]]
  /\ \A k \in 0 .. n - 1 : f[k].addr = (base + k) % SramWords

\* The n words from base on, counted modulo the SRAM, are n words of as many
\* banks.
LEMMA WordsApart ==
  ASSUME NEW base \in Nat, NEW n \in Nat, n <= NBank, NEW f, NEW W, InARow(W, n, base, f)
  PROVE  /\ \A x, y \in W : BankOf(x.addr) = BankOf(y.addr) => x = y
         /\ Cardinality(W) = n
<1>1. /\ NBank \in Nat \ {0} /\ SramWords \in Nat \ {0} /\ SramWords % NBank = 0
      /\ \A k \in 0 .. n - 1 : f[k].addr = (base + k) % SramWords
      /\ base \in Int
  BY DmaAssumption DEF InARow
<1>0. W = {f[k] : k \in 0 .. n - 1}
  BY DEF InARow
<1>2. ASSUME NEW i \in 0 .. n - 1, NEW j \in 0 .. n - 1, BankOf(f[i].addr) = BankOf(f[j].addr)
      PROVE  i = j
  <2>1. (base + i) % NBank = (base + j) % NBank
    <3>1. base + i \in Int /\ base + j \in Int
      OBVIOUS
    <3>2. ((base + i) % SramWords) % NBank = (base + i) % NBank
      BY <1>1, <3>1, RemainderOfRemainder
    <3>3. ((base + j) % SramWords) % NBank = (base + j) % NBank
      BY <1>1, <3>1, RemainderOfRemainder
    <3> QED BY <1>1, <1>2, <3>2, <3>3 DEF BankOf
  <2>2. i \in 0 .. NBank - 1 /\ j \in 0 .. NBank - 1
    BY <1>1
  <2> QED BY <1>1, <2>1, <2>2, RemaindersApart
<1>3. \A x, y \in W : BankOf(x.addr) = BankOf(y.addr) => x = y
  <2>1. \A x \in W : \E k \in 0 .. n - 1 : x = f[k]
    BY <1>0
  <2> QED BY <1>2, <2>1
<1>4. f \in Bijection(0 .. n - 1, W)
  <2>1. f \in [0 .. n - 1 -> W]
    BY <1>0 DEF InARow
  <2>2. \A i, j \in 0 .. n - 1 : f[i] = f[j] => i = j
    BY <1>2
  <2>3. \A w \in W : \E k \in 0 .. n - 1 : f[k] = w
    BY <1>0
  <2> QED BY <2>1, <2>2, <2>3, Fun_IsBij
<1>5. IsFiniteSet(0 .. n - 1) /\ Cardinality(0 .. n - 1) = n
  <2>1. 0 \in Int /\ n - 1 \in Int
    OBVIOUS
  <2>2. /\ IsFiniteSet(0 .. n - 1)
        /\ Cardinality(0 .. n - 1) = IF 0 > n - 1 THEN 0 ELSE (n - 1) - 0 + 1
    BY <2>1, FS_Interval
  <2> QED BY <2>2
<1>6. ExistsBijection(0 .. n - 1, W)
  BY <1>4 DEF ExistsBijection
<1>7. Cardinality(W) = n
  BY <1>5, <1>6, FS_Bijection
<1> QED BY <1>3, <1>7

\* The words of a command, when those of its cycle go to the addresses from base
\* on and its own are the ones from the a-th on.
WordsFrom(base, a, c, r) ==
  {[addr |-> (base + k) % SramWords, data |-> r.addr + (c.lo + (k - a))] : k \in a .. a + c.n - 1}

LEMMA CommandWrites ==
  ASSUME NEW c, NEW r, CommandOK(c), c.v => r.v,
         NEW base \in Nat, NEW a \in Nat, c.v => c.addr = (base + a) % SramWords
  PROVE  WordWrites(c, r) = WordsFrom(base, a, c, r)
<1> DEFINE Word(k) == [addr |-> (base + k) % SramWords, data |-> r.addr + (c.lo + (k - a))]
           Sent(w) == [addr |-> (c.addr + w - c.lo) % SramWords, data |-> r.addr + w]
<1>1. c.v \in BOOLEAN /\ c.lo \in Nat /\ c.n \in Nat /\ c.addr \in Nat
  BY DEF CommandOK
<1>2. CASE ~c.v
  <2>1. c.n = 0 /\ WordWrites(c, r) = {}
    BY <1>2 DEF WordWrites, CommandOK
  <2>2. a .. a + c.n - 1 = {}
    BY <2>1
  <2> QED BY <2>1, <2>2 DEF WordsFrom
<1>3. CASE c.v
  <2>1. WordWrites(c, r) = {Sent(w) : w \in c.lo .. c.lo + c.n - 1}
    BY <1>3 DEF WordWrites
  <2>2. ASSUME NEW k \in a .. a + c.n - 1
        PROVE  c.lo + (k - a) \in c.lo .. c.lo + c.n - 1 /\ Word(k) = Sent(c.lo + (k - a))
    <3>1. c.lo + (k - a) \in c.lo .. c.lo + c.n - 1
      BY <1>1
    <3>2. c.addr + (c.lo + (k - a)) - c.lo = c.addr + (k - a)
      BY <1>1
    <3>3. (base + a) + (k - a) = base + k /\ base + a \in Int /\ k - a \in Int
      OBVIOUS
    <3>4. (((base + a) % SramWords) + (k - a)) % SramWords = (base + k) % SramWords
      <4>1. SramWords \in Nat \ {0}
        BY DmaAssumption
      <4>2. (((base + a) % SramWords) + (k - a)) % SramWords = ((base + a) + (k - a)) % SramWords
        BY <3>3, <4>1, RemainderOfSum
      <4> QED BY <3>3, <4>2
    <3>5. (c.addr + (k - a)) % SramWords = (base + k) % SramWords
      BY <1>3, <3>4
    <3> QED BY <3>1, <3>2, <3>5
  <2>3. ASSUME NEW w \in c.lo .. c.lo + c.n - 1
        PROVE  a + (w - c.lo) \in a .. a + c.n - 1 /\ w = c.lo + ((a + (w - c.lo)) - a)
    BY <1>1
  <2> HIDE DEF Word, Sent
  <2>4. ASSUME NEW w \in c.lo .. c.lo + c.n - 1
        PROVE  \E k \in a .. a + c.n - 1 : Sent(w) = Word(k)
    BY <2>2, <2>3
  <2>5. WordWrites(c, r) = {Word(k) : k \in a .. a + c.n - 1}
    BY <2>1, <2>2, <2>4
  <2> QED BY <2>5 DEF Word, WordsFrom
<1> QED BY <1>1, <1>2, <1>3

\* The words of a cycle are those of burst A and then those of burst B.
LEMMA PairWrites ==
  ASSUME NEW p, NEW r, PairOK(p, r),
         NEW W, W = WordWrites(p.a, r.a) \union WordWrites(p.b, r.b),
         NEW n, n = (IF r.a.v THEN p.a.n ELSE 0) + (IF r.b.v THEN p.b.n ELSE 0)
  PROVE  n \in 0 .. 2 * Burst /\ \E base, f : base \in Nat /\ InARow(W, n, base, f)
<1> DEFINE a == p.a.n
           b == p.b.n
           base == p.a.addr
           A(k) == [addr |-> (base + k) % SramWords, data |-> r.a.addr + (p.a.lo + (k - 0))]
           B(k) == [addr |-> (base + k) % SramWords, data |-> r.b.addr + (p.b.lo + (k - a))]
           f == [k \in 0 .. n - 1 |-> IF k < a THEN A(k) ELSE B(k)]
<1>1. CommandOK(p.a) /\ CommandOK(p.b)
  BY DEF PairOK
<1>2. a \in Nat /\ b \in Nat /\ base \in Nat /\ base < SramWords /\ a <= Burst /\ b <= Burst
  BY <1>1 DEF CommandOK
<1>3. n = a + b /\ n \in 0 .. 2 * Burst
  <2>1. Burst \in Nat
    BY DmaAssumption
  <2>2. ~r.a.v => a = 0
    BY <1>1 DEF PairOK, CommandOK
  <2>3. ~r.b.v => b = 0
    BY <1>1 DEF PairOK, CommandOK
  <2>4. n = a + b
    BY <1>2, <2>2, <2>3
  <2> HIDE DEF a, b
  <2> QED BY <1>2, <2>1, <2>4
<1>4. WordWrites(p.a, r.a) = {A(k) : k \in 0 .. a - 1}
  <2>1. (base + 0) % SramWords = base
    <3>1. SramWords \in Nat \ {0}
      BY DmaAssumption
    <3> HIDE DEF base
    <3>2. base \in 0 .. SramWords - 1 /\ base + 0 = base /\ base = 0 * SramWords + base
      BY <1>2, <3>1
    <3> QED BY <3>1, <3>2, RemainderUnique
  <2>2. p.a.v => r.a.v
    BY DEF PairOK
  <2>3. WordWrites(p.a, r.a) = {A(k) : k \in 0 .. 0 + a - 1}
    <3>1. 0 \in Nat /\ base \in Nat /\ (p.a.v => p.a.addr = (base + 0) % SramWords)
      BY <1>2, <2>1
    <3>2. WordWrites(p.a, r.a) = WordsFrom(base, 0, p.a, r.a)
      BY <1>1, <2>2, <3>1, CommandWrites
    <3> QED BY <3>2 DEF WordsFrom
  <2>4. 0 + a - 1 = a - 1
    BY <1>2
  <2> QED BY <2>3, <2>4
<1>5. WordWrites(p.b, r.b) = {B(k) : k \in a .. n - 1}
  <2>1. p.b.v => r.b.v /\ p.b.addr = (base + a) % SramWords
    BY DEF PairOK
  <2>2. WordWrites(p.b, r.b) = WordsFrom(base, a, p.b, r.b)
    BY <1>1, <1>2, <2>1, CommandWrites
  <2>3. WordsFrom(base, a, p.b, r.b) = {B(k) : k \in a .. a + b - 1}
    BY DEF WordsFrom
  <2>4. a + b - 1 = n - 1
    BY <1>2, <1>3
  <2>5. WordWrites(p.b, r.b) = {B(k) : k \in a .. a + b - 1}
    BY <2>2, <2>3
  <2> HIDE DEF B, a, b
  <2> QED BY <2>4, <2>5
<1> HIDE DEF A, B
<1>6. W = {f[k] : k \in 0 .. n - 1}
  <2>1. \A k \in 0 .. n - 1 : k \in 0 .. a - 1 \/ k \in a .. n - 1
    BY <1>2, <1>3
  <2>2. \A k \in 0 .. a - 1 : k \in 0 .. n - 1 /\ f[k] = A(k)
    BY <1>2, <1>3
  <2>3. \A k \in a .. n - 1 : k \in 0 .. n - 1 /\ f[k] = B(k)
    BY <1>2, <1>3
  <2> HIDE DEF f, a
  <2> QED BY <1>4, <1>5, <2>1, <2>2, <2>3
<1>7. \A k \in 0 .. n - 1 : f[k].addr = (base + k) % SramWords
  BY DEF A, B
<1>8. f = [k \in 0 .. n - 1 |-> f[k]]
  OBVIOUS
<1> HIDE DEF f, base
<1>9. InARow(W, n, base, f)
  BY <1>6, <1>7, <1>8 DEF InARow
<1> QED BY <1>2, <1>3, <1>9

-----------------------------------------------------------------------------

LEMMA BlockNat ==
  ASSUME NEW x \in Nat
  PROVE  x % Burst \in 0 .. Burst - 1 /\ Block(x) \in Nat
<1>1. Burst \in Nat \ {0}
  BY DmaAssumption
<1>2. x % Burst \in 0 .. Burst - 1
  BY <1>1, Remainder
<1>3. CASE x < Burst
  <2>1. x \in 0 .. Burst - 1 /\ x = 0 * Burst + x
    BY <1>1, <1>3
  <2>2. x % Burst = x
    BY <1>1, <2>1, RemainderUnique
  <2> QED BY <1>2, <2>2 DEF Block
<1>4. CASE x >= Burst
  <2> DEFINE r == x % Burst
  <2>1. r \in 0 .. Burst - 1
    BY <1>2
  <2> HIDE DEF r
  <2>2. x - r \in Nat
    BY <1>1, <1>4, <2>1
  <2> QED BY <1>2, <2>2 DEF Block, r
<1> QED BY <1>1, <1>3, <1>4

\* A burst takes some of the words left and at most its own.
LEMMA Taking ==
  ASSUME NEW s, Position(s)
  PROVE  Lo(s) \in Nat /\ Take(s) \in Nat /\ Take(s) <= Burst /\ Take(s) <= s.left
<1>1. Burst \in Nat \ {0} /\ s.left \in Nat
  BY DmaAssumption DEF Position
<1>2. Lo(s) \in 0 .. Burst - 1
  <2>1. s.rstart \in Nat
    BY DEF Position
  <2>2. s.rstart % Burst \in 0 .. Burst - 1
    BY <2>1, BlockNat
  <2>3. 0 \in 0 .. Burst - 1
    BY <1>1
  <2> QED BY <2>2, <2>3 DEF Lo
<1> QED BY <1>1, <1>2 DEF Take

LEMMA Onward ==
  ASSUME NEW s, Position(s), NEW d \in Descriptors
  PROVE  Position(After(s, d)) /\ After(s, d).wptr = s.wptr + Take(s)
<1>1. /\ s.row \in Nat /\ s.rstart \in Nat /\ s.blk \in Nat /\ s.left \in Nat /\ s.wptr \in Nat
      /\ d.stride \in Nat /\ d.cols \in Nat /\ Burst \in Nat
  BY DmaAssumption DEF Position
<1>2. Take(s) \in Nat /\ Take(s) <= s.left
  BY Taking
<1>3. s.rstart + d.stride \in Nat /\ Block(s.rstart + d.stride) \in Nat
  BY <1>1, BlockNat
<1>4. CASE s.left - Take(s) = 0
  <2>1. After(s, d) = [row |-> s.row + 1, rstart |-> s.rstart + d.stride,
                       blk |-> Block(s.rstart + d.stride), left |-> d.cols,
                       wptr |-> s.wptr + Take(s)]
    BY <1>4 DEF After
  <2> QED BY <1>1, <1>2, <1>3, <2>1 DEF Position
<1>5. CASE s.left - Take(s) # 0
  <2>1. After(s, d) = [s EXCEPT !.blk = @ + Burst, !.left = @ - Take(s), !.wptr = @ + Take(s)]
    BY <1>5 DEF After
  <2> QED BY <1>1, <1>2, <2>1 DEF Position
<1> QED BY <1>4, <1>5

NewCommands == [a |-> Command(IssueA, st), b |-> Command(IssueB, After(st, desc))]
NewRequests == [a |-> Request(IssueA, st), b |-> Request(IssueB, After(st, desc))]

LEMMA CommandTyped ==
  ASSUME NEW s, Position(s), NEW v \in BOOLEAN
  PROVE  CommandOK(Command(v, s)) /\ (Command(v, s).v <=> v)
<1>1. Lo(s) \in Nat /\ Take(s) \in Nat /\ Take(s) <= Burst
  BY Taking
<1>2. s.wptr % SramWords \in 0 .. SramWords - 1 /\ SramWords \in Nat \ {0}
  <2>1. s.wptr \in Int
    BY DEF Position
  <2> QED BY <2>1, DmaAssumption, Remainder
<1>3. Burst \in Nat
  BY DmaAssumption
<1>4. CASE v
  <2>1. Command(v, s) = [v |-> TRUE, addr |-> s.wptr % SramWords, lo |-> Lo(s), n |-> Take(s)]
    BY <1>4 DEF Command
  <2> DEFINE w == s.wptr % SramWords
             l == Lo(s)
             t == Take(s)
             c == Command(v, s)
  <2>2. c.v = TRUE /\ c.addr = w /\ c.lo = l /\ c.n = t
    BY <2>1
  <2>3. w \in 0 .. SramWords - 1 /\ l \in Nat /\ t \in Nat /\ t <= Burst
    BY <1>1, <1>2
  <2> HIDE DEF w, l, t, c
  <2>4. w \in Nat /\ w < SramWords
    BY <1>2, <2>3
  <2>5. CommandOK(c) /\ c.v
    BY <2>2, <2>3, <2>4 DEF CommandOK
  <2> QED BY <1>4, <2>5 DEF c
<1>5. CASE ~v
  BY <1>2, <1>3, <1>5 DEF Command, NoBurst, CommandOK
<1> QED BY <1>4, <1>5

\* The commands that enter the pipeline and the requests made with them.
LEMMA NewPair ==
  ASSUME Position(st), desc \in Descriptors
  PROVE  PairOK(NewCommands, NewRequests)
<1> DEFINE s == After(st, desc)
<1>1. Position(s) /\ s.wptr = st.wptr + Take(st)
  BY Onward
<1>2. IssueA \in BOOLEAN /\ IssueB \in BOOLEAN /\ (IssueB => IssueA)
  BY DEF IssueA, IssueB
<1>3. CommandOK(Command(IssueA, st)) /\ (Command(IssueA, st).v <=> IssueA)
  BY <1>2, CommandTyped
<1>4. CommandOK(Command(IssueB, s)) /\ (Command(IssueB, s).v <=> IssueB)
  <2> HIDE DEF s
  <2> QED BY <1>1, <1>2, CommandTyped
<1>5. /\ (Request(IssueA, st).v <=> IssueA) /\ (Request(IssueB, s).v <=> IssueB)
      /\ Request(IssueA, st).v \in BOOLEAN /\ Request(IssueB, s).v \in BOOLEAN
  <2> HIDE DEF s
  <2> QED BY <1>2 DEF Request, NoRequest
<1>6. ASSUME IssueB
      PROVE  Command(IssueB, s).addr = (Command(IssueA, st).addr + Command(IssueA, st).n) % SramWords
  <2>1. Command(IssueB, s).addr = s.wptr % SramWords
    <3> HIDE DEF s
    <3> QED BY <1>6 DEF Command
  <2>2. Command(IssueA, st).addr = st.wptr % SramWords /\ Command(IssueA, st).n = Take(st)
    BY <1>2, <1>6 DEF Command
  <2>3. st.wptr \in Int /\ Take(st) \in Int /\ SramWords \in Nat \ {0}
    <3>1. Take(st) \in Nat
      BY Taking
    <3> QED BY <3>1, DmaAssumption DEF Position
  <2>4. ((st.wptr % SramWords) + Take(st)) % SramWords = (st.wptr + Take(st)) % SramWords
    BY <2>3, RemainderOfSum
  <2> QED BY <1>1, <2>1, <2>2, <2>4
<1> HIDE DEF s
<1>7. /\ NewCommands.a = Command(IssueA, st) /\ NewCommands.b = Command(IssueB, s)
      /\ NewRequests.a = Request(IssueA, st) /\ NewRequests.b = Request(IssueB, s)
  BY DEF NewCommands, NewRequests, s
<1> QED BY <1>2, <1>3, <1>4, <1>5, <1>6, <1>7 DEF PairOK

\* A clock edge moves every command and its request one place on.
LEMMA PairsShift ==
  ASSUME DmaInv,
         pl' = Shift(pl, NewCommands), ring' = Shift(ring, NewRequests)
  PROVE  \A i \in 1 .. Latency : PairOK(pl'[i], ring'[i])
<1>1. Latency \in Nat
  BY DmaAssumption
<1> SUFFICES ASSUME NEW i \in 1 .. Latency
             PROVE  PairOK(pl'[i], ring'[i])
  OBVIOUS
<1>2. CASE i = 1
  <2>1. pl'[i] = NewCommands /\ ring'[i] = NewRequests
    BY <1>2 DEF Shift
  <2> QED BY <2>1, NewPair DEF DmaInv
<1>3. CASE i # 1
  <2>1. pl'[i] = pl[i - 1] /\ ring'[i] = ring[i - 1] /\ i - 1 \in 1 .. Latency
    BY <1>1, <1>3 DEF Shift
  <2> QED BY <2>1 DEF DmaInv
<1> QED BY <1>2, <1>3

\* A reset empties the pipeline and leaves the DDR its requests.
LEMMA PairsReset ==
  ASSUME DmaInv,
         pl' = Quiet(NoBurst), ring' = Shift(ring, NewRequests)
  PROVE  \A i \in 1 .. Latency : PairOK(pl'[i], ring'[i])
<1>1. Latency \in Nat /\ Burst \in Nat /\ SramWords \in Nat \ {0}
  BY DmaAssumption
<1> SUFFICES ASSUME NEW i \in 1 .. Latency
             PROVE  PairOK(pl'[i], ring'[i])
  OBVIOUS
<1>2. pl'[i] = [a |-> NoBurst, b |-> NoBurst]
  BY DEF Quiet
<1>3. ring'[i].a.v \in BOOLEAN /\ ring'[i].b.v \in BOOLEAN
  <2>1. CASE i = 1
    <3>1. ring'[i] = NewRequests
      BY <2>1 DEF Shift
    <3> QED BY <3>1, NewPair DEF DmaInv, PairOK
  <2>2. CASE i # 1
    <3>1. ring'[i] = ring[i - 1] /\ i - 1 \in 1 .. Latency
      BY <1>1, <2>2 DEF Shift
    <3> QED BY <3>1 DEF DmaInv, PairOK
  <2> QED BY <2>1, <2>2
<1>4. CommandOK(NoBurst) /\ ~NoBurst.v
  BY <1>1 DEF CommandOK, NoBurst
<1> QED BY <1>2, <1>3, <1>4 DEF PairOK

LEMMA InitInv == DmaInit => DmaInv
<1> SUFFICES ASSUME DmaInit PROVE DmaInv
  OBVIOUS
<1>1. Burst \in Nat /\ SramWords \in Nat \ {0}
  BY DmaAssumption
<1>2. desc \in Descriptors /\ Position(st)
  BY DEF DmaInit, Rest, Position
<1>3. \A i \in 1 .. Latency : PairOK(pl[i], ring[i])
  <2>1. CommandOK(NoBurst) /\ ~NoBurst.v /\ NoRequest.v \in BOOLEAN
    BY <1>1 DEF CommandOK, NoBurst, NoRequest
  <2>2. ASSUME NEW i \in 1 .. Latency
        PROVE  pl[i].a = NoBurst /\ pl[i].b = NoBurst /\ ring[i].a = NoRequest /\ ring[i].b = NoRequest
    BY DEF DmaInit, Quiet
  <2> QED BY <2>1, <2>2 DEF PairOK
<1> QED BY <1>2, <1>3 DEF DmaInv

LEMMA StepInv == DmaInv /\ [DmaNext]_dmaVars => DmaInv'
<1> SUFFICES ASSUME DmaInv, [DmaNext]_dmaVars PROVE DmaInv'
  OBVIOUS
<1>1. desc \in Descriptors /\ Position(st)
  BY DEF DmaInv
<1>2. ASSUME Pipeline
      PROVE  \A i \in 1 .. Latency : PairOK(pl'[i], ring'[i])
  BY <1>2, PairsShift DEF Pipeline, DdrStep, NewCommands, NewRequests
<1>3. CASE Start
  BY <1>1, <1>2, <1>3 DEF Start, DmaInv, Position
<1>4. CASE Check
  <2>1. Position([row |-> 0, rstart |-> desc.ddr, blk |-> Block(desc.ddr),
                  left |-> desc.cols, wptr |-> desc.sram % SramWords])
    <3>1. desc.ddr \in Nat /\ desc.cols \in Nat /\ desc.sram \in Int /\ SramWords \in Nat \ {0}
      BY <1>1, DmaAssumption
    <3>2. Block(desc.ddr) \in Nat /\ desc.sram % SramWords \in Nat
      <4>1. Block(desc.ddr) \in Nat
        BY <3>1, BlockNat
      <4>2. desc.sram % SramWords \in 0 .. SramWords - 1
        BY <3>1, Remainder
      <4> QED BY <4>1, <4>2, <3>1
    <3> QED BY <3>1, <3>2 DEF Position
  <2>2. Position(st')
    BY <1>1, <1>4, <2>1 DEF Check
  <2> QED BY <1>1, <1>2, <1>4, <2>2 DEF Check, Elapsed, DmaInv, Position
<1>5. CASE Run
  <2>1. Position(After(st, desc)) /\ Position(After(After(st, desc), desc))
    BY <1>1, Onward
  <2>2. Position(st')
    BY <1>1, <1>5, <2>1 DEF Run
  <2> QED BY <1>1, <1>2, <1>5, <2>2 DEF Run, Elapsed, DmaInv, Position
<1>6. CASE Done
  BY <1>1, <1>2, <1>6 DEF Done, Elapsed, DmaInv, Position
<1>7. CASE Idle
  BY <1>1, <1>2, <1>7 DEF Idle, DmaInv, Position
<1>8. CASE Reset
  <2>1. \A i \in 1 .. Latency : PairOK(pl'[i], ring'[i])
    BY <1>8, PairsReset DEF Reset, DdrStep, NewRequests
  <2> QED BY <1>1, <1>8, <2>1 DEF Reset, Rest, DmaInv, Position
<1>9. CASE UNCHANGED dmaVars
  BY <1>9 DEF dmaVars, DmaInv, Position
<1> QED BY <1>3, <1>4, <1>5, <1>6, <1>7, <1>8, <1>9 DEF DmaNext, Clock

\* The words written in one cycle lie in banks of their own and none of them
\* is written twice, for every descriptor, latency and moment of a reset:
\* the engine may ignore wr_grant (the ports of dma.sv into bank_xbar.sv).
THEOREM OneBankEach == DmaSpec => []OneWritePerBank
<1>1. DmaInv => OneWritePerBank
  <2> SUFFICES ASSUME DmaInv PROVE OneWritePerBank
    OBVIOUS
  <2>1. Latency \in 1 .. Latency
    BY DmaAssumption
  <2>2. PairOK(pl[Latency], ring[Latency])
    BY <2>1 DEF DmaInv
  <2>3. WritesNow = WordWrites(pl[Latency].a, ring[Latency].a)
                      \union WordWrites(pl[Latency].b, ring[Latency].b)
    BY DEF WritesNow
  <2> DEFINE W == WritesNow
             n == (IF ring[Latency].a.v THEN pl[Latency].a.n ELSE 0)
                    + (IF ring[Latency].b.v THEN pl[Latency].b.n ELSE 0)
  <2>4. n \in 0 .. 2 * Burst /\ \E base, f : base \in Nat /\ InARow(W, n, base, f)
    <3> HIDE DEF W, n
    <3> QED BY <2>2, <2>3, PairWrites DEF W, n
  <2>5. PICK base, f : base \in Nat /\ InARow(W, n, base, f)
    BY <2>4
  <2> HIDE DEF W, n
  <2>6. n \in Nat /\ n <= NBank
    BY <2>4, DmaAssumption
  <2>7. (\A x, y \in W : BankOf(x.addr) = BankOf(y.addr) => x = y) /\ Cardinality(W) = n
    BY <2>5, <2>6, WordsApart
  <2> QED BY <2>7 DEF OneWritePerBank, W, n
<1> QED BY InitInv, StepInv, <1>1, PTL DEF DmaSpec

-----------------------------------------------------------------------------
(* The words of a tile: each has a place of its own, and the engine visits *)
(* them row by row.                                                        *)

Word(d, i, j) ==
  [addr |-> (d.sram + i * d.cols + j) % SramWords, data |-> d.ddr + i * d.stride + j]

LEMMA TargetWords ==
  ASSUME NEW d
  PROVE  Copy!Target(d) = {Word(d, i, j) : i \in 0 .. d.rows - 1, j \in 0 .. d.cols - 1}
BY DEF Copy!Target, Word

LEMMA Numbers ==
  ASSUME NEW d \in Descriptors
  PROVE  /\ d.sram \in Nat /\ d.ddr \in Nat /\ d.rows \in Nat /\ d.cols \in Nat /\ d.stride \in Nat
         /\ Burst \in Nat \ {0} /\ SramWords \in Nat \ {0} /\ Latency \in Nat \ {0}
BY DmaAssumption

\* No two words of a tile that fits the SRAM go to the same address.
LEMMA WordsDistinct ==
  ASSUME NEW d \in Descriptors, Aligned(d),
         NEW i \in 0 .. d.rows - 1, NEW j \in 0 .. d.cols - 1,
         NEW k \in 0 .. d.rows - 1, NEW l \in 0 .. d.cols - 1,
         Word(d, i, j).addr = Word(d, k, l).addr
  PROVE  i = k /\ j = l
<1>1. d.rows \in Nat /\ d.cols \in Nat /\ d.sram \in Int /\ SramWords \in Nat \ {0}
  BY Numbers
<1>2. d.rows * d.cols <= SramWords /\ d.rows * d.cols \in Int
  BY <1>1, TileAssumption
<1> DEFINE m == i * d.cols + j
           n == k * d.cols + l
<1>3. m \in 0 .. d.rows * d.cols - 1
  BY <1>1, CellInTable
<1>4. n \in 0 .. d.rows * d.cols - 1
  BY <1>1, CellInTable
<1>5. d.sram + i * d.cols + j = d.sram + m /\ d.sram + k * d.cols + l = d.sram + n
  <2>1. i * d.cols \in Int /\ k * d.cols \in Int
    BY <1>1, SMT
  <2> QED BY <1>1, <2>1
<1>6. (d.sram + m) % SramWords = (d.sram + n) % SramWords
  BY <1>5 DEF Word
<1> HIDE DEF m, n
<1>7. m \in 0 .. SramWords - 1 /\ n \in 0 .. SramWords - 1
  BY <1>1, <1>2, <1>3, <1>4
<1>8. m = n
  BY <1>1, <1>6, <1>7, RemaindersApart
<1>9. i * d.cols + j = k * d.cols + l /\ i \in Int /\ k \in Int
  BY <1>8 DEF m, n
<1> QED BY <1>1, <1>9, CellsDistinct

LEMMA TargetUnique ==
  ASSUME NEW d \in Descriptors, Aligned(d), NEW x \in Copy!Target(d), NEW y \in Copy!Target(d),
         x.addr = y.addr
  PROVE  x = y
<1>1. PICK i \in 0 .. d.rows - 1, j \in 0 .. d.cols - 1 : x = Word(d, i, j)
  BY TargetWords
<1>2. PICK k \in 0 .. d.rows - 1, l \in 0 .. d.cols - 1 : y = Word(d, k, l)
  BY TargetWords
<1> QED BY <1>1, <1>2, WordsDistinct

\* s is a position of the engine in the tile: it has the words of the rows
\* before s.row and the first d.cols - s.left of that row behind it.
OnTile(s, d) ==
  /\ s.row \in 0 .. d.rows /\ s.left \in 0 .. d.cols
  /\ s.rstart = d.ddr + s.row * d.stride
  /\ s.wptr = (d.sram % SramWords) + s.row * d.cols + (d.cols - s.left)
  /\ \/ s.blk = Block(s.rstart) /\ s.left = d.cols
     \/ s.blk > Block(s.rstart) /\ s.blk = s.rstart + (d.cols - s.left)

Behind(s, d, i, j) == i < s.row \/ (i = s.row /\ j < d.cols - s.left)

LEMMA OnTileStarts ==
  ASSUME NEW d \in Descriptors,
         NEW s, s = [row |-> 0, rstart |-> d.ddr, blk |-> Block(d.ddr),
                     left |-> d.cols, wptr |-> d.sram % SramWords]
  PROVE  OnTile(s, d) /\ \A i, j \in Nat : ~ Behind(s, d, i, j)
<1>1. /\ d.ddr \in Nat /\ d.rows \in Nat /\ d.cols \in Nat /\ d.stride \in Nat
      /\ d.sram % SramWords \in Int
  <2>1. d.sram \in Int /\ SramWords \in Nat \ {0}
    BY Numbers
  <2>2. d.sram % SramWords \in 0 .. SramWords - 1
    BY <2>1, Remainder
  <2> QED BY <2>2, Numbers
<1>2. 0 * d.stride = 0 /\ 0 * d.cols = 0
  BY <1>1
<1> QED BY <1>1, <1>2 DEF OnTile, Behind

\* The burst at s starts at the word s stands before.
LEMMA BurstPlace ==
  ASSUME NEW s, Position(s), NEW d \in Descriptors, OnTile(s, d)
  PROVE  /\ s.blk + Lo(s) = s.rstart + (d.cols - s.left)
         /\ s.left > Take(s) => Take(s) = Burst - Lo(s)
<1>1. /\ s.rstart \in Nat /\ s.blk \in Nat /\ s.left \in Nat /\ d.cols \in Nat
      /\ s.rstart % Burst \in Int /\ Block(s.rstart) \in Nat /\ Burst \in Nat
  <2>1. s.rstart \in Nat
    BY DEF Position
  <2>2. s.rstart % Burst \in 0 .. Burst - 1 /\ Block(s.rstart) \in Nat /\ Burst \in Nat
    BY <2>1, Numbers, BlockNat
  <2> QED BY <2>2, Numbers DEF Position
<1>2. CASE s.blk = Block(s.rstart) /\ s.left = d.cols
  BY <1>1, <1>2 DEF Lo, Take, Block
<1>3. CASE s.blk > Block(s.rstart) /\ s.blk = s.rstart + (d.cols - s.left)
  BY <1>1, <1>3 DEF Lo, Take
<1> QED BY <1>2, <1>3 DEF OnTile

LEMMA OnTileAfter ==
  ASSUME NEW s, Position(s), NEW d \in Descriptors, OnTile(s, d), s.row < d.rows
  PROVE  /\ OnTile(After(s, d), d)
         /\ \A i, j \in Nat :
              j < d.cols /\ Behind(After(s, d), d, i, j) =>
                \/ Behind(s, d, i, j)
                \/ i = s.row /\ j \in d.cols - s.left .. d.cols - s.left + Take(s) - 1
<1> DEFINE t == Take(s)
           r == s.row
<1>1. /\ s.row \in Nat /\ s.rstart \in Nat /\ s.blk \in Nat /\ s.left \in Nat /\ s.wptr \in Nat
      /\ d.rows \in Nat /\ d.cols \in Nat /\ d.stride \in Nat /\ d.ddr \in Nat
      /\ d.sram % SramWords \in Int /\ Burst \in Nat \ {0} /\ Block(s.rstart) \in Nat
  <2>1. d.sram \in Int /\ SramWords \in Nat \ {0}
    BY Numbers
  <2>2. d.sram % SramWords \in 0 .. SramWords - 1
    BY <2>1, Remainder
  <2>3. s.rstart \in Nat
    BY DEF Position
  <2>4. Block(s.rstart) \in Nat
    BY <2>3, BlockNat
  <2> QED BY <2>2, <2>4, Numbers DEF Position
<1>2. t \in Nat /\ t <= s.left /\ t <= Burst /\ Lo(s) \in Nat
  BY Taking
<1>3. s.blk + Lo(s) = s.rstart + (d.cols - s.left) /\ (s.left > t => t = Burst - Lo(s))
  BY BurstPlace
<1>4. s.left <= d.cols /\ s.rstart = d.ddr + r * d.stride
      /\ s.wptr = (d.sram % SramWords) + r * d.cols + (d.cols - s.left)
      /\ s.blk >= Block(s.rstart)
  BY <1>1 DEF OnTile
<1>5. r * d.stride \in Nat /\ r * d.cols \in Nat
      /\ (r + 1) * d.stride = r * d.stride + d.stride /\ (r + 1) * d.cols = r * d.cols + d.cols
  BY <1>1, SMT
<1>6. CASE s.left - t = 0
  <2> DEFINE u == [row |-> r + 1, rstart |-> s.rstart + d.stride,
                   blk |-> Block(s.rstart + d.stride), left |-> d.cols, wptr |-> s.wptr + t]
  <2>1. After(s, d) = u
    BY <1>6 DEF After
  <2>2. u.row \in 0 .. d.rows /\ u.left \in 0 .. d.cols
    BY <1>1
  <2>3. u.rstart = d.ddr + u.row * d.stride
    BY <1>1, <1>4, <1>5
  <2>4. u.wptr = (d.sram % SramWords) + u.row * d.cols + (d.cols - u.left)
    <3> DEFINE p == r * d.cols
               q == d.sram % SramWords
    <3>1. s.wptr = q + p + (d.cols - s.left) /\ (r + 1) * d.cols = p + d.cols /\ p \in Nat /\ q \in Int
      BY <1>1, <1>4, <1>5
    <3>2. u.wptr = s.wptr + t /\ u.row = r + 1 /\ u.left = d.cols
      OBVIOUS
    <3> HIDE DEF p, q, u, t, r
    <3>3. s.wptr + t = q + (p + d.cols) + (d.cols - d.cols)
      BY <1>1, <1>2, <1>6, <3>1
    <3> QED BY <3>1, <3>2, <3>3 DEF q
  <2>5. u.blk = Block(u.rstart) /\ u.left = d.cols
    OBVIOUS
  <2>6. ASSUME NEW i \in Nat, NEW j \in Nat, j < d.cols, Behind(u, d, i, j)
        PROVE  Behind(s, d, i, j) \/ (i = r /\ j \in d.cols - s.left .. d.cols - s.left + t - 1)
    <3>1. i < r + 1
      BY <1>1, <2>6 DEF Behind
    <3>2. j < d.cols /\ r \in Nat
      BY <1>1, <2>6
    <3> HIDE DEF t, u, r
    <3>3. CASE i < r
      BY <3>3 DEF Behind, r
    <3>4. CASE i = r
      <4>1. j < d.cols - s.left \/ j \in d.cols - s.left .. d.cols - s.left + t - 1
        BY <1>1, <1>2, <1>4, <1>6, <3>2
      <4> QED BY <3>4, <4>1 DEF Behind, r
    <3> QED BY <3>1, <3>2, <3>3, <3>4
  <2> HIDE DEF u
  <2> QED BY <2>1, <2>2, <2>3, <2>4, <2>5, <2>6 DEF OnTile
<1>7. CASE s.left - t # 0
  <2> DEFINE u == [s EXCEPT !.blk = @ + Burst, !.left = @ - t, !.wptr = @ + t]
  <2>1. After(s, d) = u
    BY <1>7 DEF After
  <2>2. /\ u.row = r /\ u.rstart = s.rstart /\ u.blk = s.blk + Burst
        /\ u.left = s.left - t /\ u.wptr = s.wptr + t
    BY DEF Position
  <2> HIDE DEF u, t
  <2>3. u.row \in 0 .. d.rows /\ u.left \in 0 .. d.cols
    BY <1>1, <1>2, <1>4, <2>2
  <2>4. u.wptr = (d.sram % SramWords) + u.row * d.cols + (d.cols - u.left)
    BY <1>1, <1>2, <1>4, <1>5, <2>2
  <2>5. u.blk > Block(u.rstart) /\ u.blk = u.rstart + (d.cols - u.left)
    <3>1. Block(u.rstart) = Block(s.rstart)
      BY <2>2
    <3>2. s.left > t /\ t \in Nat
      BY <1>1, <1>2, <1>7
    <3>3. t = Burst - Lo(s)
      BY <1>3, <3>2
    <3> DEFINE k == Block(s.rstart)
               l == Lo(s)
    <3>4. k \in Nat /\ l \in Nat /\ s.blk >= k /\ t = Burst - l /\ s.blk + l = s.rstart + (d.cols - s.left)
      BY <1>1, <1>2, <1>3, <1>4, <3>3
    <3> HIDE DEF k, l
    <3>5. u.blk > k /\ u.blk = u.rstart + (d.cols - u.left)
      BY <1>1, <2>2, <3>2, <3>4
    <3> QED BY <3>1, <3>5 DEF k
  <2>6. ASSUME NEW i \in Nat, NEW j \in Nat, j < d.cols, Behind(u, d, i, j)
        PROVE  Behind(s, d, i, j) \/ (i = r /\ j \in d.cols - s.left .. d.cols - s.left + t - 1)
    BY <1>1, <1>2, <1>4, <2>2, <2>6 DEF Behind
  <2> QED BY <1>4, <2>1, <2>2, <2>3, <2>4, <2>5, <2>6 DEF OnTile, t
<1> QED BY <1>6, <1>7

\* The words of a burst asked for at s are the next ones of the tile.
LEMMA BurstWords ==
  ASSUME NEW s, Position(s), NEW d \in Descriptors, OnTile(s, d), NEW v \in BOOLEAN, v
  PROVE  WordWrites(Command(v, s), Request(v, s)) =
           {Word(d, s.row, j) : j \in d.cols - s.left .. d.cols - s.left + Take(s) - 1}
<1> DEFINE c == Command(v, s)
           r == Request(v, s)
           a == d.cols - s.left
           base == (d.sram % SramWords) + s.row * d.cols
<1>1. c.v /\ c.addr = s.wptr % SramWords /\ c.lo = Lo(s) /\ c.n = Take(s) /\ r.v /\ r.addr = s.blk
  BY DEF Command, Request
<1>2. CommandOK(c)
  BY CommandTyped
<1>3. /\ d.sram \in Nat /\ d.ddr \in Nat /\ d.cols \in Nat /\ d.stride \in Nat /\ s.row \in Nat
      /\ s.left \in Nat /\ s.rstart \in Nat /\ s.blk \in Nat /\ SramWords \in Nat \ {0}
      /\ Lo(s) \in Nat /\ Take(s) \in Nat
  <2>1. Lo(s) \in Nat /\ Take(s) \in Nat
    BY Taking
  <2> QED BY <2>1, Numbers DEF Position
<1>4. a \in Nat
  BY <1>3 DEF OnTile
<1>5. s.row * d.cols \in Nat /\ s.row * d.stride \in Nat
  BY <1>3, SMT
<1>6. d.sram % SramWords \in Nat
  <2>1. d.sram \in Int /\ SramWords \in Nat \ {0}
    BY <1>3
  <2>2. d.sram % SramWords \in 0 .. SramWords - 1
    BY <2>1, Remainder
  <2> QED BY <1>3, <2>2
<1>7. base \in Nat /\ s.wptr = base + a
  <2>1. s.wptr = (d.sram % SramWords) + s.row * d.cols + (d.cols - s.left)
    BY DEF OnTile
  <2> QED BY <1>3, <1>4, <1>5, <1>6, <2>1
<1>8. s.blk + Lo(s) = d.ddr + s.row * d.stride + a
  <2>1. s.blk + Lo(s) = s.rstart + a
    BY BurstPlace
  <2>2. s.rstart = d.ddr + s.row * d.stride
    BY DEF OnTile
  <2> QED BY <2>1, <2>2
<1>9. WordWrites(c, r) = WordsFrom(base, a, c, r)
  <2>1. c.v => r.v /\ c.addr = (base + a) % SramWords
    BY <1>1, <1>7
  <2> HIDE DEF c, r, a, base
  <2> QED BY <1>2, <1>4, <1>7, <2>1, CommandWrites
<1>10. ASSUME NEW j \in a .. a + Take(s) - 1
       PROVE  [addr |-> (base + j) % SramWords, data |-> r.addr + (c.lo + (j - a))] = Word(d, s.row, j)
  <2>1. (base + j) % SramWords = (d.sram + s.row * d.cols + j) % SramWords
    <3> DEFINE x == s.row * d.cols + j
               q == d.sram % SramWords
    <3>1. x \in Int /\ base + j = q + x /\ d.sram + s.row * d.cols + j = d.sram + x
      <4> DEFINE y == s.row * d.cols
      <4>1. y \in Int /\ j \in Int /\ q \in Int /\ d.sram \in Int /\ base = q + y
        BY <1>3, <1>4, <1>5, <1>6
      <4>2. x = y + j /\ d.sram + s.row * d.cols + j = d.sram + y + j
        OBVIOUS
      <4> HIDE DEF y, x, q, base
      <4> QED BY <4>1, <4>2
    <3> HIDE DEF x, base
    <3>2. (q + x) % SramWords = (d.sram + x) % SramWords
      <4>1. d.sram \in Int
        BY <1>3
      <4> QED BY <1>3, <3>1, <4>1, RemainderOfSum
    <3> QED BY <3>1, <3>2
  <2>2. r.addr + (c.lo + (j - a)) = d.ddr + s.row * d.stride + j
    <3> DEFINE y == s.row * d.stride
               l == Lo(s)
    <3>1. r.addr = s.blk /\ c.lo = l /\ s.blk + l = d.ddr + y + a /\ y \in Nat /\ l \in Nat
      <4> HIDE DEF r, c, a
      <4> QED BY <1>1, <1>3, <1>5, <1>8
    <3>2. j \in Int /\ s.blk \in Nat /\ a \in Nat /\ d.ddr \in Nat
      BY <1>3, <1>4
    <3> HIDE DEF y, l, a, r, c
    <3>3. r.addr + (c.lo + (j - a)) = d.ddr + y + j
      BY <3>1, <3>2
    <3> QED BY <3>3 DEF y
  <2> QED BY <2>1, <2>2 DEF Word
<1>11. WordsFrom(base, a, c, r) = {Word(d, s.row, j) : j \in a .. a + Take(s) - 1}
  <2> HIDE DEF base, a
  <2>1. WordsFrom(base, a, c, r) =
          {[addr |-> (base + j) % SramWords, data |-> r.addr + (c.lo + (j - a))] : j \in a .. a + Take(s) - 1}
    <3>1. c.n = Take(s)
      BY <1>1
    <3> HIDE DEF c, r
    <3> QED BY <3>1 DEF WordsFrom
  <2> HIDE DEF c, r
  <2> QED BY <1>10, <2>1
<1> QED BY <1>9, <1>11

Fresh == WordWrites(NewCommands.a, NewRequests.a) \union WordWrites(NewCommands.b, NewRequests.b)

\* Where a cycle leaves the engine.
Onto == IF IssueB THEN After(After(st, desc), desc) ELSE IF IssueA THEN After(st, desc) ELSE st

\* The words of a burst belong to the tile.
LEMMA BurstInTile ==
  ASSUME NEW s, Position(s), NEW d \in Descriptors, OnTile(s, d), s.row < d.rows
  PROVE  {Word(d, s.row, j) : j \in d.cols - s.left .. d.cols - s.left + Take(s) - 1}
           \subseteq Copy!Target(d)
<1>1. s.row \in 0 .. d.rows - 1 /\ d.rows \in Nat /\ d.cols \in Nat /\ s.left \in 0 .. d.cols
  BY Numbers DEF OnTile
<1>2. Take(s) \in Nat /\ Take(s) <= s.left
  BY Taking
<1>3. ASSUME NEW j \in d.cols - s.left .. d.cols - s.left + Take(s) - 1
      PROVE  j \in 0 .. d.cols - 1
  BY <1>1, <1>2
<1> QED BY <1>1, <1>3, TargetWords

\* What a cycle asks for is in the tile, and all of it that the engine leaves
\* behind in the cycle.
LEMMA CycleWords ==
  ASSUME DmaInv, OnTile(st, desc), state = "run"
  PROVE  /\ OnTile(Onto, desc)
         /\ Fresh \subseteq Copy!Target(desc)
         /\ \A i \in 0 .. desc.rows - 1, j \in 0 .. desc.cols - 1 :
              Behind(Onto, desc, i, j) => Behind(st, desc, i, j) \/ Word(desc, i, j) \in Fresh
<1> DEFINE d == desc
           s == st
           u == After(s, d)
           A == WordWrites(Command(IssueA, s), Request(IssueA, s))
           B == WordWrites(Command(IssueB, u), Request(IssueB, u))
<1>1. d \in Descriptors /\ Position(s) /\ OnTile(s, d)
  BY DEF DmaInv
<1>2. Fresh = A \union B
  BY DEF Fresh, NewCommands, NewRequests
<1>3. IssueA \in BOOLEAN /\ IssueB \in BOOLEAN /\ (IssueB => IssueA)
      /\ (IssueA <=> s.row < d.rows) /\ (IssueB <=> IssueA /\ u.row < d.rows)
  BY DEF IssueA, IssueB
<1>4. ASSUME NEW i \in 0 .. d.rows - 1, NEW j \in 0 .. d.cols - 1
      PROVE  i \in Nat /\ j \in Nat /\ j < d.cols
  BY <1>1, Numbers
<1>5. ~IssueA => A = {}
  BY DEF WordWrites, Command, NoBurst
<1>6. ~IssueB => B = {}
  BY DEF WordWrites, Command, NoBurst
<1>7. ASSUME IssueA
      PROVE  /\ Position(u) /\ OnTile(u, d) /\ A \subseteq Copy!Target(d)
             /\ \A i \in 0 .. d.rows - 1, j \in 0 .. d.cols - 1 :
                  Behind(u, d, i, j) => Behind(s, d, i, j) \/ Word(d, i, j) \in A
  <2>1. s.row < d.rows
    BY <1>3, <1>7
  <2>2. A = {Word(d, s.row, j) : j \in d.cols - s.left .. d.cols - s.left + Take(s) - 1}
    BY <1>1, <1>3, <1>7, BurstWords
  <2>3. Position(u) /\ OnTile(u, d)
    BY <1>1, <2>1, Onward, OnTileAfter
  <2>4. A \subseteq Copy!Target(d)
    BY <1>1, <2>1, <2>2, BurstInTile
  <2>5. ASSUME NEW i \in 0 .. d.rows - 1, NEW j \in 0 .. d.cols - 1, Behind(u, d, i, j)
        PROVE  Behind(s, d, i, j) \/ Word(d, i, j) \in A
    <3>1. \/ Behind(s, d, i, j)
          \/ i = s.row /\ j \in d.cols - s.left .. d.cols - s.left + Take(s) - 1
      <4> HIDE DEF s, d, A
      <4> QED BY <1>1, <1>4, <2>1, <2>5, OnTileAfter
    <3> HIDE DEF s, d, A
    <3> QED BY <2>2, <3>1
  <2> QED BY <2>3, <2>4, <2>5
<1>8. ASSUME IssueB
      PROVE  /\ OnTile(After(u, d), d) /\ B \subseteq Copy!Target(d)
             /\ \A i \in 0 .. d.rows - 1, j \in 0 .. d.cols - 1 :
                  Behind(After(u, d), d, i, j) => Behind(u, d, i, j) \/ Word(d, i, j) \in B
  <2>1. u.row < d.rows /\ Position(u) /\ OnTile(u, d)
    BY <1>3, <1>7, <1>8
  <2> HIDE DEF u, d
  <2>2. B = {Word(d, u.row, j) : j \in d.cols - u.left .. d.cols - u.left + Take(u) - 1}
    BY <1>1, <1>3, <1>8, <2>1, BurstWords
  <2>3. OnTile(After(u, d), d)
    BY <1>1, <2>1, OnTileAfter
  <2>4. B \subseteq Copy!Target(d)
    BY <1>1, <2>1, <2>2, BurstInTile
  <2>5. ASSUME NEW i \in 0 .. d.rows - 1, NEW j \in 0 .. d.cols - 1, Behind(After(u, d), d, i, j)
        PROVE  Behind(u, d, i, j) \/ Word(d, i, j) \in B
    <3>1. \/ Behind(u, d, i, j)
          \/ i = u.row /\ j \in d.cols - u.left .. d.cols - u.left + Take(u) - 1
      <4> HIDE DEF B
      <4> QED BY <1>1, <1>4, <2>1, <2>5, OnTileAfter
    <3> HIDE DEF B
    <3> QED BY <2>2, <3>1
  <2> QED BY <2>3, <2>4, <2>5
<1> HIDE DEF A, B
<1>9. CASE IssueB
  <2>1. Onto = After(u, d)
    BY <1>9 DEF Onto
  <2> HIDE DEF u, d, s
  <2> QED BY <1>2, <1>3, <1>7, <1>8, <1>9, <2>1 DEF d, s
<1>10. CASE IssueA /\ ~IssueB
  <2>1. Onto = u
    BY <1>10 DEF Onto
  <2> HIDE DEF u, d, s
  <2> QED BY <1>2, <1>6, <1>7, <1>10, <2>1 DEF d, s
<1>11. CASE ~IssueA
  BY <1>2, <1>3, <1>5, <1>6, <1>11 DEF Onto
<1> QED BY <1>3, <1>9, <1>10, <1>11

-----------------------------------------------------------------------------
(* The engine implements the copy.                                         *)

Graph(f) == {[addr |-> a, data |-> f[a]] : a \in DOMAIN f}

\* The words the DDR still owes the k-th place of the pipeline.
InFlight(k) == WordWrites(pl[k].a, ring[k].a) \union WordWrites(pl[k].b, ring[k].b)

CopyInv ==
  /\ state \in {"idle", "check", "run", "done"}
  /\ written = [a \in DOMAIN written |-> written[a]]
  /\ state # "run" => PlEmpty
  /\ state = "check" => Graph(written) = {}
  /\ state = "run" =>
       /\ Aligned(desc) /\ OnTile(st, desc)
       /\ Graph(written) \subseteq Copy!Target(desc)
       /\ \A k \in 1 .. Latency : InFlight(k) \subseteq Copy!Target(desc)
       /\ \A i \in 0 .. desc.rows - 1, j \in 0 .. desc.cols - 1 :
            Behind(st, desc, i, j) =>
              \/ Word(desc, i, j) \in Graph(written)
              \/ \E k \in 1 .. Latency : Word(desc, i, j) \in InFlight(k)

\* A set of word writes in which an address has one content.
MemoryImage(T) ==
  /\ \A x, y \in T : x.addr = y.addr => x = y
  /\ \A x \in T : x = [addr |-> x.addr, data |-> x.data]

\* Writing words of a memory image adds them to the memory and changes none that
\* is there.
LEMMA WritingWords ==
  ASSUME NEW f, NEW W, NEW T, Graph(f) \subseteq T, W \subseteq T, MemoryImage(T),
         NEW g, g = Contents(f, W)
  PROVE  /\ g = [a \in DOMAIN g |-> g[a]]
         /\ DOMAIN g = DOMAIN f \union {w.addr : w \in W}
         /\ \A a \in DOMAIN f : g[a] = f[a]
         /\ Graph(g) = Graph(f) \union W
<1>0. /\ \A x, y \in T : x.addr = y.addr => x = y
      /\ \A x \in T : x = [addr |-> x.addr, data |-> x.data]
  BY DEF MemoryImage
<1> DEFINE D == DOMAIN f \union {w.addr : w \in W}
           V(a) == IF \E w \in W : w.addr = a THEN (CHOOSE w \in W : w.addr = a).data ELSE f[a]
<1>1. g = [a \in D |-> V(a)]
  BY DEF Contents
<1>2. ASSUME NEW w \in W
      PROVE  V(w.addr) = w.data
  <2> DEFINE u == CHOOSE x \in W : x.addr = w.addr
  <2>1. u \in W /\ u.addr = w.addr
    OBVIOUS
  <2>2. u = w
    BY <1>0, <2>1
  <2> QED BY <2>2
<1>3. ASSUME NEW a \in DOMAIN f
      PROVE  V(a) = f[a]
  <2>1. CASE \E w \in W : w.addr = a
    <3>1. PICK w \in W : w.addr = a
      BY <2>1
    <3>2. [addr |-> a, data |-> f[a]] \in T
      BY DEF Graph
    <3>3. w = [addr |-> a, data |-> f[a]]
      BY <1>0, <3>1, <3>2
    <3>4. V(a) = w.data
      BY <1>2, <3>1
    <3> QED BY <3>3, <3>4
  <2>2. CASE ~ \E w \in W : w.addr = a
    BY <2>2
  <2> QED BY <2>1, <2>2
<1> HIDE DEF V
<1>4. DOMAIN g = D /\ \A a \in D : g[a] = V(a)
  BY <1>1
<1>5. \A a \in DOMAIN f : g[a] = f[a]
  BY <1>3, <1>4
<1>6. Graph(g) = Graph(f) \union W
  <2>1. ASSUME NEW x \in Graph(g)
        PROVE  x \in Graph(f) \union W
    <3>1. PICK a \in D : x = [addr |-> a, data |-> V(a)]
      BY <1>4 DEF Graph
    <3>2. CASE a \in DOMAIN f
      BY <1>3, <3>1, <3>2 DEF Graph
    <3>3. CASE a \notin DOMAIN f
      <4>1. PICK w \in W : w.addr = a
        BY <3>3
      <4>2. x = [addr |-> w.addr, data |-> w.data] /\ w = [addr |-> w.addr, data |-> w.data]
        BY <1>0, <1>2, <3>1, <4>1
      <4> QED BY <4>1, <4>2
    <3> QED BY <3>2, <3>3
  <2>2. ASSUME NEW x \in Graph(f)
        PROVE  x \in Graph(g)
    <3>1. PICK a \in DOMAIN f : x = [addr |-> a, data |-> f[a]]
      BY DEF Graph
    <3>2. a \in D /\ x = [addr |-> a, data |-> g[a]]
      BY <1>5, <3>1
    <3> HIDE DEF D
    <3> QED BY <1>4, <3>2 DEF Graph
  <2>3. ASSUME NEW w \in W
        PROVE  w \in Graph(g)
    <3>1. w.addr \in D /\ V(w.addr) = w.data
      BY <1>2
    <3>2. w = [addr |-> w.addr, data |-> w.data]
      BY <1>0
    <3> HIDE DEF D
    <3>3. w = [addr |-> w.addr, data |-> g[w.addr]]
      BY <1>4, <3>1, <3>2
    <3> QED BY <1>4, <3>1, <3>3 DEF Graph
  <2> QED BY <2>1, <2>2, <2>3
<1>7. g = [a \in DOMAIN g |-> g[a]]
  BY <1>1, <1>4
<1> QED BY <1>4, <1>5, <1>6, <1>7

LEMMA WritingNothing ==
  ASSUME NEW f, f = [a \in DOMAIN f |-> f[a]]
  PROVE  Contents(f, {}) = f
BY DEF Contents

LEMMA TileIsMemory ==
  ASSUME NEW d \in Descriptors, Aligned(d)
  PROVE  MemoryImage(Copy!Target(d))
<1>1. \A x, y \in Copy!Target(d) : x.addr = y.addr => x = y
  BY TargetUnique
<1>2. \A x \in Copy!Target(d) : x = [addr |-> x.addr, data |-> x.data]
  BY TargetWords DEF Word
<1> QED BY <1>1, <1>2 DEF MemoryImage

\* A pipeline without commands owes nothing.
LEMMA NothingInFlight ==
  ASSUME PlEmpty
  PROVE  WritesNow = {} /\ \A k \in 1 .. Latency : InFlight(k) = {}
<1>1. Latency \in 1 .. Latency
  BY DmaAssumption
<1>2. \A k \in 1 .. Latency : InFlight(k) = {}
  BY DEF PlEmpty, InFlight, WordWrites
<1> QED BY <1>1, <1>2 DEF WritesNow, InFlight

\* A clock edge moves what is in flight one place on.
LEMMA FlightShifts ==
  ASSUME pl' = Shift(pl, NewCommands), ring' = Shift(ring, NewRequests)
  PROVE  /\ InFlight(1)' = Fresh
         /\ \A k \in 2 .. Latency : k - 1 \in 1 .. Latency /\ InFlight(k)' = InFlight(k - 1)
<1>1. Latency \in Nat \ {0}
  BY DmaAssumption
<1>2. pl'[1] = NewCommands /\ ring'[1] = NewRequests
  BY <1>1 DEF Shift
<1>3. ASSUME NEW k \in 2 .. Latency
      PROVE  k - 1 \in 1 .. Latency /\ pl'[k] = pl[k - 1] /\ ring'[k] = ring[k - 1]
  BY <1>1 DEF Shift
<1> QED BY <1>2, <1>3 DEF InFlight, Fresh

LEMMA StaysEmpty ==
  ASSUME PlEmpty, ~IssueA, pl' = Shift(pl, NewCommands)
  PROVE  PlEmpty'
<1>1. Latency \in Nat \ {0} /\ ~IssueB
  BY DmaAssumption DEF IssueB
<1>2. ~NewCommands.a.v /\ ~NewCommands.b.v
  BY <1>1 DEF NewCommands, Command, NoBurst
<1>3. ASSUME NEW k \in 1 .. Latency
      PROVE  ~pl'[k].a.v /\ ~pl'[k].b.v
  <2>1. CASE k = 1
    BY <1>2, <2>1 DEF Shift
  <2>2. CASE k # 1
    <3>1. k - 1 \in 1 .. Latency /\ pl'[k] = pl[k - 1]
      BY <1>1, <2>2 DEF Shift
    <3> QED BY <3>1 DEF PlEmpty
  <2> QED BY <2>1, <2>2
<1> QED BY <1>3 DEF PlEmpty

\* What a clock edge writes while the engine is not in S_RUN: nothing.
LEMMA QuietWrites ==
  ASSUME CopyInv, state # "run", written' = Contents(written, WritesNow)
  PROVE  written' = written
<1>1. WritesNow = {}
  BY NothingInFlight DEF CopyInv
<1> QED BY <1>1, WritingNothing DEF CopyInv

LEMMA CopyInvInit == DmaInit => CopyInv
<1> SUFFICES ASSUME DmaInit PROVE CopyInv
  OBVIOUS
<1>1. PlEmpty
  BY DEF DmaInit, PlEmpty, Quiet, NoBurst
<1> QED BY <1>1 DEF DmaInit, CopyInv

\* A cycle in S_RUN: what was owed is still owed or written, what was asked for
\* is owed.
LEMMA RunKeepsCopy ==
  ASSUME DmaInv, CopyInv, Run
  PROVE  /\ CopyInv'
         /\ DOMAIN written \subseteq DOMAIN written'
         /\ \A a \in DOMAIN written : written'[a] = written[a]
         /\ Graph(written') \subseteq Copy!Target(desc)
<1> DEFINE T == Copy!Target(desc)
<1>1. /\ desc \in Descriptors /\ Aligned(desc) /\ OnTile(st, desc) /\ state = "run"
      /\ Graph(written) \subseteq T
      /\ \A k \in 1 .. Latency : InFlight(k) \subseteq T
      /\ written = [a \in DOMAIN written |-> written[a]]
      /\ Latency \in Nat \ {0}
  BY DmaAssumption DEF CopyInv, DmaInv, Run
<1>2. /\ pl' = Shift(pl, NewCommands) /\ ring' = Shift(ring, NewRequests)
      /\ desc' = desc /\ st' = Onto /\ written' = Contents(written, WritesNow)
      /\ state' = IF ~IssueA /\ PlEmpty THEN "done" ELSE "run"
  BY DEF Run, Pipeline, DdrStep, NewCommands, NewRequests, Elapsed, Write, Onto
<1>3. WritesNow = InFlight(Latency) /\ WritesNow \subseteq T
  <2>1. WritesNow = InFlight(Latency)
    BY DEF WritesNow, InFlight
  <2> QED BY <1>1, <2>1
<1>4. /\ written' = [a \in DOMAIN written' |-> written'[a]]
      /\ DOMAIN written' = DOMAIN written \union {w.addr : w \in WritesNow}
      /\ \A a \in DOMAIN written : written'[a] = written[a]
      /\ Graph(written') = Graph(written) \union WritesNow
  <2>1. MemoryImage(T)
    BY <1>1, TileIsMemory
  <2>2. Graph(written) \subseteq T /\ WritesNow \subseteq T
    BY <1>1, <1>3
  <2>3. written' = Contents(written, WritesNow)
    BY <1>2
  <2> HIDE DEF T
  <2> QED BY <2>1, <2>2, <2>3, WritingWords
<1>5. InFlight(1)' = Fresh /\ \A k \in 2 .. Latency : k - 1 \in 1 .. Latency /\ InFlight(k)' = InFlight(k - 1)
  BY <1>2, FlightShifts
<1>6. /\ OnTile(Onto, desc) /\ Fresh \subseteq T
      /\ \A i \in 0 .. desc.rows - 1, j \in 0 .. desc.cols - 1 :
           Behind(Onto, desc, i, j) => Behind(st, desc, i, j) \/ Word(desc, i, j) \in Fresh
  BY <1>1, CycleWords
<1>7. CASE ~IssueA /\ PlEmpty
  <2>1. PlEmpty'
    BY <1>2, <1>7, StaysEmpty
  <2>2. state' = "done"
    BY <1>2, <1>7
  <2> HIDE DEF T
  <2>3. CopyInv'
    BY <1>4, <2>1, <2>2 DEF CopyInv
  <2>4. Graph(written') \subseteq T
    BY <1>1, <1>3, <1>4
  <2> QED BY <1>4, <2>3, <2>4 DEF T
<1>8. CASE ~ (~IssueA /\ PlEmpty)
  <2>1. state' = "run"
    BY <1>2, <1>8
  <2>2. Graph(written') \subseteq T
    <3> HIDE DEF T
    <3> QED BY <1>1, <1>3, <1>4
  <2>3. ASSUME NEW k \in 1 .. Latency
        PROVE  InFlight(k)' \subseteq T
    <3> HIDE DEF T
    <3>1. CASE k = 1
      BY <1>5, <1>6, <3>1
    <3>2. CASE k # 1
      <4>1. k \in 2 .. Latency
        BY <1>1, <3>2
      <4> QED BY <1>1, <1>5, <4>1
    <3> QED BY <3>1, <3>2
  <2>4. ASSUME NEW i \in 0 .. desc.rows - 1, NEW j \in 0 .. desc.cols - 1, Behind(Onto, desc, i, j)
        PROVE  \/ Word(desc, i, j) \in Graph(written')
               \/ \E k \in 1 .. Latency : Word(desc, i, j) \in InFlight(k)'
    <3> DEFINE w == Word(desc, i, j)
    <3>1. \/ w \in Fresh \/ w \in Graph(written)
          \/ \E k \in 1 .. Latency : w \in InFlight(k)
      BY <1>1, <1>6, <2>4 DEF CopyInv
    <3> HIDE DEF w
    <3>2. CASE w \in Fresh
      <4>1. 1 \in 1 .. Latency
        BY <1>1
      <4> QED BY <1>5, <3>2, <4>1 DEF w
    <3>3. CASE w \in Graph(written)
      BY <1>4, <3>3 DEF w
    <3>4. ASSUME NEW k \in 1 .. Latency, w \in InFlight(k)
          PROVE  w \in Graph(written') \/ \E n \in 1 .. Latency : w \in InFlight(n)'
      <4>1. CASE k = Latency
        BY <1>3, <1>4, <3>4, <4>1
      <4>2. CASE k # Latency
        <5>1. k + 1 \in 2 .. Latency /\ k + 1 \in 1 .. Latency /\ (k + 1) - 1 = k
          BY <1>1, <4>2
        <5>2. InFlight(k + 1)' = InFlight(k)
          BY <1>5, <5>1
        <5> QED BY <3>4, <5>1, <5>2
      <4> QED BY <4>1, <4>2
    <3> QED BY <3>1, <3>2, <3>3, <3>4 DEF w
  <2>5. CopyInv'
    <3>1. Aligned(desc') /\ OnTile(st', desc')
      BY <1>1, <1>2, <1>6
    <3>2. \A i \in 0 .. desc'.rows - 1, j \in 0 .. desc'.cols - 1 :
            Behind(st', desc', i, j) =>
              \/ Word(desc', i, j) \in Graph(written')
              \/ \E k \in 1 .. Latency : Word(desc', i, j) \in InFlight(k)'
      BY <1>2, <2>4
    <3>3. Graph(written') \subseteq Copy!Target(desc') /\ \A k \in 1 .. Latency : InFlight(k)' \subseteq Copy!Target(desc')
      BY <1>2, <2>2, <2>3
    <3> QED BY <1>4, <2>1, <3>1, <3>2, <3>3 DEF CopyInv
  <2> QED BY <1>4, <2>2, <2>5
<1> QED BY <1>7, <1>8

LEMMA CopyInvStep == DmaInv /\ CopyInv /\ [DmaNext]_dmaVars => CopyInv'
<1> SUFFICES ASSUME DmaInv, CopyInv, [DmaNext]_dmaVars PROVE CopyInv'
  OBVIOUS
<1>1. ASSUME Pipeline, state # "run"
      PROVE  PlEmpty'
  <2>1. PlEmpty /\ ~IssueA
    BY <1>1 DEF CopyInv, IssueA
  <2> QED BY <1>1, <2>1, StaysEmpty DEF Pipeline, NewCommands
<1>2. CASE Start
  <2>1. state # "run" /\ state' = "check" /\ Pipeline
    BY <1>2 DEF Start
  <2>2. PlEmpty'
    BY <1>1, <2>1
  <2>3. written' = [a \in {} |-> 0]
    <3>1. WritesNow = {}
      BY <2>1, NothingInFlight DEF CopyInv
    <3>2. written' = Contents([a \in {} |-> 0], {})
      BY <1>2, <3>1 DEF Start, Write
    <3> QED BY <3>2 DEF Contents
  <2>4. Graph(written') = {} /\ written' = [a \in DOMAIN written' |-> written'[a]]
    BY <2>3 DEF Graph
  <2> QED BY <2>1, <2>2, <2>4 DEF CopyInv
<1>3. CASE Check
  <2>1. state = "check" /\ Pipeline /\ written' = Contents(written, WritesNow) /\ desc' = desc
    BY <1>3 DEF Check, Write, Elapsed
  <2>2. PlEmpty' /\ written' = written
    BY <1>1, <2>1, QuietWrites
  <2>3. Graph(written') = {}
    BY <2>1, <2>2 DEF CopyInv
  <2>4. CASE Aligned(desc)
    <3>1. /\ state' = "run"
          /\ st' = [row |-> 0, rstart |-> desc.ddr, blk |-> Block(desc.ddr),
                    left |-> desc.cols, wptr |-> desc.sram % SramWords]
      BY <1>3, <2>4 DEF Check
    <3>2. OnTile(st', desc) /\ \A i, j \in Nat : ~ Behind(st', desc, i, j)
      BY <3>1, OnTileStarts DEF DmaInv
    <3>3. ASSUME NEW i \in 0 .. desc.rows - 1, NEW j \in 0 .. desc.cols - 1
          PROVE  ~ Behind(st', desc, i, j)
      <4>1. i \in Nat /\ j \in Nat
        BY Numbers DEF DmaInv
      <4> QED BY <3>2, <4>1
    <3>4. \A k \in 1 .. Latency : InFlight(k)' = {}
      BY <2>2 DEF PlEmpty, InFlight, WordWrites
    <3> QED BY <2>1, <2>2, <2>3, <2>4, <3>1, <3>2, <3>3, <3>4 DEF CopyInv
  <2>5. CASE ~Aligned(desc)
    BY <1>3, <2>2, <2>5 DEF Check, CopyInv
  <2> QED BY <2>4, <2>5
<1>4. CASE Run
  BY <1>4, RunKeepsCopy
<1>5. CASE Done \/ Idle
  <2>1. state # "run" /\ state' = "idle" /\ Pipeline /\ written' = Contents(written, WritesNow)
    BY <1>5 DEF Done, Idle, Write
  <2>2. PlEmpty' /\ written' = written
    BY <1>1, <2>1, QuietWrites
  <2> QED BY <2>1, <2>2 DEF CopyInv
<1>6. CASE Reset
  <2>1. state' = "idle" /\ pl' = Quiet(NoBurst) /\ written' = Contents(written, WritesNow)
    BY <1>6 DEF Reset, Write
  <2>2. PlEmpty'
    BY <2>1 DEF PlEmpty, Quiet, NoBurst
  <2>3. written' = [a \in DOMAIN written' |-> written'[a]]
    BY <2>1 DEF Contents
  <2> QED BY <2>1, <2>2, <2>3 DEF CopyInv
<1>7. CASE UNCHANGED dmaVars
  BY <1>7 DEF dmaVars, CopyInv, PlEmpty, InFlight
<1> QED BY <1>2, <1>3, <1>4, <1>5, <1>6, <1>7 DEF DmaNext, Clock

\* When the last row is asked for and nothing is owed, the tile is there.
LEMMA TileCopied ==
  ASSUME DmaInv, CopyInv, state = "run", ~IssueA, PlEmpty
  PROVE  written = Copy!Contents(Copy!Target(desc))
<1> DEFINE T == Copy!Target(desc)
<1>1. /\ desc \in Descriptors /\ Aligned(desc) /\ OnTile(st, desc) /\ Graph(written) \subseteq T
      /\ written = [a \in DOMAIN written |-> written[a]]
  BY DEF CopyInv, DmaInv
<1>2. st.row = desc.rows
  <2>1. st.row \in 0 .. desc.rows /\ desc.rows \in Nat
    BY <1>1, Numbers DEF OnTile
  <2>2. ~ (st.row < desc.rows)
    BY DEF IssueA
  <2> QED BY <2>1, <2>2
<1>3. T \subseteq Graph(written)
  <2>1. ASSUME NEW i \in 0 .. desc.rows - 1, NEW j \in 0 .. desc.cols - 1
        PROVE  Word(desc, i, j) \in Graph(written)
    <3>1. Behind(st, desc, i, j)
      BY <1>1, <1>2, Numbers DEF Behind
    <3>2. \A k \in 1 .. Latency : InFlight(k) = {}
      BY NothingInFlight
    <3> QED BY <3>1, <3>2 DEF CopyInv
  <2> QED BY <2>1, TargetWords
<1>4. \A x, y \in T : x.addr = y.addr => x = y
  BY <1>1, TileIsMemory DEF MemoryImage
<1> HIDE DEF T
<1>5. DOMAIN written = {w.addr : w \in T}
  <2>1. \A a \in DOMAIN written : [addr |-> a, data |-> written[a]] \in T
    BY <1>1 DEF Graph
  <2>2. \A w \in T : w.addr \in DOMAIN written
    BY <1>3 DEF Graph
  <2>3. ASSUME NEW a \in DOMAIN written
        PROVE  \E w \in T : w.addr = a
    <3>1. [addr |-> a, data |-> written[a]].addr = a
      OBVIOUS
    <3> QED BY <2>1, <3>1
  <2> QED BY <2>2, <2>3
<1>6. ASSUME NEW a \in DOMAIN written
      PROVE  written[a] = (CHOOSE w \in T : w.addr = a).data
  <2> DEFINE x == [addr |-> a, data |-> written[a]]
             y == CHOOSE w \in T : w.addr = a
  <2>1. x \in T /\ x.addr = a
    BY <1>1 DEF Graph
  <2>2. y \in T /\ y.addr = a
    BY <2>1
  <2>3. x = y
    BY <1>4, <2>1, <2>2
  <2>4. x.data = written[a]
    OBVIOUS
  <2> QED BY <2>3, <2>4
<1>7. written = [a \in {w.addr : w \in T} |-> (CHOOSE w \in T : w.addr = a).data]
  BY <1>1, <1>5, <1>6
<1> QED BY <1>7 DEF T, Copy!Contents

\* What is written in a cycle is some words of the tile, right and in place.
LEMMA MovesSomeWords ==
  ASSUME DOMAIN written \subseteq DOMAIN written',
         \A a \in DOMAIN written : written'[a] = written[a],
         Graph(written') \subseteq Copy!Target(desc), desc' = desc
  PROVE  Copy!SomeWords
BY DEF Graph, Copy!SomeWords

LEMMA CopyStep ==
  DmaInv /\ CopyInv /\ [DmaNext]_dmaVars => [Copy!CopyNext]_<<Phase, desc, written, resets>>
<1> SUFFICES ASSUME DmaInv, CopyInv, [DmaNext]_dmaVars
             PROVE  [Copy!CopyNext]_<<Phase, desc, written, resets>>
  OBVIOUS
<1>1. CASE Start
  <2>1. WritesNow = {}
    BY <1>1, NothingInFlight DEF CopyInv, Start
  <2>2. written' = Copy!Nothing
    BY <1>1, <2>1 DEF Start, Write, Contents, Copy!Nothing
  <2>3. Copy!Accept
    BY <1>1, <2>2 DEF Start, Copy!Accept, Phase
  <2> QED BY <2>3 DEF Copy!CopyNext
<1>2. CASE Check
  <2>1. written' = written /\ desc' = desc /\ resets' = resets /\ state = "check"
    BY <1>2, QuietWrites DEF Check, Write, Elapsed
  <2>2. CASE Aligned(desc)
    BY <1>2, <2>1, <2>2 DEF Check, Phase
  <2>3. CASE ~Aligned(desc)
    <3>1. Copy!Refuse
      BY <1>2, <2>1, <2>3 DEF Check, Phase, Copy!Refuse
    <3> QED BY <3>1 DEF Copy!CopyNext
  <2> QED BY <2>2, <2>3
<1>3. CASE Run
  <2>1. /\ desc' = desc /\ resets' = resets /\ state = "run"
        /\ state' = IF ~IssueA /\ PlEmpty THEN "done" ELSE "run"
        /\ written' = Contents(written, WritesNow)
    BY <1>3 DEF Run, Elapsed, Write
  <2>2. Aligned(desc)
    BY <2>1 DEF CopyInv
  <2>3. CASE ~IssueA /\ PlEmpty
    <3>1. WritesNow = {}
      BY <2>3, NothingInFlight
    <3>2. written' = written
      BY <2>1, <3>1, WritingNothing DEF CopyInv
    <3>3. written = Copy!Contents(Copy!Target(desc))
      BY <2>1, <2>3, TileCopied
    <3>4. Copy!Finish
      BY <2>1, <2>2, <2>3, <3>2, <3>3 DEF Copy!Finish, Phase
    <3> QED BY <3>4 DEF Copy!CopyNext
  <2>4. CASE ~ (~IssueA /\ PlEmpty)
    <3>1. Copy!SomeWords
      BY <1>3, <2>1, RunKeepsCopy, MovesSomeWords
    <3>2. Copy!Move
      BY <2>1, <2>2, <2>4, <3>1 DEF Copy!Move, Phase
    <3> QED BY <3>2 DEF Copy!CopyNext
  <2> QED BY <2>3, <2>4
<1>4. CASE Done
  <2>1. written' = written
    BY <1>4, QuietWrites DEF Done, Write
  <2>2. Copy!Retire
    BY <1>4, <2>1 DEF Done, Elapsed, Phase, Copy!Retire
  <2> QED BY <2>2 DEF Copy!CopyNext
<1>5. CASE Idle
  <2>1. written' = written
    BY <1>5, QuietWrites DEF Idle, Write
  <2> QED BY <1>5, <2>1 DEF Idle, Phase
<1>6. CASE Reset
  <2>1. /\ state # "idle" /\ state' = "idle" /\ desc' = desc /\ resets' = resets + 1
        /\ written' = Contents(written, WritesNow)
    BY <1>6 DEF Reset, Write
  <2>2. Copy!SomeWords
    <3>1. CASE state = "run"
      <4>1. /\ desc \in Descriptors /\ Aligned(desc) /\ Graph(written) \subseteq Copy!Target(desc)
            /\ WritesNow \subseteq Copy!Target(desc)
        <5>1. Latency \in 1 .. Latency
          BY DmaAssumption
        <5> QED BY <3>1, <5>1 DEF CopyInv, DmaInv, WritesNow, InFlight
      <4>2. MemoryImage(Copy!Target(desc))
        BY <4>1, TileIsMemory
      <4>3. /\ DOMAIN written' = DOMAIN written \union {w.addr : w \in WritesNow}
            /\ \A a \in DOMAIN written : written'[a] = written[a]
            /\ Graph(written') = Graph(written) \union WritesNow
        <5> DEFINE T == Copy!Target(desc)
        <5>1. /\ Graph(written) \subseteq T /\ WritesNow \subseteq T /\ MemoryImage(T)
              /\ written' = Contents(written, WritesNow)
          BY <2>1, <4>1, <4>2
        <5> HIDE DEF T
        <5> QED BY <5>1, WritingWords
      <4>4. DOMAIN written \subseteq DOMAIN written' /\ Graph(written') \subseteq Copy!Target(desc)
        BY <4>1, <4>3
      <4> QED BY <2>1, <4>3, <4>4, MovesSomeWords
    <3>2. CASE state # "run"
      <4>1. written' = written
        BY <2>1, <3>2, QuietWrites
      <4> QED BY <2>1, <4>1 DEF Copy!SomeWords
    <3> QED BY <3>1, <3>2
  <2>3. Phase # "idle" /\ Phase' = "idle"
    BY <2>1 DEF Phase
  <2>4. Copy!Abort
    BY <2>1, <2>2, <2>3 DEF Copy!Abort
  <2> QED BY <2>4 DEF Copy!CopyNext
<1>7. CASE UNCHANGED dmaVars
  BY <1>7 DEF dmaVars, Phase
<1> QED BY <1>1, <1>2, <1>3, <1>4, <1>5, <1>6, <1>7 DEF DmaNext, Clock

\* Between start and done the engine writes exactly the words of the tile, each
\* with the contents memcpy gives it, for every descriptor that fits the SRAM,
\* latency and moment of a reset (dma.sv against execDmaLoad of cmodel_exec.cpp).
THEOREM EngineCopies == DmaSpec => ImplementsCopy
<1>1. DmaInit => Copy!CopyInit
  BY DEF DmaInit, Copy!CopyInit, Copy!Nothing, Phase
<1> QED BY InitInv, StepInv, CopyInvInit, CopyInvStep, CopyStep, <1>1, PTL
        DEF DmaSpec, ImplementsCopy, Copy!CopySpec

-----------------------------------------------------------------------------
(* The hash of bank_xbar and the words of a cycle.                         *)

Half == NBank \div 2

LEMMA Halves ==
  /\ NBank \in Nat \ {0} /\ Half \in Nat \ {0} /\ NBank = 2 * Half /\ Fold = Half * NBank
  /\ SramWords \in Nat \ {0} /\ SramWords % NBank = 0 /\ 2 * Burst <= Half
<1>1. /\ NBank \in Nat \ {0} /\ SramWords \in Nat \ {0} /\ SramWords % NBank = 0
      /\ Burst \in Nat \ {0} /\ NBank % 2 = 0 /\ 4 * Burst <= NBank
  BY DmaAssumption, XorAssumption
<1> DEFINE h == Half
<1>2. h \in Nat \ {0} /\ NBank = 2 * h /\ 2 * Burst <= h
  BY <1>1 DEF Half
<1>3. Fold = h * NBank
  <2> HIDE DEF h
  <2>1. NBank * NBank = (h * NBank) * 2 + 0 /\ h * NBank \in Int /\ NBank * NBank \in Int
    BY <1>1, <1>2, SMT
  <2>2. (NBank * NBank) \div 2 = h * NBank
    <3> DEFINE x == NBank * NBank
               q == h * NBank
    <3>1. x \in Int /\ q \in Int /\ x = q * 2 + 0 /\ 2 \in Nat \ {0} /\ 0 \in 0 .. 2 - 1
      BY <2>1
    <3> HIDE DEF x, q
    <3>2. x \div 2 = q
      BY <3>1, QuotientUnique
    <3> QED BY <3>2 DEF x, q
  <2> QED BY <2>2 DEF Fold
<1> QED BY <1>1, <1>2, <1>3

\* The highest bit of a word's row of banks tells on which side of a fold it is.
LEMMA HighBit ==
  ASSUME NEW a \in Nat, NEW b \in Nat, a \div Fold = b \div Fold
  PROVE  /\ (a \div NBank) % NBank \in 0 .. NBank - 1 /\ (b \div NBank) % NBank \in 0 .. NBank - 1
         /\ 2 * ((a \div NBank) % NBank) < NBank <=> 2 * ((b \div NBank) % NBank) < NBank
<1> DEFINE f == a \div Fold
           g == f \div 2
           e == f % 2
<1>1. NBank \in Nat \ {0} /\ Half \in Nat \ {0} /\ NBank = 2 * Half /\ Fold = Half * NBank
  BY Halves
<1>2. f \in Int
  <2>1. a \in Int /\ Half * NBank \in Nat \ {0}
    BY <1>1, QuotientOfProduct
  <2>2. a \div (Half * NBank) \in Int
    <3> DEFINE n == Half * NBank
    <3>1. n \in Nat \ {0}
      BY <2>1
    <3> HIDE DEF n
    <3>2. a \div n \in Int
      BY <2>1, <3>1, Remainder
    <3> QED BY <3>2 DEF n
  <2> QED BY <1>1, <2>2
<1>3. g \in Int /\ e \in 0 .. 1 /\ f = 2 * g + e
  <2> HIDE DEF f
  <2> QED BY <1>2, SMT
<1>4. ASSUME NEW x \in Nat, x \div Fold = f
      PROVE  (x \div NBank) % NBank \in 0 .. NBank - 1 /\ (2 * ((x \div NBank) % NBank) < NBank <=> e = 0)
  <2> DEFINE q == x \div NBank
             t == q - f * Half
  <2>1. t \in 0 .. Half - 1
    BY <1>1, <1>4, QuotientOfProduct
  <2>2. q \in Int
    <3>1. x \in Int
      OBVIOUS
    <3> QED BY <1>1, <3>1, Remainder
  <2> HIDE DEF f, q, g, e
  <2>3. f * Half \in Int /\ e * Half \in Int /\ g * NBank \in Int
        /\ f * Half = g * NBank + e * Half
        /\ (e = 0 => e * Half = 0) /\ (e = 1 => e * Half = Half)
    BY <1>1, <1>2, <1>3, SMT
  <2>4. q = g * NBank + (e * Half + t) /\ e * Half + t \in 0 .. NBank - 1
    BY <1>1, <1>3, <2>1, <2>2, <2>3
  <2>5. q % NBank = e * Half + t
    <3> DEFINE r == e * Half + t
    <3>1. r \in 0 .. NBank - 1 /\ q = g * NBank + r
      BY <2>4
    <3> HIDE DEF r
    <3>2. q % NBank = r
      BY <1>1, <1>3, <2>2, <3>1, RemainderUnique
    <3> QED BY <3>2 DEF r
  <2>6. 2 * (e * Half + t) < NBank <=> e = 0
    BY <1>1, <1>3, <2>1, <2>3
  <2> QED BY <2>4, <2>5, <2>6 DEF q
<1> HIDE DEF f, e
<1> QED BY <1>4 DEF f

\* Two words less than half a row of banks apart and on the same side of every
\* fold are kept apart by the hash.
LEMMA HashApart ==
  ASSUME NEW base \in Nat, NEW i \in Nat, NEW j \in Nat, i < j, j < 2 * Burst,
         NEW a, a = (base + i) % SramWords, NEW b, b = (base + j) % SramWords,
         a \div Fold = b \div Fold
  PROVE  HashedBankOf(a) # HashedBankOf(b)
<1> SUFFICES ASSUME HashedBankOf(a) = HashedBankOf(b) PROVE FALSE
  OBVIOUS
<1> DEFINE k == j - i
           l == a % NBank
           q == a \div NBank
           c == q % NBank
           d == (b \div NBank) % NBank
<1>1. /\ NBank \in Nat \ {0} /\ Half \in Nat \ {0} /\ NBank = 2 * Half
      /\ SramWords \in Nat \ {0} /\ SramWords % NBank = 0 /\ 2 * Burst <= Half /\ Burst \in Nat
      /\ SramWords \in Int
  BY Halves, DmaAssumption
<1>2. k \in Nat /\ k > 0 /\ k < Half
  BY <1>1
<1>3. a \in 0 .. SramWords - 1 /\ b \in 0 .. SramWords - 1 /\ a \in Nat /\ b \in Nat /\ a \in Int
  <2>1. base + i \in Int /\ base + j \in Int
    OBVIOUS
  <2>2. a \in 0 .. SramWords - 1 /\ b \in 0 .. SramWords - 1
    BY <1>1, <2>1, Remainder
  <2> QED BY <1>1, <2>2
<1>4. b = (a + k) % SramWords
  <2>1. base + i \in Int /\ k \in Int /\ (base + i) + k = base + j
    BY <1>2
  <2> HIDE DEF k
  <2>2. (((base + i) % SramWords) + k) % SramWords = ((base + i) + k) % SramWords
    BY <1>1, <2>1, RemainderOfSum
  <2> QED BY <2>1, <2>2
<1>5. l \in 0 .. NBank - 1 /\ q \in Int /\ a = q * NBank + l
  BY <1>1, <1>3, Remainder
<1>6. /\ c \in 0 .. NBank - 1 /\ d \in 0 .. NBank - 1
      /\ 2 * c < NBank <=> 2 * d < NBank
  BY <1>3, HighBit
<1>7. BankXor(l, c) = BankXor(b % NBank, d)
  BY DEF HashedBankOf
<1> HIDE DEF k, l, q, c, d
<1>8. CASE l + k < NBank
  <2>1. a + k \in 0 .. SramWords - 1
    <3> DEFINE m == SramWords \div NBank
               u == q * NBank
               s == m * NBank
    <3>1. m \in Int /\ SramWords = s
      <4>1. NBank \in Nat \ {0} /\ SramWords \in Int /\ SramWords % NBank = 0
        BY <1>1
      <4>2. m \in Int /\ SramWords = m * NBank + (SramWords % NBank)
        BY <4>1, Remainder
      <4> QED BY <4>1, <4>2, SMT
    <3> HIDE DEF m
    <3>2. u \in Int /\ s \in Int /\ (q + 1) * NBank = u + NBank
      BY <1>1, <1>5, <3>1, SMT
    <3>3. q < m
      <4>1. u < s
        <5> HIDE DEF u, s
        <5> QED BY <1>1, <1>3, <1>5, <3>1, <3>2 DEF u
      <4> QED BY <1>1, <1>5, <3>1, <4>1, SMT
    <3>4. u + NBank <= s
      <4>1. (q + 1) * NBank <= m * NBank
        BY <1>1, <1>5, <3>1, <3>3, SMT
      <4> HIDE DEF u
      <4> QED BY <3>2, <4>1
    <3>5. a = u + l
      BY <1>5
    <3> HIDE DEF u, s
    <3> QED BY <1>1, <1>2, <1>3, <1>5, <1>8, <3>1, <3>2, <3>4, <3>5
  <2>2. b = a + k
    <3>1. 0 \in Int /\ a + k \in Int /\ a + k = 0 * SramWords + (a + k)
      BY <1>1, <1>2, <1>3
    <3>2. (a + k) % SramWords = a + k
      BY <1>1, <2>1, <3>1, RemainderUnique
    <3> QED BY <1>4, <3>2
  <2>3. b \in Int /\ b = q * NBank + (l + k) /\ l + k \in 0 .. NBank - 1
    <3>1. q * NBank \in Int
      BY <1>1, <1>5, SMT
    <3> DEFINE u == q * NBank
    <3>2. u \in Int /\ a = u + l /\ b = a + k
      BY <1>5, <2>2, <3>1
    <3> HIDE DEF u
    <3>3. b \in Int /\ b = u + (l + k) /\ l + k \in 0 .. NBank - 1
      BY <1>1, <1>2, <1>5, <1>8, <3>2
    <3> QED BY <3>3 DEF u
  <2>4. b % NBank = l + k /\ b \div NBank = q
    <3> DEFINE r == l + k
    <3>1. b \in Int /\ b = q * NBank + r /\ r \in 0 .. NBank - 1
      BY <2>3
    <3> HIDE DEF r
    <3>2. NBank \in Nat \ {0} /\ q \in Int
      BY <1>1, <1>5
    <3>3. b % NBank = r
      BY <3>1, <3>2, RemainderUnique
    <3>4. b \div NBank = q
      BY <3>1, <3>2, QuotientUnique
    <3> QED BY <3>3, <3>4 DEF r
  <2>5. BankXor(l, c) = BankXor(l + k, c)
    BY <1>7, <2>4 DEF c, d
  <2>6. l = l + k
    BY <1>5, <1>6, <2>3, <2>5, XorAssumption
  <2> QED BY <1>1, <1>2, <1>5, <2>6
<1>9. CASE l + k >= NBank
  <2>1. b % NBank = l + k - NBank
    <3>1. b % NBank = (a + k) % NBank
      <4> DEFINE x == a + k
      <4>1. x \in Int /\ b = x % SramWords
        BY <1>2, <1>3, <1>4
      <4> HIDE DEF x
      <4>2. NBank \in Nat \ {0} /\ SramWords \in Nat \ {0} /\ SramWords % NBank = 0
        BY <1>1
      <4>3. (x % SramWords) % NBank = x % NBank
        BY <4>1, <4>2, RemainderOfRemainder
      <4> QED BY <4>1, <4>3 DEF x
    <3>2. a + k = (q + 1) * NBank + (l + k - NBank) /\ a + k \in Int /\ q + 1 \in Int
          /\ l + k - NBank \in 0 .. NBank - 1
      <4>1. (q + 1) * NBank = q * NBank + NBank /\ q * NBank \in Int
        BY <1>1, <1>5, SMT
      <4> QED BY <1>1, <1>2, <1>3, <1>5, <1>9, <4>1
    <3>3. (a + k) % NBank = l + k - NBank
      <4> DEFINE x == a + k
                 p == q + 1
                 r == l + k - NBank
      <4>1. x \in Int /\ x = p * NBank + r /\ p \in Int /\ r \in 0 .. NBank - 1
        BY <3>2
      <4> HIDE DEF x, p, r
      <4>2. x % NBank = r
        BY <1>1, <4>1, RemainderUnique
      <4> QED BY <4>2 DEF x, r
    <3> QED BY <3>1, <3>3
  <2> DEFINE m == l + k - NBank
  <2>2. m \in 0 .. NBank - 1 /\ 2 * m < NBank /\ ~ (2 * l < NBank)
    BY <1>1, <1>2, <1>5, <1>9
  <2>3. BankXor(l, c) = BankXor(m, d)
    BY <1>7, <2>1
  <2> HIDE DEF m
  <2>4. /\ (2 * BankXor(l, c) < NBank) <=> (2 * l < NBank <=> 2 * c < NBank)
        /\ (2 * BankXor(m, d) < NBank) <=> (2 * m < NBank <=> 2 * d < NBank)
    BY <1>5, <1>6, <2>2, XorAssumption
  <2> QED BY <1>6, <2>2, <2>3, <2>4
<1>10. l + k < NBank \/ l + k >= NBank
  BY <1>1, <1>2, <1>5
<1> QED BY <1>8, <1>9, <1>10

\* With hash_en two words of a cycle meet in one bank only where the cycle's
\* words lie on both sides of a multiple of NBank^2 / 2, for every descriptor,
\* latency and moment of a reset (hash_bank of bank_xbar.sv).
THEOREM HashMeetsAtFolds == DmaSpec => []HashedBanksMeetAtFolds
<1>1. DmaInv => HashedBanksMeetAtFolds
  <2> SUFFICES ASSUME DmaInv PROVE HashedBanksMeetAtFolds
    OBVIOUS
  <2> DEFINE W == WritesNow
             n == (IF ring[Latency].a.v THEN pl[Latency].a.n ELSE 0)
                    + (IF ring[Latency].b.v THEN pl[Latency].b.n ELSE 0)
  <2>1. n \in 0 .. 2 * Burst /\ \E base, f : base \in Nat /\ InARow(W, n, base, f)
    <3>1. PairOK(pl[Latency], ring[Latency])
      BY DmaAssumption DEF DmaInv
    <3>2. W = WordWrites(pl[Latency].a, ring[Latency].a)
                \union WordWrites(pl[Latency].b, ring[Latency].b)
      BY DEF WritesNow
    <3> HIDE DEF W, n
    <3> QED BY <3>1, <3>2, PairWrites DEF W, n
  <2>2. PICK base, f : base \in Nat /\ InARow(W, n, base, f)
    BY <2>1
  <2> HIDE DEF W, n
  <2>3. W = {f[k] : k \in 0 .. n - 1}
    BY <2>2 DEF InARow
  <2>4. \A k \in 0 .. n - 1 : f[k].addr = (base + k) % SramWords
    BY <2>2 DEF InARow
  <2>5. ASSUME NEW i \in 0 .. n - 1, NEW j \in 0 .. n - 1, i < j,
               f[i].addr \div Fold = f[j].addr \div Fold
        PROVE  HashedBankOf(f[i].addr) # HashedBankOf(f[j].addr)
    <3>1. i \in Nat /\ j \in Nat /\ j < 2 * Burst
      BY <2>1, DmaAssumption
    <3> DEFINE a == f[i].addr
               b == f[j].addr
    <3>2. a = (base + i) % SramWords /\ b = (base + j) % SramWords /\ a \div Fold = b \div Fold
      BY <2>4, <2>5
    <3> HIDE DEF a, b
    <3>3. HashedBankOf(a) # HashedBankOf(b)
      BY <2>2, <2>5, <3>1, <3>2, HashApart
    <3> QED BY <3>3 DEF a, b
  <2>6. ASSUME NEW x \in W, NEW y \in W, HashedBankOf(x.addr) = HashedBankOf(y.addr), x # y,
               x.addr \div Fold = y.addr \div Fold
        PROVE  FALSE
    <3>1. PICK i \in 0 .. n - 1 : x = f[i]
      BY <2>3
    <3>2. PICK j \in 0 .. n - 1 : y = f[j]
      BY <2>3
    <3>3. i < j \/ j < i
      BY <2>1, <2>6, <3>1, <3>2
    <3>4. CASE i < j
      BY <2>5, <2>6, <3>1, <3>2, <3>4
    <3>5. CASE j < i
      BY <2>5, <2>6, <3>1, <3>2, <3>5
    <3> QED BY <3>3, <3>4, <3>5
  <2> QED BY <2>6 DEF HashedBanksMeetAtFolds, W
<1> QED BY InitInv, StepInv, <1>1, PTL DEF DmaSpec

-----------------------------------------------------------------------------
(* The bursts of a transfer and the cycles it takes.                       *)

LEMMA BurstsDefined ==
  ASSUME NEW d \in Descriptors, NEW sum, sum = BurstsBefore(d)
  PROVE  /\ sum[0] = 0
         /\ \A n \in 0 .. d.rows : sum[n] \in Int
         /\ \A n \in 0 .. d.rows - 1 : sum[n + 1] = sum[n] + RowBursts(d, n)
<1>1. /\ d.rows \in Nat /\ d.cols \in Nat /\ d.stride \in Nat /\ d.ddr \in Nat
      /\ Burst \in Nat \ {0}
  BY Numbers
<1> DEFINE R == [i \in 0 .. d.rows - 1 |-> RowBursts(d, i)]
<1>2. ASSUME NEW i \in 0 .. d.rows - 1
      PROVE  R[i] \in Int
  <2> DEFINE x == d.ddr + d.stride * i
  <2>1. x \in Int /\ x + d.cols - 1 \in Int
    <3>1. d.stride * i \in Int
      BY <1>1, SMT
    <3> QED BY <1>1, <3>1
  <2> HIDE DEF x
  <2>2. x \div Burst \in Int /\ (x + d.cols - 1) \div Burst \in Int
    BY <1>1, <2>1, Remainder
  <2> QED BY <2>2 DEF RowBursts, x
<1> DEFINE F == [n \in 1 .. d.rows |-> [x \in Int |-> x + R[n - 1]]]
<1>3. \A n \in 1 .. d.rows, x \in Int : F[n][x] \in Int /\ F[n][x] = x + RowBursts(d, n - 1)
  <2>1. \A n \in 1 .. d.rows : R[n - 1] \in Int /\ R[n - 1] = RowBursts(d, n - 1)
    BY <1>1, <1>2
  <2> HIDE DEF R
  <2> QED BY <2>1
<1>4. PICK g \in [0 .. d.rows -> Int] :
        g[0] = 0 /\ \A n \in 1 .. d.rows : g[n] = F[n][g[n - 1]]
  <2> DEFINE m == d.rows
  <2>1. m \in Nat /\ 0 \in Int
    BY <1>1
  <2> HIDE DEF F
  <2>2. StepsIn(F, m, Int)
    BY <1>3 DEF StepsIn
  <2> HIDE DEF m
  <2>3. \E g : Unrolls(g, F, m, Int, 0)
    BY <2>1, <2>2, RecursionExists
  <2> QED BY <2>3 DEF Unrolls, m
<1>5. g = [n \in 0 .. d.rows |-> IF n = 0 THEN 0 ELSE g[n - 1] + RowBursts(d, n - 1)]
  <2>1. \A n \in 0 .. d.rows : n # 0 => n \in 1 .. d.rows /\ g[n - 1] \in Int
    BY <1>1
  <2> HIDE DEF F
  <2> QED BY <1>3, <1>4, <2>1
<1>6. sum = [n \in 0 .. d.rows |-> IF n = 0 THEN 0 ELSE sum[n - 1] + RowBursts(d, n - 1)]
  BY <1>5 DEF BurstsBefore
<1>7. sum[0] = 0
  BY <1>1, <1>6
<1>8. ASSUME NEW n \in 0 .. d.rows - 1
      PROVE  sum[n + 1] = sum[n] + RowBursts(d, n)
  <2>1. n + 1 \in 0 .. d.rows /\ n + 1 # 0 /\ (n + 1) - 1 = n
    BY <1>1
  <2> QED BY <1>6, <2>1
<1>9. \A n \in 0 .. d.rows : sum[n] \in Int
  <2> DEFINE S == {n \in Nat : n <= d.rows => sum[n] \in Int}
  <2>1. 0 \in S
    BY <1>7
  <2>2. ASSUME NEW n \in Nat, n \in S
        PROVE  n + 1 \in S
    <3>1. CASE n + 1 <= d.rows
      <4>1. n \in 0 .. d.rows - 1 /\ R[n] = RowBursts(d, n)
        BY <1>1, <3>1
      <4>2. sum[n] \in Int
        BY <1>1, <2>2, <4>1
      <4>3. R[n] \in Int
        BY <1>2, <4>1
      <4> HIDE DEF R
      <4> QED BY <1>8, <4>1, <4>2, <4>3
    <3>2. CASE ~ (n + 1 <= d.rows)
      BY <3>2
    <3> QED BY <3>1, <3>2
  <2> HIDE DEF S
  <2>3. \A n \in Nat : n \in S
    BY <2>1, <2>2, Induction
  <2> QED BY <1>1, <2>3 DEF S
<1> QED BY <1>7, <1>8, <1>9

LEMMA BlockParts ==
  ASSUME NEW x \in Nat
  PROVE  Block(x) % Burst = 0 /\ Block(x) \div Burst = x \div Burst /\ x \div Burst \in Int
<1> DEFINE q == x \div Burst
           b == Block(x)
<1>1. Burst \in Nat \ {0} /\ x \in Int
  BY DmaAssumption
<1>2. q \in Int /\ x % Burst \in 0 .. Burst - 1 /\ x = q * Burst + (x % Burst)
  BY <1>1, Remainder
<1> HIDE DEF q
<1>3. b \in Int /\ b = q * Burst + 0 /\ 0 \in 0 .. Burst - 1
  <2>1. q * Burst \in Int
    BY <1>1, <1>2, SMT
  <2> QED BY <1>1, <1>2, <2>1 DEF Block
<1> HIDE DEF b
<1>4. b % Burst = 0
  BY <1>1, <1>2, <1>3, RemainderUnique
<1>5. b \div Burst = q
  BY <1>1, <1>2, <1>3, QuotientUnique
<1> QED BY <1>2, <1>4, <1>5 DEF b, q

\* The bursts of the tile up to s, when each of them is one asked for.
Asked(s, d) == BurstsBefore(d)[s.row] + (s.blk \div Burst) - (s.rstart \div Burst)

\* s stands at a burst with words of the row to ask for, or behind the tile.
AtBurst(s, d) ==
  s.blk % Burst = 0 /\ s.left > 0 /\ (s.row = d.rows => s.blk = Block(s.rstart))

LEMMA AskedAfter ==
  ASSUME NEW s, Position(s), NEW d \in Descriptors, OnTile(s, d), s.row < d.rows, d.cols > 0,
         AtBurst(s, d)
  PROVE  AtBurst(After(s, d), d) /\ Asked(After(s, d), d) = Asked(s, d) + 1
<1> DEFINE t == Take(s)
           l == Lo(s)
           m == s.blk \div Burst
           p == s.rstart \div Burst
           u == After(s, d)
           sum == BurstsBefore(d)
<1>1. /\ s.row \in Nat /\ s.rstart \in Nat /\ s.blk \in Nat /\ s.left \in Nat
      /\ d.rows \in Nat /\ d.cols \in Nat /\ d.stride \in Nat /\ d.ddr \in Nat
      /\ Burst \in Nat \ {0} /\ s.blk % Burst = 0 /\ s.left > 0
  BY Numbers DEF Position, AtBurst
<1>2. t \in Nat /\ t <= s.left /\ l \in Nat
  BY Taking
<1>3. s.blk + l = s.rstart + (d.cols - s.left) /\ s.left \in 0 .. d.cols
  BY BurstPlace DEF OnTile
<1>4. m \in Int /\ s.blk = m * Burst
  <2>1. s.blk \in Int
    BY <1>1
  <2>2. m \in Int /\ s.blk = m * Burst + (s.blk % Burst)
    BY <1>1, <2>1, Remainder
  <2>3. m * Burst \in Int
    BY <1>1, <2>2, SMT
  <2> HIDE DEF m
  <2> QED BY <1>1, <2>2, <2>3
<1>5. p \in Int /\ s.rstart = d.ddr + d.stride * s.row
  <2>1. p \in Int
    BY <1>1, BlockParts
  <2>2. s.row * d.stride = d.stride * s.row
    BY <1>1, SMT
  <2> QED BY <2>1, <2>2 DEF OnTile
<1>6. sum[s.row] \in Int /\ sum[s.row + 1] \in Int /\ sum[s.row + 1] = sum[s.row] + RowBursts(d, s.row)
  <2>1. s.row \in 0 .. d.rows - 1 /\ s.row \in 0 .. d.rows /\ s.row + 1 \in 0 .. d.rows
    BY <1>1
  <2> QED BY <2>1, BurstsDefined
<1>7. CASE s.left - t = 0
  <2>1. u = [row |-> s.row + 1, rstart |-> s.rstart + d.stride,
             blk |-> Block(s.rstart + d.stride), left |-> d.cols, wptr |-> s.wptr + t]
    BY <1>7 DEF After
  <2>2. s.rstart + d.stride \in Nat
    BY <1>1
  <2>3. /\ u.blk % Burst = 0 /\ u.blk \div Burst = u.rstart \div Burst
        /\ u.row = s.row + 1 /\ u.left = d.cols /\ u.blk = Block(u.rstart)
        /\ u.rstart \div Burst \in Int
    <3>1. u.blk = Block(s.rstart + d.stride) /\ u.rstart = s.rstart + d.stride
          /\ u.row = s.row + 1 /\ u.left = d.cols
      BY <2>1
    <3> HIDE DEF u
    <3> QED BY <2>2, <3>1, BlockParts
  <2>4. (s.rstart + d.cols - 1) \div Burst = m
    <3> DEFINE x == s.rstart + d.cols - 1
               r == l + s.left - 1
    <3>1. x \in Int /\ x = s.blk + r
      <4> HIDE DEF l
      <4> QED BY <1>1, <1>2, <1>3
    <3>2. r \in 0 .. Burst - 1
      <4>1. s.left <= Burst - l
        BY <1>1, <1>2, <1>7 DEF Take
      <4> HIDE DEF l
      <4> QED BY <1>1, <1>2, <4>1
    <3>3. Burst \in Nat \ {0} /\ x = m * Burst + r
      BY <1>1, <1>4, <3>1
    <3> HIDE DEF x, r, m
    <3>4. x \div Burst = m
      BY <1>4, <3>1, <3>2, <3>3, QuotientUnique
    <3> QED BY <3>4 DEF x
  <2>5. RowBursts(d, s.row) = m - p + 1
    BY <1>5, <2>4 DEF RowBursts
  <2>6. Asked(u, d) = sum[s.row + 1]
    <3> HIDE DEF u, sum
    <3> QED BY <1>6, <2>3 DEF Asked, sum
  <2>7. Asked(s, d) = sum[s.row] + m - p
    BY DEF Asked
  <2> HIDE DEF u, m, p, sum
  <2>8. Asked(u, d) = Asked(s, d) + 1
    BY <1>4, <1>5, <1>6, <2>5, <2>6, <2>7
  <2>9. AtBurst(u, d)
    BY <2>3 DEF AtBurst
  <2> QED BY <2>8, <2>9 DEF u
<1>8. CASE s.left - t # 0
  <2>1. u = [s EXCEPT !.blk = @ + Burst, !.left = @ - t, !.wptr = @ + t]
    BY <1>8 DEF After
  <2>2. u.blk = s.blk + Burst /\ u.left = s.left - t /\ u.row = s.row /\ u.rstart = s.rstart
    BY <2>1 DEF Position
  <2>3. u.blk % Burst = 0 /\ u.blk \div Burst = m + 1
    <3> DEFINE x == s.blk + Burst
    <3>1. x \in Int /\ x = (m + 1) * Burst + 0 /\ m + 1 \in Int /\ 0 \in 0 .. Burst - 1
      <4> HIDE DEF m
      <4>1. (m + 1) * Burst = m * Burst + Burst /\ m * Burst \in Int
        BY <1>1, <1>4, SMT
      <4> QED BY <1>1, <1>4, <4>1
    <3>2. Burst \in Nat \ {0}
      BY <1>1
    <3> DEFINE n == m + 1
    <3> HIDE DEF x, n
    <3>3. x \in Int /\ n \in Int /\ x = n * Burst + 0 /\ 0 \in 0 .. Burst - 1
      BY <3>1 DEF n
    <3>4. x % Burst = 0
      BY <3>2, <3>3, RemainderUnique
    <3>5. x \div Burst = n
      BY <3>2, <3>3, QuotientUnique
    <3> QED BY <2>2, <3>4, <3>5 DEF x, n
  <2> HIDE DEF u, m, p, sum
  <2>4. Asked(u, d) = sum[s.row] + (m + 1) - p
    BY <2>2, <2>3 DEF Asked, sum, p
  <2>5. Asked(s, d) = sum[s.row] + m - p
    BY DEF Asked, sum, m, p
  <2>6. Asked(u, d) = Asked(s, d) + 1
    BY <1>4, <1>5, <1>6, <2>4, <2>5
  <2>7. AtBurst(u, d)
    <3>1. u.left > 0 /\ u.row # d.rows
      BY <1>1, <1>2, <1>8, <2>2
    <3> QED BY <2>3, <3>1 DEF AtBurst
  <2> QED BY <2>6, <2>7 DEF u
<1> QED BY <1>7, <1>8

\* A count of clock edges, as far as the history counts them.
Capped(n) == IF n < MaxCycles THEN n ELSE MaxCycles

\* k cycles after the last request the newest k places of the pipeline are empty
\* and the next one is not.
Drained(k) ==
  /\ \A q \in 1 .. k : ~pl[q].a.v /\ ~pl[q].b.v
  /\ k < Latency => pl[k + 1].a.v

CountInv ==
  /\ state = "check" => bursts = 0 /\ issues = 0 /\ cycles = Capped(1)
  /\ state = "run" /\ desc.cols > 0 =>
       /\ AtBurst(st, desc) /\ issues \in Nat
       /\ bursts = Asked(st, desc)
       /\ bursts = 2 * issues \/ (bursts = 2 * issues - 1 /\ ~IssueA)
       /\ IssueA => cycles = Capped(2 + issues)
       /\ ~IssueA /\ desc.rows > 0 =>
            \E k \in 0 .. Latency : cycles = Capped(2 + issues + k) /\ Drained(k)
  /\ state = "done" /\ desc.cols > 0 =>
       /\ Aligned(desc)
       /\ bursts = ModelBursts(desc) /\ issues = CeilHalf(ModelBursts(desc))
       /\ desc.rows > 0 => cycles = Capped(CeilHalf(ModelBursts(desc)) + 3 + Latency)

\* One more clock edge.
LEMMA Tick ==
  ASSUME NEW n \in Nat, cycles = Capped(n), Elapsed
  PROVE  cycles' = Capped(n + 1)
BY DmaAssumption DEF Capped, Elapsed

\* Where a cycle leaves the count of the bursts.
LEMMA AskedOnto ==
  ASSUME DmaInv, OnTile(st, desc), state = "run", desc.cols > 0, AtBurst(st, desc)
  PROVE  /\ AtBurst(Onto, desc) /\ Asked(st, desc) \in Int
         /\ Asked(Onto, desc) = Asked(st, desc) + (IF IssueB THEN 2 ELSE IF IssueA THEN 1 ELSE 0)
         /\ IssueA /\ ~IssueB => Onto.row = desc.rows
<1> DEFINE d == desc
           u == After(st, d)
<1>1. d \in Descriptors /\ Position(st) /\ (IssueA <=> st.row < d.rows) /\ (IssueB <=> IssueA /\ u.row < d.rows)
  BY DEF DmaInv, IssueA, IssueB
<1>2. Asked(st, d) \in Int
  <2>1. st.row \in 0 .. d.rows /\ st.blk \in Int /\ st.rstart \in Int /\ Burst \in Nat \ {0}
    BY <1>1, Numbers DEF OnTile, Position
  <2>2. BurstsBefore(d)[st.row] \in Int
    BY <1>1, <2>1, BurstsDefined
  <2>3. st.blk \div Burst \in Int /\ st.rstart \div Burst \in Int
    BY <2>1, Remainder
  <2> QED BY <2>2, <2>3 DEF Asked
<1>3. CASE ~IssueA
  BY <1>1, <1>2, <1>3 DEF Onto
<1>4. CASE IssueA
  <2>1. st.row < d.rows
    BY <1>1, <1>4
  <2>2. AtBurst(u, d) /\ Asked(u, d) = Asked(st, d) + 1 /\ Position(u) /\ OnTile(u, d)
    BY <1>1, <2>1, AskedAfter, Onward, OnTileAfter
  <2> HIDE DEF u
  <2>3. CASE ~IssueB
    <3>1. u.row = d.rows
      <4>1. u.row \in 0 .. d.rows /\ d.rows \in Nat
        BY <1>1, <2>2, Numbers DEF OnTile
      <4>2. ~ (u.row < d.rows)
        BY <1>1, <1>4, <2>3
      <4> QED BY <4>1, <4>2
    <3> QED BY <1>2, <1>4, <2>2, <2>3, <3>1 DEF Onto, u
  <2>4. CASE IssueB
    <3>1. u.row < d.rows
      BY <1>1, <2>4
    <3>2. AtBurst(After(u, d), d) /\ Asked(After(u, d), d) = Asked(u, d) + 1
      BY <1>1, <2>2, <3>1, AskedAfter
    <3>3. Onto = After(u, d)
      BY <2>4 DEF Onto, u
    <3> QED BY <1>2, <2>2, <2>4, <3>2, <3>3
  <2> QED BY <2>3, <2>4
<1> QED BY <1>3, <1>4

\* At the end every row is counted.
LEMMA AllAsked ==
  ASSUME DmaInv, OnTile(st, desc), AtBurst(st, desc), ~IssueA, state = "run"
  PROVE  Asked(st, desc) = ModelBursts(desc)
<1>1. st.row = desc.rows /\ desc \in Descriptors /\ desc.rows \in Nat /\ st.rstart \in Nat
  <2>1. st.row \in 0 .. desc.rows /\ desc.rows \in Nat /\ st.rstart \in Nat /\ desc \in Descriptors
    BY Numbers DEF OnTile, DmaInv, Position
  <2>2. ~ (st.row < desc.rows)
    BY DEF IssueA
  <2> QED BY <2>1, <2>2
<1>2. st.blk \div Burst = st.rstart \div Burst /\ st.rstart \div Burst \in Int
  BY <1>1, BlockParts DEF AtBurst
<1>3. BurstsBefore(desc)[desc.rows] \in Int
  <2>1. desc.rows \in 0 .. desc.rows
    BY <1>1
  <2> QED BY <1>1, <2>1, BurstsDefined
<1> QED BY <1>1, <1>2, <1>3 DEF Asked, ModelBursts

LEMMA CountInvInit == DmaInit => CountInv
BY DEF DmaInit, CountInv

LEMMA RunCounts ==
  ASSUME DmaInv, CopyInv, CountInv, Run
  PROVE  CountInv'
<1> SUFFICES ASSUME desc.cols > 0 PROVE CountInv'
  BY DEF CountInv, Run, Elapsed
<1> DEFINE d == desc
           n == IF IssueB THEN 2 ELSE IF IssueA THEN 1 ELSE 0
<1>1. /\ state = "run" /\ d \in Descriptors /\ Aligned(d) /\ OnTile(st, d) /\ AtBurst(st, d)
      /\ issues \in Nat /\ bursts = Asked(st, d)
      /\ bursts = 2 * issues \/ (bursts = 2 * issues - 1 /\ ~IssueA)
      /\ Latency \in Nat \ {0} /\ d.rows \in Nat
  BY Numbers DEF Run, CopyInv, CountInv, DmaInv
<1>2. /\ pl' = Shift(pl, NewCommands) /\ desc' = d /\ st' = Onto /\ Elapsed
      /\ state' = IF ~IssueA /\ PlEmpty THEN "done" ELSE "run"
      /\ bursts' = bursts + n /\ issues' = issues + (IF IssueA THEN 1 ELSE 0)
  BY DEF Run, Pipeline, DdrStep, NewCommands, Elapsed, Onto
<1>3. /\ AtBurst(Onto, d) /\ Asked(st, d) \in Int /\ Asked(Onto, d) = Asked(st, d) + n
      /\ IssueA /\ ~IssueB => Onto.row = d.rows
  BY <1>1, AskedOnto
<1>4. OnTile(Onto, d) /\ (IssueA <=> st.row < d.rows) /\ (IssueB => IssueA)
  BY <1>1, CycleWords DEF IssueA, IssueB
<1> HIDE DEF d
<1>5. CASE state' = "done"
  <2>1. ~IssueA /\ PlEmpty /\ ~IssueB /\ bursts' = bursts /\ issues' = issues
    BY <1>1, <1>2, <1>3, <1>4, <1>5
  <2>2. bursts = ModelBursts(d)
    BY <1>1, <2>1, AllAsked DEF d
  <2>3. issues = CeilHalf(ModelBursts(d))
    <3>1. bursts \in Int /\ (bursts = 2 * issues \/ bursts = 2 * issues - 1)
      BY <1>1, <1>3
    <3>2. (bursts + 1) \div 2 = issues
      <4>1. bursts + 1 \in Int /\ \E r \in 0 .. 2 - 1 : bursts + 1 = issues * 2 + r
        <5>1. CASE bursts = 2 * issues
          BY <1>1, <3>1, <5>1
        <5>2. CASE bursts = 2 * issues - 1
          BY <1>1, <3>1, <5>2
        <5> QED BY <3>1, <5>1, <5>2
      <4>2. 2 \in Nat \ {0} /\ issues \in Int
        BY <1>1
      <4> DEFINE x == bursts + 1
      <4> HIDE DEF x
      <4>3. PICK r \in 0 .. 2 - 1 : x = issues * 2 + r
        BY <4>1 DEF x
      <4>4. x \in Int
        BY <4>1 DEF x
      <4>5. x \div 2 = issues
        BY <4>2, <4>3, <4>4, QuotientUnique
      <4> QED BY <4>5 DEF x
    <3> QED BY <2>2, <3>2 DEF CeilHalf
  <2>4. ASSUME d.rows > 0
        PROVE  cycles' = Capped(issues + 3 + Latency)
    <3>1. PICK k \in 0 .. Latency : cycles = Capped(2 + issues + k) /\ Drained(k)
      BY <1>1, <2>1, <2>4 DEF CountInv, d
    <3>2. k = Latency
      <4>1. k < Latency => k + 1 \in 1 .. Latency
        BY <1>1
      <4>2. k < Latency => FALSE
        BY <2>1, <3>1, <4>1 DEF Drained, PlEmpty
      <4> QED BY <1>1, <4>2
    <3>3. 2 + issues + k \in Nat
      BY <1>1
    <3>4. cycles' = Capped((2 + issues + k) + 1)
      BY <1>2, <3>1, <3>3, Tick
    <3>5. (2 + issues + k) + 1 = issues + 3 + Latency
      BY <1>1, <3>2
    <3> QED BY <3>4, <3>5
  <2> QED BY <1>1, <1>2, <1>5, <2>1, <2>2, <2>3, <2>4 DEF CountInv
<1>6. CASE state' = "run"
  <2> DEFINE A == state' = "run" /\ Onto.row < d.rows
  <2>1. IssueA' <=> A
    BY <1>2 DEF IssueA
  <2>2. AtBurst(Onto, d) /\ issues' \in Nat /\ bursts' = Asked(Onto, d)
    BY <1>1, <1>2, <1>3
  <2>3. bursts' = 2 * issues' \/ (bursts' = 2 * issues' - 1 /\ ~A)
    <3>1. CASE ~IssueA
      <4>1. bursts' = bursts /\ issues' = issues /\ Onto = st
        BY <1>1, <1>2, <1>3, <1>4, <3>1 DEF Onto
      <4> QED BY <1>1, <1>4, <3>1, <4>1
    <3>2. CASE IssueA /\ IssueB
      BY <1>1, <1>2, <1>3, <3>2
    <3>3. CASE IssueA /\ ~IssueB
      BY <1>1, <1>2, <1>3, <3>3
    <3> QED BY <3>1, <3>2, <3>3
  <2>4. ASSUME IssueA
        PROVE  cycles' = Capped(2 + issues')
    <3>1. cycles = Capped(2 + issues) /\ 2 + issues \in Nat
      BY <1>1, <2>4 DEF CountInv
    <3>2. cycles' = Capped((2 + issues) + 1)
      BY <1>2, <3>1, Tick
    <3>3. (2 + issues) + 1 = 2 + issues'
      BY <1>1, <1>2, <2>4
    <3> QED BY <3>2, <3>3
  <2>5. A => IssueA
    BY <1>4 DEF Onto
  <2>6. ASSUME ~A, d.rows > 0
        PROVE  \E k \in 0 .. Latency : cycles' = Capped(2 + issues' + k) /\ Drained(k)'
    <3>1. CASE IssueA
      <4>1. Drained(0)'
        <5>1. pl'[1] = NewCommands /\ NewCommands.a.v
          BY <1>1, <1>2, <3>1 DEF Shift, NewCommands, Command
        <5> QED BY <5>1 DEF Drained
      <4>2. 2 + issues' + 0 = 2 + issues' /\ 0 \in 0 .. Latency
        BY <1>1, <2>2
      <4> QED BY <2>4, <3>1, <4>1, <4>2
    <3>2. CASE ~IssueA
      <4>1. PICK k \in 0 .. Latency : cycles = Capped(2 + issues + k) /\ Drained(k)
        BY <1>1, <2>6, <3>2 DEF CountInv, d
      <4>2. k # Latency
        BY <1>2, <1>6, <3>2, <4>1 DEF Drained, PlEmpty
      <4>3. k + 1 \in 0 .. Latency /\ 2 + issues + k \in Nat /\ issues' = issues
        BY <1>1, <1>2, <3>2, <4>2
      <4>4. cycles' = Capped((2 + issues + k) + 1)
        BY <1>2, <4>1, <4>3, Tick
      <4>5. (2 + issues + k) + 1 = 2 + issues' + (k + 1)
        BY <1>1, <4>3
      <4>6. Drained(k + 1)'
        <5>1. ASSUME NEW q \in 1 .. k + 1
              PROVE  ~pl'[q].a.v /\ ~pl'[q].b.v
          <6>1. CASE q = 1
            <7>1. pl'[1] = NewCommands /\ ~IssueB
              BY <1>1, <1>2, <1>4, <3>2 DEF Shift
            <7> QED BY <3>2, <6>1, <7>1 DEF NewCommands, Command, NoBurst
          <6>2. CASE q # 1
            <7>1. q \in 1 .. Latency /\ q - 1 \in 1 .. k
              BY <1>1, <4>3, <6>2
            <7>2. pl'[q] = pl[q - 1]
              BY <1>2, <6>2, <7>1 DEF Shift
            <7> QED BY <4>1, <7>1, <7>2 DEF Drained
          <6> QED BY <6>1, <6>2
        <5>2. ASSUME k + 1 < Latency
              PROVE  pl'[(k + 1) + 1].a.v
          <6>1. (k + 1) + 1 \in 1 .. Latency /\ (k + 1) + 1 # 1 /\ ((k + 1) + 1) - 1 = k + 1 /\ k < Latency
            BY <1>1, <5>2
          <6>2. pl'[(k + 1) + 1] = pl[k + 1]
            BY <1>2, <6>1 DEF Shift
          <6> QED BY <4>1, <6>1, <6>2 DEF Drained
        <5> QED BY <5>1, <5>2 DEF Drained
      <4> QED BY <4>3, <4>4, <4>5, <4>6
    <3> QED BY <3>1, <3>2
  <2> HIDE DEF A
  <2>7. A => cycles' = Capped(2 + issues')
    BY <2>4, <2>5
  <2> QED BY <1>2, <1>6, <2>1, <2>2, <2>3, <2>6, <2>7 DEF CountInv
<1> QED BY <1>2, <1>5, <1>6

LEMMA CountInvStep == DmaInv /\ CopyInv /\ CountInv /\ [DmaNext]_dmaVars => CountInv'
<1> SUFFICES ASSUME DmaInv, CopyInv, CountInv, [DmaNext]_dmaVars PROVE CountInv'
  OBVIOUS
<1>1. CASE Start
  <2>1. Capped(1) = 1
    BY DmaAssumption DEF Capped
  <2> QED BY <1>1, <2>1 DEF Start, CountInv
<1>2. CASE Check
  <2>1. state = "check" /\ bursts = 0 /\ issues = 0 /\ cycles = Capped(1) /\ desc' = desc /\ Elapsed
        /\ bursts' = bursts /\ issues' = issues /\ desc \in Descriptors
    BY <1>2 DEF Check, CountInv, DmaInv, Elapsed
  <2>2. CASE ~Aligned(desc)
    BY <1>2, <2>2 DEF Check, CountInv
  <2>3. CASE Aligned(desc)
    <3> DEFINE s == [row |-> 0, rstart |-> desc.ddr, blk |-> Block(desc.ddr),
                     left |-> desc.cols, wptr |-> desc.sram % SramWords]
    <3>1. state' = "run" /\ st' = s
      BY <1>2, <2>3 DEF Check
    <3>2. ASSUME desc.cols > 0
          PROVE  AtBurst(st', desc') /\ Asked(st', desc') = 0
      <4>1. desc.ddr \in Nat
        BY <2>1, Numbers
      <4>2. /\ Block(desc.ddr) % Burst = 0 /\ Block(desc.ddr) \div Burst = desc.ddr \div Burst
            /\ desc.ddr \div Burst \in Int
        BY <4>1, BlockParts
      <4>3. BurstsBefore(desc)[0] = 0
        BY <2>1, BurstsDefined
      <4> QED BY <2>1, <3>1, <3>2, <4>2, <4>3 DEF AtBurst, Asked
    <3>3. cycles' = Capped(2)
      <4>1. cycles' = Capped(1 + 1)
        BY <2>1, Tick
      <4> QED BY <4>1
    <3>4. desc.rows > 0 => IssueA'
      BY <2>1, <3>1 DEF IssueA
    <3>5. 2 * 0 = 0 /\ 2 + 0 = 2
      OBVIOUS
    <3> HIDE DEF s
    <3> QED BY <2>1, <3>1, <3>2, <3>3, <3>4, <3>5 DEF CountInv
  <2> QED BY <2>2, <2>3
<1>3. CASE Run
  BY <1>3, RunCounts
<1>4. CASE Done \/ Idle \/ Reset
  BY <1>4 DEF Done, Idle, Reset, CountInv
<1>5. CASE UNCHANGED dmaVars
  BY <1>5 DEF dmaVars, CountInv, IssueA, Drained
<1> QED BY <1>1, <1>2, <1>3, <1>4, <1>5 DEF DmaNext, Clock

\* The engine requests the bursts that the cycle model counts, in half as many
\* cycles rounded up once, whatever the shape of the tile (dma.sv against
\* cyclesDma of cmodel_cycles.cpp).
THEOREM EngineMatchesModel == DmaSpec => []BurstsAsModelled
<1>1. CountInv => BurstsAsModelled
  BY DEF CountInv, BurstsAsModelled
<1> QED BY InitInv, StepInv, CopyInvInit, CopyInvStep, CountInvInit, CountInvStep, <1>1, PTL DEF DmaSpec

\* From start to done the engine takes the model's transfer cycles and
\* 3 + DDR_LATENCY more, which DMA_FIXED_OVERHEAD covers, whatever the shape.
THEOREM OverheadIsFixed == DmaSpec => []FixedOverhead
<1>1. DmaInv /\ CountInv => FixedOverhead
  <2> SUFFICES ASSUME DmaInv, CountInv, state = "done", desc.cols > 0, desc.rows > 0
               PROVE  /\ cycles = CeilHalf(ModelBursts(desc)) + 3 + Latency
                      /\ cycles <= CeilHalf(ModelBursts(desc)) + Overhead
    BY DEF FixedOverhead
  <2> DEFINE h == CeilHalf(ModelBursts(desc))
  <2>1. h \in Int
    <3>1. ModelBursts(desc) \in Int
      <4>1. desc \in Descriptors /\ desc.rows \in 0 .. desc.rows
        BY Numbers DEF DmaInv
      <4> QED BY <4>1, BurstsDefined DEF ModelBursts
    <3> DEFINE x == ModelBursts(desc) + 1
    <3>2. x \in Int /\ 2 \in Nat \ {0}
      BY <3>1
    <3> HIDE DEF x
    <3>3. x \div 2 \in Int
      BY <3>2, Remainder
    <3> QED BY <3>3 DEF CeilHalf, x
  <2>2. cycles = Capped(h + 3 + Latency) /\ Aligned(desc) /\ desc \in Descriptors
    BY DEF CountInv, DmaInv
  <2>3. h + 3 + Latency <= MaxCycles /\ Latency + 3 <= Overhead
    BY <2>2, CountAssumption
  <2> HIDE DEF h
  <2>4. cycles = h + 3 + Latency /\ cycles <= h + Overhead
    BY <2>1, <2>2, <2>3, DmaAssumption DEF Capped
  <2> QED BY <2>4 DEF h
<1> QED BY InitInv, StepInv, CopyInvInit, CopyInvStep, CountInvInit, CountInvStep, <1>1, PTL DEF DmaSpec
=============================================================================
