--------------------------- MODULE MemoryMapProofs ---------------------------
(***************************************************************************)
(* The bump allocator is safe for every function, SRAM size and alignment, *)
(* and so are the strides of the DDR: AllocSpec => []BumpIsSafe and        *)
(* AllocSpec => []DdrIsSafe.  From there the memory map of a run, for      *)
(* every function, trace and size of the command queue, slot by slot       *)
(* through emission, loading and execution: MapSpec => []OwnDescriptor,    *)
(* MapSpec => []TensorsAreApart.                                           *)
(***************************************************************************)
EXTENDS MemoryMap, Arithmetic, TLAPS

\* Rounding up to a multiple: the next multiple, less than one step away.
LEMMA AlignUp ==
  ASSUME NEW a \in Nat, NEW n \in Nat \ {0}
  PROVE  /\ AlignTo(a, n) \in Nat
         /\ a <= AlignTo(a, n) /\ AlignTo(a, n) < a + n
         /\ AlignTo(a, n) % n = 0
<1> DEFINE q == (a + n - 1) \div n
<1>1. q \in Int /\ q * n <= a + n - 1 /\ a + n - 1 < q * n + n
  BY SMT
<1>2. q * n \in Int /\ AlignTo(a, n) = q * n
  BY <1>1 DEF AlignTo
<1> HIDE DEF q
<1>3. (q * n) % n = 0
  BY <1>1, SMT
<1> QED BY <1>1, <1>2, <1>3

\* The walk so far, as far as the bump allocator is concerned: what it handed
\* out lies below next_, and what is left to serve are requests that fit.
Handed(p) ==
  /\ p.base \in Nat /\ p.size \in Nat /\ p.base % p.align = 0
  /\ SramBase <= p.base /\ p.base + p.size <= next_

BumpInv ==
  /\ job \in Jobs
  /\ todo \in Seq(RangeOf(job.allocs))
  /\ next_ \in SramBase .. SramBase + SramSize
  /\ job.layout = "bump" =>
       /\ golden = [b \in {} |-> 0]
       /\ \A p \in Sram : Handed(p)
       /\ \A p, q \in Sram : p # q => ~Overlap(p, q)

LEMMA InitBump == job \in Jobs /\ AllocInit => BumpInv
<1> SUFFICES ASSUME job \in Jobs, AllocInit PROVE BumpInv
  OBVIOUS
<1>1. todo \in Seq(RangeOf(job.allocs))
  BY AllocAssumption DEF AllocInit
<1>2. next_ \in SramBase .. SramBase + SramSize
  BY AllocAssumption DEF AllocInit
<1>3. Sram = {}
  BY DEF AllocInit, Sram
<1> QED BY <1>1, <1>2, <1>3 DEF BumpInv, AllocInit

\* A bump request is refused, and next_ stays, or it is served from next_ on.
LEMMA BumpServes ==
  ASSUME NEW r, Request(r), next_ \in SramBase .. SramBase + SramSize
  PROVE  LET got == Bump(r)
         IN  /\ got.next \in next_ .. SramBase + SramSize
             /\ got.base # 0 => /\ got.base \in Nat /\ got.base % r.align = 0
                                /\ next_ <= got.base /\ got.base + r.size = got.next
<1> USE AllocAssumption
<1> DEFINE b == AlignTo(next_, r.align)
<1>1. r.size \in Nat /\ r.align \in Nat \ {0}
      /\ SramBase + SramSize + r.align + r.size <= Word
  BY DEF Request
<1>2. next_ \in Nat /\ next_ <= SramBase + SramSize
  OBVIOUS
<1>3. b \in Nat /\ next_ <= b /\ b < next_ + r.align /\ b % r.align = 0
  BY <1>1, <1>2, AlignUp
<1> HIDE DEF b
<1>4. b + r.size \in Nat /\ b + r.size < Word /\ b < Word
  BY <1>1, <1>2, <1>3
<1>5. b % Word = b /\ (b + r.size) % Word = b + r.size
  BY <1>3, <1>4
<1>6. (SramBase + SramSize) % Word = SramBase + SramSize
  OBVIOUS
<1>7. Bump(r) = IF b + r.size > SramBase + SramSize
                THEN [base |-> 0, next |-> next_] ELSE [base |-> b, next |-> b + r.size]
  BY <1>5, <1>6 DEF Bump, b
<1> QED BY <1>1, <1>2, <1>3, <1>4, <1>7

LEMMA StepBump == BumpInv /\ [AllocNext]_allocVars => BumpInv'
<1> SUFFICES ASSUME BumpInv, [AllocNext]_allocVars PROVE BumpInv'
  OBVIOUS
<1> USE DEF BumpInv
<1>1. CASE BindArgs
  <2> USE <1>1 DEF BindArgs
  <2>1. Sram' = Sram
    <3>1. \A i \in 1 .. Len(job.args) : \A base : Place(job.args[i], base).space = "arg"
      BY AllocAssumption DEF Place
    <3>2. \A p \in placed' \ placed : p.space = "arg"
      BY <3>1
    <3>3. placed \subseteq placed'
      OBVIOUS
    <3> QED BY <3>2, <3>3 DEF Sram
  <2> QED BY <2>1 DEF Handed, Overlap
<1>2. CASE BuildLayout
  <2>1. job.layout = "bump" => golden' = golden
    BY <1>2 DEF BuildLayout
  <2>2. Sram' = Sram
    BY <1>2 DEF BuildLayout, Sram
  <2> QED BY <1>2, <2>1, <2>2 DEF BuildLayout, Handed, Overlap
<1>3. CASE AllocSram
  <2> DEFINE r == Head(todo)
             got == IF r.buf \in DOMAIN golden
                    THEN [base |-> golden[r.buf], next |-> next_] ELSE Bump(r)
             new == Place(r, got.base)
  <2>1. /\ todo # <<>> /\ r.space = "sram" /\ next_' = got.next /\ todo' = Tail(todo)
        /\ placed' = IF got.base = 0 THEN placed ELSE placed \union {new}
        /\ UNCHANGED <<job, golden>>
    BY <1>3 DEF AllocSram
  <2>2. r \in RangeOf(job.allocs) /\ Tail(todo) \in Seq(RangeOf(job.allocs))
    BY <2>1
  <2>3. Request(r)
    BY <2>2, AllocAssumption
  <2>4. /\ Bump(r).next \in next_ .. SramBase + SramSize
        /\ Bump(r).base # 0 => /\ Bump(r).base \in Nat /\ Bump(r).base % r.align = 0
                               /\ next_ <= Bump(r).base /\ Bump(r).base + r.size = Bump(r).next
    BY <2>3, BumpServes
  <2>5. next_' \in SramBase .. SramBase + SramSize /\ next_ <= next_'
    BY <2>1, <2>4, AllocAssumption
  <2>6. ASSUME job.layout = "bump"
        PROVE  (\A p \in Sram : Handed(p))' /\ (\A p, q \in Sram : p # q => ~Overlap(p, q))'
    <3>1. got = Bump(r)
      BY <2>6
    <3> HIDE DEF got
    <3>2. Sram' = IF got.base = 0 THEN Sram ELSE Sram \union {new}
      BY <2>1 DEF Sram, Place
    <3>3. \A p \in Sram : Handed(p)' /\ p.base \in Nat /\ p.size \in Nat /\ p.base + p.size <= next_
      BY <2>5, <2>6, AllocAssumption DEF Handed
    <3>4. CASE got.base = 0
      BY <2>6, <3>2, <3>3, <3>4 DEF Overlap
    <3>5. CASE got.base # 0
      <4>1. /\ new.base = got.base /\ new.size = r.size /\ new.align = r.align
        BY DEF Place
      <4> PICK n : n = new
        OBVIOUS
      <4> HIDE DEF new
      <4>2. /\ n.base \in Nat /\ n.size \in Nat /\ n.base % n.align = 0
            /\ next_ <= n.base /\ n.base + n.size = next_'
        BY <2>1, <2>3, <2>4, <3>1, <3>5, <4>1 DEF Request
      <4>3. Handed(n)'
        BY <2>5, <4>2, AllocAssumption DEF Handed
      <4>4. \A p \in Sram : ~Overlap(p, n) /\ ~Overlap(n, p)
        BY <3>3, <4>2, AllocAssumption DEF Overlap
      <4>5. Sram' = Sram \union {n}
        BY <3>2, <3>5
      <4> QED BY <2>6, <3>3, <4>3, <4>4, <4>5 DEF Overlap
    <3> QED BY <3>4, <3>5
  <2> QED BY <2>1, <2>2, <2>5, <2>6
<1>4. CASE AllocDdr
  <2>1. Sram' = Sram
    BY <1>4 DEF AllocDdr, Sram, Place
  <2>2. todo # <<>> /\ todo' = Tail(todo) /\ UNCHANGED <<job, next_, golden>>
    BY <1>4 DEF AllocDdr
  <2>3. Tail(todo) \in Seq(RangeOf(job.allocs))
    BY <2>2
  <2> QED BY <2>1, <2>2, <2>3 DEF Handed, Overlap
<1>5. CASE UNCHANGED allocVars
  BY <1>5 DEF allocVars, Sram, Handed, Overlap
<1> QED BY <1>1, <1>2, <1>3, <1>4, <1>5 DEF AllocNext, AllocStep, AllocFinished

\* For every function, SRAM and alignment the bump allocator hands out SRAM that
\* is aligned, inside the SRAM and disjoint (SramAllocator::allocate), provided
\* no request reaches 2^32.
THEOREM BumpAllocatorSafe == AllocSpec => []BumpIsSafe
<1>1. AllocStart => BumpInv
  BY InitBump DEF AllocStart
<1>2. BumpInv /\ [AllocNext]_allocVars => BumpInv'
  BY StepBump
<1>3. BumpInv => BumpIsSafe
  BY AllocAssumption DEF BumpInv, BumpIsSafe, Handed
<1> QED BY <1>1, <1>2, <1>3, PTL DEF AllocSpec

-----------------------------------------------------------------------------

\* A buffer with a whole stride of its own below a.
Within(p, a) ==
  /\ p.base \in Nat /\ p.size \in Nat
  /\ DdrFirst <= p.base /\ p.base + DdrStride <= a

Apart(p, q) == p.base + DdrStride <= q.base \/ q.base + DdrStride <= p.base

\* The walk so far, as far as the DDR is concerned: every buffer has a stride
\* below curDdr, and what is left to place fits below 2^32.
DdrInv ==
  /\ job \in Jobs
  /\ todo \in Seq(RangeOf(job.allocs))
  /\ curDdr \in Nat /\ DdrFirst <= curDdr
  /\ IF stage = "args"
     THEN placed = {} /\ curDdr = DdrFirst /\ todo = job.allocs
     ELSE curDdr + Len(todo) * DdrStride < Word
  /\ \A p \in Ddr : Within(p, curDdr)
  /\ \A p, q \in Ddr : p # q => Apart(p, q)

LEMMA InitDdr == job \in Jobs /\ AllocInit => DdrInv
<1> SUFFICES ASSUME job \in Jobs, AllocInit PROVE DdrInv
  OBVIOUS
<1>1. todo \in Seq(RangeOf(job.allocs))
  BY AllocAssumption DEF AllocInit
<1>2. Ddr = {}
  BY DEF AllocInit, Ddr
<1> QED BY <1>1, <1>2, DdrAssumption DEF DdrInv, AllocInit

\* The first walk: argument i is placed i - 1 strides above the first address.
ArgBase(i) == DdrFirst + (i - 1) * DdrStride
ArgsEnd == DdrFirst + Len(job.args) * DdrStride

LEMMA ArgsPlaced ==
  ASSUME DdrInv, BindArgs
  PROVE  /\ Len(job.args) \in Nat /\ curDdr' = ArgsEnd /\ ArgsEnd \in Nat /\ DdrFirst <= ArgsEnd
         /\ ArgsEnd + Len(todo) * DdrStride < Word
         /\ placed' = {Place(job.args[i], ArgBase(i)) : i \in 1 .. Len(job.args)}
         /\ \A i \in 1 .. Len(job.args) :
              /\ ArgBase(i) \in Nat /\ DdrFirst <= ArgBase(i) /\ ArgBase(i) + DdrStride <= ArgsEnd
         /\ \A i, k \in 1 .. Len(job.args) : i < k => ArgBase(i) + DdrStride <= ArgBase(k)
<1> DEFINE n == Len(job.args)
<1>1. stage = "args" /\ stage' = "layout" /\ UNCHANGED <<job, todo>>
  BY DEF BindArgs
<1>2. placed = {} /\ curDdr = DdrFirst /\ todo = job.allocs /\ job \in Jobs
      /\ todo \in Seq(RangeOf(job.allocs))
  BY <1>1 DEF DdrInv
<1>3. /\ DdrStride \in Nat \ {0} /\ DdrFirst \in Nat /\ Word \in Nat
      /\ n \in Nat /\ Len(todo) \in Nat
      /\ DdrFirst + (n + Len(todo)) * DdrStride < Word
  <2>1. DdrStride \in Nat \ {0} /\ DdrFirst \in Nat /\ Word \in Nat
    BY DdrAssumption, AllocAssumption
  <2>2. n \in Nat
    BY <1>2, DdrAssumption
  <2>3. Len(todo) \in Nat
    BY <1>2
  <2>4. DdrFirst + (n + Len(job.allocs)) * DdrStride < Word
    BY <1>2, DdrAssumption
  <2> QED BY <1>2, <2>1, <2>2, <2>3, <2>4
<1>4. PICK L \in Nat : L = Len(todo)
  BY <1>3
<1>5. n \in Nat /\ DdrFirst + (n + L) * DdrStride < Word
  BY <1>3, <1>4
<1>6. ArgsEnd = DdrFirst + n * DdrStride
  BY DEF ArgsEnd
<1> HIDE DEF n
<1>7. /\ ArgsEnd \in Nat /\ DdrFirst <= ArgsEnd /\ ArgsEnd < Word
      /\ ArgsEnd + L * DdrStride < Word
      /\ \A i \in 1 .. n :
           /\ ArgBase(i) \in Nat /\ DdrFirst <= ArgBase(i)
           /\ ArgBase(i) + DdrStride <= ArgsEnd /\ ArgBase(i) % Word = ArgBase(i)
      /\ \A i, k \in 1 .. n : i < k => ArgBase(i) + DdrStride <= ArgBase(k)
  BY <1>3, <1>5, <1>6, Strides DEF ArgBase
<1>8. curDdr' = ArgsEnd
  <2>1. curDdr' = ArgsEnd % Word
    BY <1>2, <1>6 DEF BindArgs, n
  <2> QED BY <1>3, <1>7, <2>1, Fitting
<1>9. placed' = {Place(job.args[i], ArgBase(i)) : i \in 1 .. n}
  <2>1. placed' = placed \union {Place(job.args[i], ArgBase(i) % Word) : i \in 1 .. n}
    BY <1>2 DEF BindArgs, ArgBase, n
  <2> QED BY <1>2, <1>7, <2>1
<1> QED BY <1>3, <1>4, <1>7, <1>8, <1>9 DEF n

\* So the arguments are one stride apart.
LEMMA ArgsApart ==
  ASSUME DdrInv, BindArgs PROVE DdrInv'
<1> DEFINE n == Len(job.args)
           Arg(i) == Place(job.args[i], ArgBase(i))
<1>1. stage' = "layout" /\ UNCHANGED <<job, todo>>
  BY DEF BindArgs
<1>2. job \in Jobs /\ todo \in Seq(RangeOf(job.allocs))
  BY DEF DdrInv
<1>3. /\ n \in Nat /\ curDdr' = ArgsEnd /\ ArgsEnd \in Nat /\ DdrFirst <= ArgsEnd
      /\ ArgsEnd + Len(todo) * DdrStride < Word
      /\ placed' = {Arg(i) : i \in 1 .. n}
      /\ \A i \in 1 .. n :
           /\ ArgBase(i) \in Nat /\ DdrFirst <= ArgBase(i) /\ ArgBase(i) + DdrStride <= ArgsEnd
      /\ \A i, k \in 1 .. n : i < k => ArgBase(i) + DdrStride <= ArgBase(k)
  BY ArgsPlaced
<1>4. \A i \in 1 .. n : Arg(i).base = ArgBase(i) /\ Arg(i).size = job.args[i].size
  BY DEF Place
<1>5. \A i \in 1 .. n : job.args[i].size \in Nat
  BY <1>2, DdrAssumption DEF RangeOf
<1> HIDE DEF Arg, n
<1>6. \A p \in Ddr' : \E i \in 1 .. n : p = Arg(i)
  BY <1>3 DEF Ddr
<1>7. ASSUME NEW p \in Ddr' PROVE Within(p, curDdr')
  BY <1>3, <1>4, <1>5, <1>6 DEF Within
<1>8. ASSUME NEW p \in Ddr', NEW q \in Ddr', p # q PROVE Apart(p, q)
  <2>1. PICK i \in 1 .. n : p = Arg(i)
    BY <1>6
  <2>2. PICK k \in 1 .. n : q = Arg(k)
    BY <1>6
  <2>3. i < k \/ k < i
    BY <1>3, <1>8, <2>1, <2>2
  <2> QED BY <1>3, <1>4, <2>1, <2>2, <2>3 DEF Apart
<1> QED BY <1>1, <1>2, <1>3, <1>7, <1>8 DEF DdrInv, Within, Apart

\* One alloc less to place: what is left still fits.
LEMMA OneLess ==
  ASSUME DdrInv, stage = "allocs", todo # <<>>
  PROVE  /\ Tail(todo) \in Seq(RangeOf(job.allocs)) /\ Head(todo) \in RangeOf(job.allocs)
         /\ curDdr + DdrStride + Len(Tail(todo)) * DdrStride < Word
<1> USE DEF DdrInv
<1>1. Len(Tail(todo)) = Len(todo) - 1 /\ Len(todo) \in Nat \ {0}
  OBVIOUS
<1>2. Len(todo) * DdrStride = DdrStride + Len(Tail(todo)) * DdrStride
  BY <1>1, DdrAssumption, SMT
<1>3. Len(Tail(todo)) * DdrStride \in Nat /\ Len(todo) * DdrStride \in Nat
  BY <1>1, DdrAssumption, SMT
<1> QED BY <1>1, <1>2, <1>3, DdrAssumption, AllocAssumption

LEMMA StepDdr == DdrInv /\ [AllocNext]_allocVars => DdrInv'
<1> SUFFICES ASSUME DdrInv, [AllocNext]_allocVars PROVE DdrInv'
  OBVIOUS
<1> USE DEF DdrInv
<1>1. CASE BindArgs
  BY <1>1, ArgsApart
<1>2. CASE BuildLayout
  BY <1>2 DEF BuildLayout, Ddr, Within, Apart
<1>3. CASE AllocSram
  <2>1. stage = "allocs" /\ todo # <<>> /\ todo' = Tail(todo) /\ UNCHANGED <<job, stage, curDdr>>
    BY <1>3 DEF AllocSram
  <2>2. PICK new : new.space = "sram" /\ placed' \subseteq placed \union {new}
                   /\ placed \subseteq placed'
    BY <1>3 DEF AllocSram, Place
  <2>3. Ddr' = Ddr
    BY <2>2 DEF Ddr
  <2>4. /\ Tail(todo) \in Seq(RangeOf(job.allocs))
        /\ curDdr + DdrStride + Len(Tail(todo)) * DdrStride < Word
    BY <2>1, OneLess
  <2>5. Len(Tail(todo)) * DdrStride \in Nat
    BY <2>4, DdrAssumption, SMT
  <2>6. curDdr + Len(Tail(todo)) * DdrStride < Word
    BY <2>4, <2>5, DdrAssumption, AllocAssumption
  <2> QED BY <2>1, <2>3, <2>4, <2>6 DEF Within, Apart
<1>4. CASE AllocDdr
  <2> DEFINE new == Place(Head(todo), curDdr)
  <2>1. /\ stage = "allocs" /\ todo # <<>> /\ todo' = Tail(todo) /\ UNCHANGED <<job, stage>>
        /\ placed' = placed \union {new}
        /\ curDdr' = (curDdr + DdrStride) % Word
    BY <1>4 DEF AllocDdr
  <2>2. /\ Tail(todo) \in Seq(RangeOf(job.allocs)) /\ Head(todo) \in RangeOf(job.allocs)
        /\ curDdr + DdrStride + Len(Tail(todo)) * DdrStride < Word
    BY <2>1, OneLess
  <2>3. Len(Tail(todo)) * DdrStride \in Nat
    BY <2>2, DdrAssumption, SMT
  <2>4. curDdr' = curDdr + DdrStride
    <3>1. curDdr + DdrStride \in Nat /\ curDdr + DdrStride < Word
      BY <2>2, <2>3, DdrAssumption, AllocAssumption
    <3> QED BY <2>1, <3>1, AllocAssumption, Fitting
  <2>5. new.base = curDdr /\ new.size \in Nat
    BY <2>2, AllocAssumption DEF Place, Request
  <2> HIDE DEF new
  <2>6. Ddr' \subseteq Ddr \union {new}
    BY <2>1 DEF Ddr
  <2>7. ASSUME NEW p \in Ddr' PROVE Within(p, curDdr')
    BY <2>4, <2>5, <2>6, DdrAssumption DEF Within
  <2>8. ASSUME NEW p \in Ddr', NEW q \in Ddr', p # q PROVE Apart(p, q)
    BY <2>5, <2>6, <2>8, DdrAssumption DEF Within, Apart
  <2>9. curDdr' \in Nat /\ DdrFirst <= curDdr' /\ curDdr' + Len(todo') * DdrStride < Word
    BY <2>1, <2>2, <2>4, DdrAssumption
  <2> QED BY <2>1, <2>2, <2>7, <2>8, <2>9 DEF Within, Apart
<1>5. CASE UNCHANGED allocVars
  BY <1>5 DEF allocVars, Ddr, Within, Apart
<1> QED BY <1>1, <1>2, <1>3, <1>4, <1>5 DEF AllocNext, AllocStep, AllocFinished

\* For every function whose buffers end below 2^32, arguments and results get
\* addresses a stride apart above the command queue, whichever way the SRAM
\* requests between them went (runOnOperation).
THEOREM DdrBuffersSafe == AllocSpec => []DdrIsSafe
<1>1. AllocStart => DdrInv
  BY InitDdr DEF AllocStart
<1>2. DdrInv /\ [AllocNext]_allocVars => DdrInv'
  BY StepDdr
<1>3. DdrInv => DdrIsSafe
  <2> SUFFICES ASSUME DdrInv, \A p \in Ddr : p.size <= DdrStride, NEW p \in Ddr, NEW q \in Ddr
               PROVE  DdrFirst <= p.base /\ (p # q => ~Overlap(p, q))
    BY DEF DdrIsSafe
  <2>1. Within(p, curDdr) /\ Within(q, curDdr) /\ (p # q => Apart(p, q))
    BY DEF DdrInv
  <2> QED BY <2>1, DdrAssumption DEF Within, Apart, Overlap
<1> QED BY <1>1, <1>2, <1>3, PTL DEF AllocSpec

-----------------------------------------------------------------------------
(* The memory map of a run.                                                *)

LEMMA Appending ==
  ASSUME NEW s, s \in Seq(RangeOf(s)), NEW e
  PROVE  /\ Append(s, e) \in Seq(RangeOf(Append(s, e)))
         /\ Len(Append(s, e)) = Len(s) + 1 /\ Len(s) \in Nat
         /\ Append(s, e)[Len(s) + 1] = e
         /\ \A i \in 1 .. Len(s) : Append(s, e)[i] = s[i]
<1> DEFINE S == RangeOf(s) \union {e}
           t == Append(s, e)
<1>1. s \in Seq(S)
  OBVIOUS
<1>2. t \in Seq(S) /\ Len(t) = Len(s) + 1 /\ Len(s) \in Nat
      /\ t[Len(s) + 1] = e /\ \A i \in 1 .. Len(s) : t[i] = s[i]
  BY <1>1
<1> HIDE DEF t, S
<1>3. t \in Seq(RangeOf(t))
  BY <1>2 DEF RangeOf
<1> QED BY <1>2, <1>3 DEF t

-----------------------------------------------------------------------------

\* How far the walk over the allocs has come.
Visited == Len(job.allocs) - Len(todo)

\* Every buffer has one place, the arguments are where ArgBase says, and the
\* DDR allocs visited so far have theirs.
NameInv ==
  /\ Visited \in 0 .. Len(job.allocs)
  /\ \A i \in 1 .. Len(todo) : todo[i] = job.allocs[Visited + i]
  /\ stage = "args" => placed = {} /\ Visited = 0
  /\ \A p \in placed :
       \/ \E i \in 1 .. Len(job.args) : p.buf = job.args[i].buf
       \/ \E i \in 1 .. Visited : p.buf = job.allocs[i].buf
  /\ \A p, q \in placed : p.buf = q.buf => p = q
  /\ stage # "args" => \A i \in 1 .. Len(job.args) : Place(job.args[i], ArgBase(i)) \in placed
  /\ \A i \in 1 .. Visited : job.allocs[i].space = "ddr" =>
       \E p \in placed : p.buf = job.allocs[i].buf /\ p.space = "ddr"

LEMMA InitName == job \in Jobs /\ AllocInit => NameInv
<1> SUFFICES ASSUME job \in Jobs, AllocInit PROVE NameInv
  OBVIOUS
<1>1. job.allocs \in Seq(RangeOf(job.allocs))
  BY AllocAssumption
<1>2. Len(job.allocs) \in Nat /\ Visited = 0
  BY <1>1 DEF AllocInit, Visited
<1> QED BY <1>1, <1>2 DEF AllocInit, NameInv

LEMMA BindNames == ASSUME DdrInv, NameInv, BindArgs PROVE NameInv'
<1> DEFINE n == Len(job.args)
           Arg(i) == Place(job.args[i], ArgBase(i))
<1>1. stage = "args" /\ stage' = "layout" /\ UNCHANGED <<job, todo>>
  BY DEF BindArgs
<1>2. placed' = {Arg(i) : i \in 1 .. n}
  BY ArgsPlaced
<1>3. \A i \in 1 .. n : Arg(i).buf = job.args[i].buf
  BY DEF Place
<1>4. \A i, k \in 1 .. n : job.args[i].buf = job.args[k].buf => i = k
  BY MapAssumption DEF DdrInv
<1>5. Visited' = Visited /\ Visited = 0
  BY <1>1 DEF Visited, NameInv
<1>6. \A i : ArgBase(i)' = ArgBase(i)
  BY DEF ArgBase
<1> HIDE DEF Arg, n
<1>7. \A p \in placed' : \E i \in 1 .. n : p = Arg(i) /\ p.buf = job.args[i].buf
  BY <1>2, <1>3
<1>8. \A p, q \in placed' : p.buf = q.buf => p = q
  BY <1>4, <1>7
<1>9. \A i \in 1 .. n : Arg(i) \in placed'
  BY <1>2
<1> QED BY <1>1, <1>5, <1>6, <1>7, <1>8, <1>9 DEF NameInv, Arg, n

\* The alloc the walk comes to next is a new name.
LEMMA Visit ==
  ASSUME DdrInv, NameInv, stage = "allocs", todo # <<>>, todo' = Tail(todo), job' = job
  PROVE  /\ Visited \in Nat /\ Visited' = Visited + 1 /\ Visited + 1 <= Len(job.allocs)
         /\ Len(job.allocs) \in Nat
         /\ Head(todo) = job.allocs[Visited + 1]
         /\ \A i \in 1 .. Len(todo') : todo'[i] = job.allocs[Visited + 1 + i]
         /\ \A p \in placed : p.buf # Head(todo).buf
<1>1. job \in Jobs /\ todo \in Seq(RangeOf(job.allocs)) /\ job.allocs \in Seq(RangeOf(job.allocs))
  BY AllocAssumption DEF DdrInv
<1>2. /\ Len(todo) \in Nat \ {0} /\ Len(job.allocs) \in Nat /\ Len(Tail(todo)) = Len(todo) - 1
      /\ Head(todo) = todo[1] /\ \A i \in 1 .. Len(todo) - 1 : Tail(todo)[i] = todo[i + 1]
  BY <1>1
<1>3. Visited \in Nat /\ Visited' = Visited + 1 /\ Visited + 1 <= Len(job.allocs)
  BY <1>2 DEF Visited, NameInv
<1>4. \A i \in 1 .. Len(todo) : todo[i] = job.allocs[Visited + i]
  BY DEF NameInv
<1>5. Head(todo) = job.allocs[Visited + 1]
  BY <1>2, <1>4
<1>6. ASSUME NEW i \in 1 .. Len(todo') PROVE todo'[i] = job.allocs[Visited + 1 + i]
  <2>1. i + 1 \in 1 .. Len(todo) /\ todo'[i] = todo[i + 1]
    BY <1>2
  <2>2. todo[i + 1] = job.allocs[Visited + (i + 1)]
    BY <1>4, <2>1
  <2> QED BY <1>3, <2>1, <2>2
<1>7. ASSUME NEW p \in placed PROVE p.buf # Head(todo).buf
  <2>1. CASE \E i \in 1 .. Len(job.args) : p.buf = job.args[i].buf
    BY <1>1, <1>2, <1>3, <1>5, <2>1, MapAssumption
  <2>2. CASE \E i \in 1 .. Visited : p.buf = job.allocs[i].buf
    <3>1. PICK i \in 1 .. Visited : p.buf = job.allocs[i].buf
      BY <2>2
    <3>2. i \in 1 .. Len(job.allocs) /\ Visited + 1 \in 1 .. Len(job.allocs) /\ i # Visited + 1
      BY <1>2, <1>3
    <3> QED BY <1>1, <1>5, <3>1, <3>2, MapAssumption
  <2> QED BY <2>1, <2>2 DEF NameInv
<1> QED BY <1>2, <1>3, <1>5, <1>6, <1>7

\* A visit that places r under its name, or places nothing it need not.
LEMMA VisitNames ==
  ASSUME DdrInv, NameInv, stage = "allocs", todo # <<>>, todo' = Tail(todo), job' = job, stage' = stage,
         NEW r, r.buf = Head(todo).buf, placed' = placed \/ placed' = placed \union {r},
         Head(todo).space = "ddr" => r \in placed' /\ r.space = "ddr"
  PROVE  NameInv'
<1>1. /\ Visited \in Nat /\ Visited' = Visited + 1 /\ Visited + 1 <= Len(job.allocs)
      /\ Len(job.allocs) \in Nat
      /\ Head(todo) = job.allocs[Visited + 1]
      /\ \A i \in 1 .. Len(todo') : todo'[i] = job.allocs[Visited + 1 + i]
      /\ \A p \in placed : p.buf # Head(todo).buf
  BY Visit
<1>2. \A i : ArgBase(i)' = ArgBase(i)
  BY DEF ArgBase
<1>3. Visited' \in 0 .. Len(job.allocs)
  BY <1>1
<1>4. ASSUME NEW p \in placed'
      PROVE  \/ \E i \in 1 .. Len(job.args) : p.buf = job.args[i].buf
             \/ \E i \in 1 .. Visited + 1 : p.buf = job.allocs[i].buf
  <2>1. CASE p \in placed
    <3>1. \/ \E i \in 1 .. Len(job.args) : p.buf = job.args[i].buf
          \/ \E i \in 1 .. Visited : p.buf = job.allocs[i].buf
      BY <2>1 DEF NameInv
    <3>2. \A i \in 1 .. Visited : i \in 1 .. Visited + 1
      BY <1>1
    <3> QED BY <3>1, <3>2
  <2>2. CASE p = r
    BY <1>1, <2>2
  <2> QED BY <2>1, <2>2
<1>5. ASSUME NEW p \in placed', NEW q \in placed', p.buf = q.buf PROVE p = q
  BY <1>1, <1>5 DEF NameInv
<1>6. \A i \in 1 .. Len(job.args) : Place(job.args[i], ArgBase(i)) \in placed'
  BY DEF NameInv
<1>7. ASSUME NEW i \in 1 .. Visited + 1, job.allocs[i].space = "ddr"
      PROVE  \E p \in placed' : p.buf = job.allocs[i].buf /\ p.space = "ddr"
  <2>1. CASE i = Visited + 1
    BY <1>1, <1>7, <2>1
  <2>2. CASE i # Visited + 1
    <3>1. i \in 1 .. Visited
      BY <1>1, <2>2
    <3> QED BY <1>7, <3>1 DEF NameInv
  <2> QED BY <2>1, <2>2
<1> QED BY <1>1, <1>2, <1>3, <1>4, <1>5, <1>6, <1>7 DEF NameInv

LEMMA StepName == ASSUME DdrInv, NameInv, AllocStep PROVE NameInv'
<1>1. CASE BindArgs
  BY <1>1, BindNames
<1>2. CASE BuildLayout
  <2>1. UNCHANGED <<job, todo, placed>> /\ stage # "args" /\ stage' # "args"
    BY <1>2 DEF BuildLayout
  <2> QED BY <2>1 DEF NameInv, Visited, ArgBase
<1>3. CASE AllocSram
  <2> DEFINE got == IF Head(todo).buf \in DOMAIN golden
                    THEN [base |-> golden[Head(todo).buf], next |-> next_] ELSE Bump(Head(todo))
             r == Place(Head(todo), got.base)
  <2>1. /\ stage = "allocs" /\ todo # <<>> /\ todo' = Tail(todo) /\ UNCHANGED <<job, stage>>
        /\ placed' = placed \/ placed' = placed \union {r}
        /\ Head(todo).space = "sram"
    BY <1>3 DEF AllocSram
  <2>2. r.buf = Head(todo).buf
    BY DEF Place
  <2> HIDE DEF r
  <2> QED BY <2>1, <2>2, VisitNames
<1>4. CASE AllocDdr
  <2> DEFINE r == Place(Head(todo), curDdr)
  <2>1. /\ stage = "allocs" /\ todo # <<>> /\ todo' = Tail(todo) /\ UNCHANGED <<job, stage>>
        /\ placed' = placed \union {r}
        /\ Head(todo).space = "ddr"
    BY <1>4 DEF AllocDdr
  <2>2. r.buf = Head(todo).buf /\ r.space = Head(todo).space
    BY DEF Place
  <2> HIDE DEF r
  <2> QED BY <2>1, <2>2, VisitNames
<1> QED BY <1>1, <1>2, <1>3, <1>4 DEF AllocStep

-----------------------------------------------------------------------------

\* When the walk is over, each tensor in DDR has the one place PlacedAs finds.
LEMMA Tensor ==
  ASSUME DdrInv, NameInv, AllocDone, NEW b, InDdr(job, b)
  PROVE  PlacedAs(b) \in Ddr /\ PlacedAs(b).buf = b
<1>1. /\ job \in Jobs /\ stage = "allocs" /\ Len(todo) = 0
      /\ \A i \in 1 .. Len(job.args) : job.args[i].space = "arg"
  BY AllocAssumption DEF DdrInv, AllocDone
<1>2. Visited = Len(job.allocs)
  BY <1>1, AllocAssumption DEF Visited
<1>3. \E p \in placed : p.buf = b /\ p.space # "sram"
  <2>1. CASE \E i \in 1 .. Len(job.args) : b = job.args[i].buf
    <3>1. PICK i \in 1 .. Len(job.args) : b = job.args[i].buf
      BY <2>1
    <3>2. Place(job.args[i], ArgBase(i)) \in placed
      BY <1>1 DEF NameInv
    <3>3. /\ Place(job.args[i], ArgBase(i)).buf = b
          /\ Place(job.args[i], ArgBase(i)).space = "arg"
      BY <1>1, <3>1 DEF Place
    <3> QED BY <3>2, <3>3
  <2>2. CASE \E i \in 1 .. Len(job.allocs) : b = job.allocs[i].buf /\ job.allocs[i].space = "ddr"
    BY <1>2, <2>2 DEF NameInv
  <2> QED BY <2>1, <2>2 DEF InDdr
<1>4. PICK p \in placed : p.buf = b /\ p.space # "sram"
  BY <1>3
<1>5. PlacedAs(b) = p
  BY <1>4 DEF PlacedAs, NameInv
<1> QED BY <1>4, <1>5 DEF Ddr

\* The slots of two tensors are disjoint and none is a slot of the descriptors.
LEMMA SlotsApart ==
  ASSUME DdrInv, NameInv, AllocDone, NEW b, InDdr(job, b)
  PROVE  /\ \A s \in SlotsOf(b) : s \in Int /\ DataFirst <= s
         /\ (\A p \in Ddr : p.size <= DdrStride) =>
              \A c : c # b /\ InDdr(job, c) => SlotsOf(b) \cap SlotsOf(c) = {}
<1> DEFINE p == PlacedAs(b)
<1>1. p \in Ddr /\ p.buf = b
  BY Tensor
<1>2. Within(p, curDdr)
  BY <1>1 DEF DdrInv
<1> HIDE DEF p
<1>3. /\ DdrStride \in Nat /\ DdrFirst \in Nat /\ DataFirst = DdrFirst
      /\ p.base \in Nat /\ p.size \in Nat /\ DdrFirst <= p.base
  BY <1>2, MapAssumption, DdrAssumption DEF Within
<1>4. SlotsOf(b) = {p.base + k : k \in 0 .. p.size - 1}
  BY DEF SlotsOf, Slots, p
<1>5. \A s \in SlotsOf(b) : s \in Int /\ DataFirst <= s
  BY <1>3, <1>4
<1>6. ASSUME \A x \in Ddr : x.size <= DdrStride, NEW c, c # b, InDdr(job, c)
      PROVE  SlotsOf(b) \cap SlotsOf(c) = {}
  <2> DEFINE q == PlacedAs(c)
  <2>1. q \in Ddr /\ q.buf = c
    BY <1>6, Tensor
  <2>2. Within(q, curDdr)
    BY <2>1 DEF DdrInv
  <2>3. SlotsOf(c) = {q.base + k : k \in 0 .. q.size - 1}
    BY DEF SlotsOf, Slots
  <2> HIDE DEF q
  <2>4. q.base \in Nat /\ q.size \in Nat /\ p.size <= DdrStride /\ q.size <= DdrStride
    BY <1>1, <1>6, <2>1, <2>2 DEF Within
  <2>5. Apart(p, q)
    BY <1>1, <1>6, <2>1 DEF DdrInv
  <2> QED BY <1>3, <1>4, <2>3, <2>4, <2>5 DEF Apart
<1> QED BY <1>5, <1>6

\* The input file of argument t goes to the slots of the argument.
LEMMA InputPlace ==
  ASSUME DdrInv, NameInv, AllocDone, NEW t \in 1 .. Len(job.args), inputs[t] = job.args[t].size
  PROVE  InDdr(job, job.args[t].buf) /\ InputSlots(t) = SlotsOf(job.args[t].buf)
<1> DEFINE p == Place(job.args[t], ArgBase(t))
<1>1. InDdr(job, job.args[t].buf)
  BY DEF InDdr
<1>2. PlacedAs(job.args[t].buf) \in placed /\ PlacedAs(job.args[t].buf).buf = job.args[t].buf
  BY <1>1, Tensor DEF Ddr
<1>3. p \in placed
  BY DEF NameInv, AllocDone
<1>4. p.buf = job.args[t].buf /\ p.base = ArgBase(t) /\ p.size = job.args[t].size
  BY DEF Place
<1> HIDE DEF p
<1>5. PlacedAs(job.args[t].buf) = p
  BY <1>2, <1>3, <1>4 DEF NameInv
<1>6. SlotsOf(job.args[t].buf) = Slots(ArgBase(t), job.args[t].size)
  BY <1>4, <1>5 DEF SlotsOf
<1>7. InputSlots(t) = Slots(ArgBase(t), job.args[t].size)
  BY MapAssumption DEF InputSlots, ArgBase
<1> QED BY <1>1, <1>6, <1>7

-----------------------------------------------------------------------------

\* What tensor b of job j holds before instruction n of trace t.
Held(j, t, b, n) ==
  LET stores == {m \in 1 .. n - 1 : t[m] = Access("store", b)}
      args == {i \in DOMAIN j.args : j.args[i].buf = b}
  IN  IF stores # {} THEN <<"output", CHOOSE m \in stores : \A k \in stores : k <= m>>
      ELSE IF args # {} THEN <<"input", CHOOSE i \in args : TRUE>>
      ELSE Nothing

LEMMA ContentsAreHeld == \A n : Contents(n) = Held(job, trace, trace[n].buf, n)
BY DEF Contents, Held

\* Before the run an argument holds its input and a result nothing.
LEMMA HeldFirst ==
  ASSUME NEW j \in Jobs, NEW t, NEW b
  PROVE  /\ \A i \in 1 .. Len(j.args) : j.args[i].buf = b => Held(j, t, b, 1) = <<"input", i>>
         /\ (\A i \in 1 .. Len(j.args) : j.args[i].buf # b) => Held(j, t, b, 1) = Nothing
<1> DEFINE args == {i \in DOMAIN j.args : j.args[i].buf = b}
<1>1. DOMAIN j.args = 1 .. Len(j.args)
  BY DdrAssumption
<1>2. Held(j, t, b, 1) = IF args # {} THEN <<"input", CHOOSE i \in args : TRUE>> ELSE Nothing
  BY DEF Held
<1>3. ASSUME NEW i \in 1 .. Len(j.args), j.args[i].buf = b PROVE Held(j, t, b, 1) = <<"input", i>>
  <2>1. args = {i}
    BY <1>1, <1>3, MapAssumption
  <2> HIDE DEF args
  <2> QED BY <1>2, <2>1
<1>4. ASSUME \A i \in 1 .. Len(j.args) : j.args[i].buf # b PROVE Held(j, t, b, 1) = Nothing
  BY <1>1, <1>2, <1>4
<1> QED BY <1>3, <1>4

\* An instruction changes what it stores to and nothing else.
LEMMA HeldNext ==
  ASSUME NEW j, NEW t, NEW b, NEW n \in Nat \ {0}
  PROVE  Held(j, t, b, n + 1) =
           IF t[n] = Access("store", b) THEN <<"output", n>> ELSE Held(j, t, b, n)
<1> DEFINE old == {m \in 1 .. n - 1 : t[m] = Access("store", b)}
           new == {m \in 1 .. (n + 1) - 1 : t[m] = Access("store", b)}
           args == {i \in DOMAIN j.args : j.args[i].buf = b}
           Last(S) == CHOOSE m \in S : \A k \in S : k <= m
           From(S) == IF S # {} THEN <<"output", Last(S)>>
                      ELSE IF args # {} THEN <<"input", CHOOSE i \in args : TRUE>> ELSE Nothing
<1>1. Held(j, t, b, n) = From(old) /\ Held(j, t, b, n + 1) = From(new)
  BY DEF Held
<1>2. CASE t[n] = Access("store", b)
  <2>1. n \in new /\ \A k \in new : k \in Nat /\ k <= n
    BY <1>2
  <2> HIDE DEF new
  <2>2. ASSUME NEW m \in new, \A k \in new : k <= m PROVE m = n
    BY <2>1, <2>2
  <2>3. Last(new) = n
    BY <2>1, <2>2
  <2> HIDE DEF Last
  <2> QED BY <1>1, <1>2, <2>1, <2>3
<1>3. CASE t[n] # Access("store", b)
  <2>1. new = old
    BY <1>3
  <2> HIDE DEF new, old, From
  <2> QED BY <1>1, <1>3, <2>1
<1> QED BY <1>2, <1>3

-----------------------------------------------------------------------------

OpOf(n) ==
  [sync  |-> trace[n].kind = "sync",
   load  |-> IF trace[n].kind = "load" THEN SlotsOf(trace[n].buf) ELSE {},
   store |-> IF trace[n].kind = "store" THEN SlotsOf(trace[n].buf) ELSE {}]

IsSync(n) == trace[n].kind = "sync"

\* The emission and the three phases of the driver: the descriptors are below
\* descAddr and no two instructions share one.
RunInv ==
  /\ AllocDone /\ trace \in TracesOf(job)
  /\ ops = [n \in DOMAIN trace |-> OpOf(n)]
  /\ inputs = [i \in DOMAIN job.args |-> job.args[i].size]
  /\ lines \in Seq(RangeOf(lines)) /\ Len(lines) <= Len(trace)
  /\ descAddr \in Nat
  /\ \A i \in 1 .. Len(lines) : lines[i] \in Nat /\ (~IsSync(i) => lines[i] < descAddr)
  /\ \A i, k \in 1 .. Len(lines) : i < k /\ ~IsSync(i) => lines[i] < lines[k]
  /\ loaded \in 0 .. Len(job.args) /\ pushed \in 0 .. Len(lines) /\ run \in 0 .. Len(lines)
  /\ loaded # 0 => Len(lines) = Len(trace)
  /\ pushed # 0 => Len(lines) = Len(trace) /\ loaded = Len(job.args)
  /\ run # 0 => pushed = Len(trace)
  /\ read \in Seq(RangeOf(read)) /\ Len(read) = run
  /\ data \in Seq(RangeOf(data)) /\ Len(data) = run

\* The descriptors lie in the DDR as they were written.
DescInv ==
  Fits =>
    /\ \A n \in 1 .. pushed : ~IsSync(n) => At(lines[n]) = <<"desc", n>>
    /\ \A n \in 1 .. run : read[n] = <<IF IsSync(n) THEN "sync" ELSE "desc", n>>

Small == \A p \in Ddr : p.size <= DdrStride

\* The input of b has not been written yet.
Missing(b) == \E i \in loaded + 1 .. Len(job.args) : job.args[i].buf = b

\* Each tensor holds what it should, slot by slot, and so did every load.
TensorInv ==
  Fits /\ Small =>
    /\ \A b : InDdr(job, b) => \A s \in SlotsOf(b) :
         At(s) = IF Missing(b) THEN Nothing ELSE Held(job, trace, b, run + 1)
    /\ \A n \in 1 .. run : trace[n].kind = "load" =>
         data[n] = [s \in SlotsOf(trace[n].buf) |-> Held(job, trace, trace[n].buf, n)]

MapInv ==
  /\ DdrInv /\ NameInv
  /\ trace = <<>> => LoaderIdle
  /\ trace # <<>> => RunInv /\ DescInv /\ TensorInv

LEMMA InitMap == MapInit => MapInv
BY InitDdr, InitName DEF MapInit, AllocStart, MapInv

\* What the assumptions say of the trace.
LEMMA TraceFacts ==
  ASSUME job \in Jobs, trace \in TracesOf(job)
  PROVE  /\ Len(trace) \in Nat /\ DOMAIN trace = 1 .. Len(trace)
         /\ Len(job.args) \in Nat /\ DOMAIN job.args = 1 .. Len(job.args)
         /\ \A n \in 1 .. Len(trace) :
              /\ trace[n] = Access(trace[n].kind, trace[n].buf)
              /\ trace[n].kind \in {"load", "store"} => InDdr(job, trace[n].buf)
<1>1. trace \in Seq(RangeOf(trace)) /\ job.args \in Seq(RangeOf(job.args))
  BY MapAssumption, DdrAssumption
<1>2. /\ Len(trace) \in Nat /\ DOMAIN trace = 1 .. Len(trace)
      /\ Len(job.args) \in Nat /\ DOMAIN job.args = 1 .. Len(job.args)
  BY <1>1
<1> QED BY <1>2, MapAssumption

LEMMA StepAllocating == ASSUME MapInv, Allocating PROVE MapInv'
<1>1. AllocStep /\ UNCHANGED <<loaderVars, trace>> /\ DdrInv /\ NameInv
  BY DEF MapInv, Allocating
<1>2. DdrInv' /\ NameInv'
  BY <1>1, StepDdr, StepName DEF AllocNext
<1>3. CASE trace = <<>>
  BY <1>1, <1>2, <1>3 DEF MapInv, LoaderIdle, loaderVars
<1>4. CASE trace # <<>>
  <2>1. AllocDone
    BY <1>4 DEF MapInv, RunInv
  <2>2. stage = "allocs" /\ todo = <<>>
    BY <2>1 DEF AllocDone
  <2> QED BY <1>1, <2>2 DEF AllocStep, BindArgs, BuildLayout, AllocSram, AllocDdr
<1> QED BY <1>3, <1>4

LEMMA StepCompiled == ASSUME MapInv, Compiled PROVE MapInv'
<1>1. /\ UNCHANGED allocVars /\ UNCHANGED <<lines, descAddr, loaded, pushed, run, ddr, read, data>>
      /\ AllocDone /\ trace = <<>> /\ trace' \in TracesOf(job)
      /\ inputs' = [i \in DOMAIN job.args |-> job.args[i].size]
  BY DEF Compiled
<1>2. UNCHANGED <<job, stage, todo, next_, curDdr, golden, placed, failed>>
  BY <1>1 DEF allocVars
<1>3. DdrInv /\ NameInv /\ LoaderIdle /\ job \in Jobs
  BY <1>1 DEF MapInv, DdrInv
<1>4. DdrInv' /\ NameInv'
  BY <1>2, <1>3 DEF DdrInv, NameInv, Ddr, Within, Apart, Visited, ArgBase
<1>5. LoaderIdle'
  BY <1>1, <1>3 DEF LoaderIdle
<1>6. /\ lines' = <<>> /\ descAddr' = DescFirst /\ loaded' = 0 /\ pushed' = 0 /\ run' = 0
      /\ ddr' = [s \in {} |-> Nothing] /\ read' = <<>> /\ data' = <<>>
  BY <1>5 DEF LoaderIdle
<1>7. job' \in Jobs /\ trace' \in TracesOf(job')
  BY <1>1, <1>2, <1>3
<1>8. RunInv'
  <2>1. Len(trace') \in Nat /\ Len(job'.args) \in Nat
    BY <1>7, MapAssumption, DdrAssumption
  <2>2. ops' = [n \in DOMAIN trace' |-> OpOf(n)']
    BY <1>2 DEF Compiled, OpOf, SlotsOf, PlacedAs
  <2>3. AllocDone'
    BY <1>1, <1>2 DEF AllocDone
  <2>4. <<>> \in Seq(RangeOf(<<>>)) /\ Len(<<>>) = 0
    OBVIOUS
  <2> QED BY <1>1, <1>2, <1>6, <1>7, <2>1, <2>2, <2>3, <2>4, LoaderAssumption DEF RunInv
<1>9. DescInv'
  BY <1>6 DEF DescInv
<1>10. TensorInv'
  <2>1. ASSUME NEW b PROVE (IF Missing(b) THEN Nothing ELSE Held(job, trace, b, run + 1))' = Nothing
    <3>1. CASE \E i \in 1 .. Len(job'.args) : job'.args[i].buf = b
      BY <1>6, <3>1 DEF Missing
    <3>2. CASE ~ \E i \in 1 .. Len(job'.args) : job'.args[i].buf = b
      <4>1. Held(job', trace', b, 1) = Nothing
        BY <1>7, <3>2, HeldFirst
      <4>2. ~Missing(b)'
        BY <1>6, <3>2 DEF Missing
      <4> QED BY <1>6, <4>1, <4>2
    <3> QED BY <3>1, <3>2
  <2>2. \A s : At(s)' = Nothing
    BY <1>6 DEF At
  <2> QED BY <1>6, <2>1, <2>2 DEF TensorInv
<1> QED BY <1>4, <1>5, <1>8, <1>9, <1>10 DEF MapInv

-----------------------------------------------------------------------------

LEMMA AtWritten ==
  ASSUME NEW S, NEW w, ddr' = Written(S, w)
  PROVE  \A s : At(s)' = IF s \in S THEN w ELSE At(s)
BY DEF At, Written

\* While the program runs, the addresses and the trace stand.
LEMMA Frame ==
  ASSUME DdrInv, NameInv, UNCHANGED <<allocVars, trace>>
  PROVE  /\ DdrInv' /\ NameInv' /\ UNCHANGED <<job, trace, stage, todo, placed>>
         /\ Small' = Small /\ AllocDone' = AllocDone
         /\ \A b : SlotsOf(b)' = SlotsOf(b)
         /\ \A n : OpOf(n)' = OpOf(n) /\ IsSync(n)' = IsSync(n)
<1>1. UNCHANGED <<job, stage, todo, next_, curDdr, golden, placed, failed, trace>>
  BY DEF allocVars
<1>2. DdrInv' /\ NameInv'
  BY <1>1 DEF DdrInv, NameInv, Ddr, Within, Apart, Visited, ArgBase
<1>3. Small' = Small /\ AllocDone' = AllocDone
  BY <1>1 DEF Small, Ddr, AllocDone
<1>4. \A b : SlotsOf(b)' = SlotsOf(b)
  BY <1>1 DEF SlotsOf, PlacedAs
<1>5. \A n : OpOf(n)' = OpOf(n) /\ IsSync(n)' = IsSync(n)
  BY <1>1 DEF OpOf, IsSync, SlotsOf, PlacedAs
<1> QED BY <1>1, <1>2, <1>3, <1>4, <1>5

LEMMA OpFields ==
  \A n : /\ OpOf(n).sync <=> IsSync(n)
         /\ OpOf(n).load = IF trace[n].kind = "load" THEN SlotsOf(trace[n].buf) ELSE {}
         /\ OpOf(n).store = IF trace[n].kind = "store" THEN SlotsOf(trace[n].buf) ELSE {}
BY DEF OpOf, IsSync

\* The operation behind line n of the trace.
LEMMA OpFacts ==
  ASSUME RunInv, job \in Jobs
  PROVE  /\ Len(ops) = Len(trace) /\ Len(trace) \in Nat
         /\ Len(inputs) = Len(job.args) /\ Len(job.args) \in Nat
         /\ \A i \in 1 .. Len(job.args) : inputs[i] = job.args[i].size
         /\ \A n \in 1 .. Len(trace) : ops[n] = OpOf(n)
         /\ Len(lines) \in Nat
<1>1. /\ Len(trace) \in Nat /\ DOMAIN trace = 1 .. Len(trace)
      /\ Len(job.args) \in Nat /\ DOMAIN job.args = 1 .. Len(job.args)
  BY TraceFacts DEF RunInv
<1>2. /\ ops = [n \in DOMAIN trace |-> OpOf(n)]
      /\ inputs = [i \in DOMAIN job.args |-> job.args[i].size]
      /\ lines \in Seq(RangeOf(lines))
  BY DEF RunInv
<1>3. Len(lines) \in Nat
  BY <1>2
<1>4. Len(ops) = Len(trace) /\ \A n \in 1 .. Len(trace) : ops[n] = OpOf(n)
  BY <1>1, <1>2
<1>5. Len(inputs) = Len(job.args) /\ \A i \in 1 .. Len(job.args) : inputs[i] = job.args[i].size
  BY <1>1, <1>2
<1> QED BY <1>1, <1>3, <1>4, <1>5

LEMMA StepEmit ==
  ASSUME DdrInv, NameInv, RunInv, DescInv, TensorInv, EmitLine, UNCHANGED <<allocVars, trace>>
  PROVE  RunInv' /\ DescInv' /\ TensorInv'
<1>1. /\ UNCHANGED <<job, trace>> /\ Small' = Small /\ AllocDone' = AllocDone
      /\ \A b : SlotsOf(b)' = SlotsOf(b)
      /\ \A n : OpOf(n)' = OpOf(n) /\ IsSync(n)' = IsSync(n)
  BY Frame
<1>2. /\ Len(ops) = Len(trace) /\ Len(trace) \in Nat
      /\ \A n \in 1 .. Len(trace) : ops[n] = OpOf(n)
      /\ Len(lines) \in Nat
  BY OpFacts DEF DdrInv
<1>3. /\ Len(lines) < Len(trace) /\ lines' = Append(lines, descAddr)
      /\ descAddr' = NextDesc(ops[Len(lines) + 1])
      /\ UNCHANGED <<ops, inputs, loaded, pushed, run, ddr, read, data>>
  BY <1>2 DEF EmitLine
<1>4. /\ AllocDone /\ trace \in TracesOf(job)
      /\ ops = [n \in DOMAIN trace |-> OpOf(n)]
      /\ inputs = [i \in DOMAIN job.args |-> job.args[i].size]
      /\ lines \in Seq(RangeOf(lines)) /\ descAddr \in Nat
      /\ \A i \in 1 .. Len(lines) : lines[i] \in Nat /\ (~IsSync(i) => lines[i] < descAddr)
      /\ \A i, k \in 1 .. Len(lines) : i < k /\ ~IsSync(i) => lines[i] < lines[k]
      /\ loaded \in 0 .. Len(job.args) /\ loaded = 0 /\ pushed = 0 /\ run = 0
      /\ read \in Seq(RangeOf(read)) /\ Len(read) = run
      /\ data \in Seq(RangeOf(data)) /\ Len(data) = run
  <2>1. /\ loaded # 0 => Len(lines) = Len(trace)
        /\ pushed # 0 => Len(lines) = Len(trace)
        /\ run # 0 => pushed = Len(trace)
    BY DEF RunInv
  <2>2. loaded = 0 /\ pushed = 0 /\ run = 0
    BY <1>2, <1>3, <2>1
  <2> QED BY <2>2 DEF RunInv
<1>5. /\ lines' \in Seq(RangeOf(lines')) /\ Len(lines') = Len(lines) + 1
      /\ lines'[Len(lines) + 1] = descAddr
      /\ \A i \in 1 .. Len(lines) : lines'[i] = lines[i]
  BY <1>3, <1>4, Appending
<1>6. descAddr' = IF IsSync(Len(lines) + 1) THEN descAddr ELSE descAddr + 1
  <2>1. Len(lines) + 1 \in 1 .. Len(trace)
    BY <1>2, <1>3
  <2>2. ops[Len(lines) + 1].sync <=> IsSync(Len(lines) + 1)
    BY <1>2, <2>1, OpFields
  <2> QED BY <1>3, <2>2 DEF NextDesc
<1>7. descAddr' \in Nat /\ descAddr <= descAddr'
  BY <1>4, <1>6
<1>8. ASSUME NEW i \in 1 .. Len(lines') PROVE lines'[i] \in Nat /\ (~IsSync(i) => lines'[i] < descAddr')
  <2>1. CASE i \in 1 .. Len(lines)
    BY <1>4, <1>5, <1>7, <2>1
  <2>2. CASE i = Len(lines) + 1
    BY <1>4, <1>5, <1>6, <2>2
  <2> QED BY <1>2, <1>5, <2>1, <2>2
<1>9. ASSUME NEW i \in 1 .. Len(lines'), NEW k \in 1 .. Len(lines'), i < k, ~IsSync(i)
      PROVE  lines'[i] < lines'[k]
  <2>1. i \in 1 .. Len(lines)
    BY <1>2, <1>5, <1>9
  <2>2. CASE k \in 1 .. Len(lines)
    BY <1>4, <1>5, <1>9, <2>1, <2>2
  <2>3. CASE k = Len(lines) + 1
    BY <1>4, <1>5, <1>9, <2>1, <2>3
  <2> QED BY <1>2, <1>5, <2>2, <2>3
<1>10. RunInv'
  <2>1. ops' = [n \in DOMAIN trace' |-> OpOf(n)']
    BY <1>1, <1>3, <1>4
  <2>2. Len(lines') <= Len(trace) /\ 0 \in 0 .. Len(lines')
    BY <1>2, <1>3, <1>5
  <2> QED BY <1>1, <1>3, <1>4, <1>5, <1>7, <1>8, <1>9, <2>1, <2>2 DEF RunInv
<1>11. Fits' => Fits
  BY <1>4, <1>7, LoaderAssumption DEF Fits
<1>12. DescInv'
  BY <1>3, <1>4 DEF DescInv
<1>13. TensorInv'
  <2>1. \A s : At(s)' = At(s)
    BY <1>3 DEF At
  <2>2. \A b : Missing(b)' = Missing(b)
    BY <1>1, <1>3 DEF Missing
  <2> QED BY <1>1, <1>3, <1>4, <1>11, <2>1, <2>2 DEF TensorInv
<1> QED BY <1>10, <1>12, <1>13

LEMMA StepInput ==
  ASSUME DdrInv, NameInv, RunInv, DescInv, TensorInv, WriteInput, UNCHANGED <<allocVars, trace>>
  PROVE  RunInv' /\ DescInv' /\ TensorInv'
<1>1. /\ UNCHANGED <<job, trace>> /\ Small' = Small /\ AllocDone' = AllocDone
      /\ \A b : SlotsOf(b)' = SlotsOf(b)
      /\ \A n : OpOf(n)' = OpOf(n) /\ IsSync(n)' = IsSync(n)
  BY Frame
<1> DEFINE t == loaded + 1
<1>2. /\ Len(ops) = Len(trace) /\ Len(trace) \in Nat
      /\ Len(inputs) = Len(job.args) /\ Len(job.args) \in Nat
      /\ \A i \in 1 .. Len(job.args) : inputs[i] = job.args[i].size
  BY OpFacts DEF DdrInv
<1>3. /\ Len(lines) = Len(trace) /\ loaded < Len(job.args) /\ loaded' = t
      /\ ddr' = Written(InputSlots(t), <<"input", t>>)
      /\ UNCHANGED <<ops, lines, descAddr, inputs, pushed, run, read, data>>
  BY <1>2 DEF WriteInput, Emitted
<1>4. loaded \in 0 .. Len(job.args) /\ pushed = 0 /\ run = 0 /\ AllocDone /\ job \in Jobs
  BY <1>2, <1>3 DEF RunInv, DdrInv
<1>5. t \in 1 .. Len(job.args) /\ loaded \in Nat
  BY <1>2, <1>3, <1>4
<1>6. RunInv'
  <2>1. ops' = [n \in DOMAIN trace' |-> OpOf(n)']
    BY <1>1, <1>3 DEF RunInv
  <2>2. t \in 0 .. Len(job.args)
    BY <1>5
  <2> QED BY <1>1, <1>3, <1>4, <2>1, <2>2 DEF RunInv
<1>7. DescInv'
  BY <1>3, <1>4 DEF DescInv
<1>8. TensorInv'
  <2> SUFFICES ASSUME Fits', Small' PROVE TensorInv'
    BY DEF TensorInv
  <2>1. Fits /\ Small
    BY <1>1, <1>3 DEF Fits
  <2> DEFINE a == job.args[t].buf
  <2>2. InDdr(job, a) /\ InputSlots(t) = SlotsOf(a)
    BY <1>2, <1>4, <1>5, InputPlace
  <2>3. \A s : At(s)' = IF s \in SlotsOf(a) THEN <<"input", t>> ELSE At(s)
    BY <1>3, <2>2, AtWritten
  <2> HIDE DEF t
  <2>4. \A i \in 1 .. Len(job.args) : job.args[i].buf = a => i = t
    BY <1>4, <1>5, MapAssumption
  <2>5. ASSUME NEW b, InDdr(job, b), NEW s \in SlotsOf(b)
        PROVE  At(s)' = IF Missing(b)' THEN Nothing ELSE Held(job, trace, b, run + 1)
    <3>1. At(s) = IF Missing(b) THEN Nothing ELSE Held(job, trace, b, run + 1)
      BY <2>1, <2>5 DEF TensorInv
    <3>2. CASE b = a
      <4>1. ~Missing(b)'
        BY <1>1, <1>3, <1>4, <1>5, <2>4, <3>2 DEF Missing, t
      <4>2. Held(job, trace, b, 1) = <<"input", t>>
        BY <1>4, <1>5, <3>2, HeldFirst
      <4> QED BY <1>4, <2>3, <3>2, <4>1, <4>2
    <3>3. CASE b # a
      <4>1. SlotsOf(b) \cap SlotsOf(a) = {}
        BY <1>4, <2>1, <2>2, <2>5, <3>3, SlotsApart DEF Small
      <4>2. \A i \in loaded + 1 .. Len(job.args) : i = t \/ i \in t + 1 .. Len(job.args)
        BY <1>2, <1>5 DEF t
      <4>3. \A i \in t + 1 .. Len(job.args) : i \in loaded + 1 .. Len(job.args)
        BY <1>2, <1>5 DEF t
      <4>4. Missing(b)' = Missing(b)
        <5>1. Missing(b)' = \E i \in t + 1 .. Len(job.args) : job.args[i].buf = b
          BY <1>1, <1>3 DEF Missing
        <5>2. Missing(b) = \E i \in loaded + 1 .. Len(job.args) : job.args[i].buf = b
          BY DEF Missing
        <5>3. job.args[t].buf # b
          BY <3>3
        <5> QED BY <4>2, <4>3, <5>1, <5>2, <5>3
      <4> QED BY <2>3, <2>5, <3>1, <4>1, <4>4
    <3> QED BY <3>2, <3>3
  <2> QED BY <1>1, <1>3, <1>4, <2>5 DEF TensorInv
<1> QED BY <1>6, <1>7, <1>8

LEMMA StepPush ==
  ASSUME DdrInv, NameInv, RunInv, DescInv, TensorInv, PushLine, UNCHANGED <<allocVars, trace>>
  PROVE  RunInv' /\ DescInv' /\ TensorInv'
<1>1. /\ UNCHANGED <<job, trace>> /\ Small' = Small /\ AllocDone' = AllocDone
      /\ \A b : SlotsOf(b)' = SlotsOf(b)
      /\ \A n : OpOf(n)' = OpOf(n) /\ IsSync(n)' = IsSync(n)
  BY Frame
<1> DEFINE n == pushed + 1
<1>2. /\ Len(ops) = Len(trace) /\ Len(trace) \in Nat /\ Len(inputs) = Len(job.args)
      /\ \A k \in 1 .. Len(trace) : ops[k] = OpOf(k)
  BY OpFacts DEF DdrInv
<1>3. /\ Len(lines) = Len(trace) /\ loaded = Len(job.args) /\ pushed < Len(lines) /\ pushed' = n
      /\ ddr' = IF ops[n].sync THEN ddr ELSE Written({lines[n]}, <<"desc", n>>)
      /\ UNCHANGED <<ops, lines, descAddr, inputs, loaded, run, read, data>>
  BY <1>2 DEF PushLine, Emitted
<1>4. /\ pushed \in 0 .. Len(lines) /\ run = 0 /\ AllocDone /\ job \in Jobs /\ descAddr \in Nat
      /\ \A i \in 1 .. Len(lines) : lines[i] \in Nat /\ (~IsSync(i) => lines[i] < descAddr)
      /\ \A i, k \in 1 .. Len(lines) : i < k /\ ~IsSync(i) => lines[i] < lines[k]
  BY <1>2, <1>3 DEF RunInv, DdrInv
<1>5. n \in 1 .. Len(lines) /\ n \in 1 .. Len(trace) /\ pushed \in Nat
      /\ \A i \in 1 .. n : i = n \/ (i \in 1 .. pushed /\ i < n /\ i \in 1 .. Len(lines))
  <2>1. pushed \in Nat /\ Len(lines) \in Nat /\ pushed < Len(lines)
    BY <1>2, <1>3, <1>4
  <2> QED BY <1>3, <2>1
<1>6. RunInv'
  <2>1. ops' = [k \in DOMAIN trace' |-> OpOf(k)']
    BY <1>1, <1>3 DEF RunInv
  <2>2. n \in 0 .. Len(lines)
    BY <1>5
  <2> QED BY <1>1, <1>3, <1>4, <2>1, <2>2 DEF RunInv
<1> HIDE DEF n
<1>7. ddr' = IF IsSync(n) THEN ddr ELSE Written({lines[n]}, <<"desc", n>>)
  <2>1. ops[n].sync <=> IsSync(n)
    BY <1>2, <1>5, OpFields
  <2> QED BY <1>3, <2>1
<1>8. \A s : At(s)' = IF ~IsSync(n) /\ s = lines[n] THEN <<"desc", n>> ELSE At(s)
  <2>1. CASE IsSync(n)
    BY <1>7, <2>1 DEF At
  <2>2. CASE ~IsSync(n)
    BY <1>7, <2>2, AtWritten
  <2> QED BY <2>1, <2>2
<1>9. Fits' = Fits
  BY <1>3 DEF Fits
<1>10. DescInv'
  <2> SUFFICES ASSUME Fits' PROVE DescInv'
    BY DEF DescInv
  <2>1. ASSUME NEW i \in 1 .. n, ~IsSync(i) PROVE At(lines[i])' = <<"desc", i>>
    <3>1. CASE i = n
      BY <1>3, <1>8, <2>1, <3>1
    <3>2. CASE i # n
      <4>1. At(lines[i]) = <<"desc", i>>
        BY <1>5, <1>9, <2>1, <3>2 DEF DescInv
      <4>2. lines[i] < lines[n] /\ lines[i] \in Nat /\ lines[n] \in Nat
        BY <1>4, <1>5, <2>1, <3>2
      <4> QED BY <1>3, <1>8, <4>1, <4>2
    <3> QED BY <3>1, <3>2
  <2> QED BY <1>1, <1>3, <1>4, <2>1 DEF DescInv
<1>11. TensorInv'
  <2> SUFFICES ASSUME Fits', Small' PROVE TensorInv'
    BY DEF TensorInv
  <2>1. ASSUME NEW b, InDdr(job, b), NEW s \in SlotsOf(b)
        PROVE  At(s)' = IF Missing(b)' THEN Nothing ELSE Held(job, trace, b, run + 1)
    <3>1. At(s) = IF Missing(b) THEN Nothing ELSE Held(job, trace, b, run + 1)
      BY <1>1, <1>9, <2>1 DEF TensorInv
    <3>2. s \in Int /\ DataFirst <= s
      BY <1>4, <2>1, SlotsApart
    <3>3. ~IsSync(n) => s # lines[n]
      BY <1>4, <1>5, <1>9, <3>2, LoaderAssumption DEF Fits
    <3>4. Missing(b)' = Missing(b)
      BY <1>1, <1>3 DEF Missing
    <3> QED BY <1>8, <3>1, <3>3, <3>4
  <2> QED BY <1>1, <1>3, <1>4, <2>1 DEF TensorInv
<1> QED BY <1>6, <1>10, <1>11

LEMMA StepExec ==
  ASSUME DdrInv, NameInv, RunInv, DescInv, TensorInv, ExecLine, UNCHANGED <<allocVars, trace>>
  PROVE  RunInv' /\ DescInv' /\ TensorInv'
<1>1. /\ UNCHANGED <<job, trace>> /\ Small' = Small /\ AllocDone' = AllocDone
      /\ \A b : SlotsOf(b)' = SlotsOf(b)
      /\ \A n : OpOf(n)' = OpOf(n) /\ IsSync(n)' = IsSync(n)
  BY Frame
<1> DEFINE n == run + 1
           o == ops[n]
           word == IF o.sync THEN <<"sync", n>> ELSE At(lines[n])
           found == [s \in o.load |-> At(s)]
<1>2. /\ Len(ops) = Len(trace) /\ Len(trace) \in Nat
      /\ Len(inputs) = Len(job.args) /\ Len(job.args) \in Nat
      /\ \A k \in 1 .. Len(trace) : ops[k] = OpOf(k)
      /\ \A k \in 1 .. Len(trace) :
           /\ trace[k] = Access(trace[k].kind, trace[k].buf)
           /\ trace[k].kind \in {"load", "store"} => InDdr(job, trace[k].buf)
  BY OpFacts, TraceFacts DEF DdrInv, RunInv
<1>3. /\ Len(lines) = Len(trace) /\ loaded = Len(job.args)
      /\ pushed = Len(lines) /\ run < Len(lines) /\ run' = n
      /\ read' = Append(read, word) /\ data' = Append(data, found)
      /\ ddr' = IF o.store = {} THEN ddr ELSE Written(o.store, <<"output", n>>)
      /\ UNCHANGED <<ops, lines, descAddr, inputs, loaded, pushed>>
  BY <1>2 DEF ExecLine, Emitted
<1>4. /\ run \in 0 .. Len(lines) /\ AllocDone /\ job \in Jobs /\ descAddr \in Nat
      /\ \A i \in 1 .. Len(lines) : lines[i] \in Nat /\ (~IsSync(i) => lines[i] < descAddr)
      /\ read \in Seq(RangeOf(read)) /\ Len(read) = run
      /\ data \in Seq(RangeOf(data)) /\ Len(data) = run
  BY <1>2, <1>3 DEF RunInv, DdrInv
<1>5. /\ n \in 1 .. Len(trace) /\ run \in Nat /\ n \in Nat \ {0} /\ n = run + 1
      /\ \A i \in 1 .. n : i = n \/ i \in 1 .. run
  BY <1>2, <1>3, <1>4
<1>6. /\ o.sync <=> IsSync(n)
      /\ o.load = IF trace[n].kind = "load" THEN SlotsOf(trace[n].buf) ELSE {}
      /\ o.store = IF trace[n].kind = "store" THEN SlotsOf(trace[n].buf) ELSE {}
  BY <1>2, <1>5, OpFields
<1> HIDE DEF n, o
<1>7. /\ read' \in Seq(RangeOf(read')) /\ Len(read') = n
      /\ read'[n] = word /\ \A i \in 1 .. run : read'[i] = read[i]
  <2> HIDE DEF word
  <2> QED BY <1>3, <1>4, <1>5, Appending
<1>8. /\ data' \in Seq(RangeOf(data')) /\ Len(data') = n
      /\ data'[n] = found /\ \A i \in 1 .. run : data'[i] = data[i]
  <2> HIDE DEF found
  <2> QED BY <1>3, <1>4, <1>5, Appending
<1>9. RunInv'
  <2>1. ops' = [k \in DOMAIN trace' |-> OpOf(k)']
    BY <1>1, <1>3 DEF RunInv
  <2>2. n \in 0 .. Len(lines)
    BY <1>2, <1>3, <1>5
  <2> QED BY <1>1, <1>3, <1>4, <1>7, <1>8, <2>1, <2>2 DEF RunInv
<1>10. \A s : At(s)' = IF s \in o.store THEN <<"output", n>> ELSE At(s)
  <2>1. CASE o.store = {}
    BY <1>3, <2>1 DEF At
  <2>2. CASE o.store # {}
    BY <1>3, <2>2, AtWritten
  <2> QED BY <2>1, <2>2
<1>11. \A s \in o.store : s \in Int /\ DataFirst <= s
  BY <1>2, <1>4, <1>5, <1>6, SlotsApart
<1>12. Fits' = Fits
  BY <1>3 DEF Fits
<1>13. DescInv'
  <2> SUFFICES ASSUME Fits' PROVE DescInv'
    BY DEF DescInv
  <2>1. ASSUME NEW i \in 1 .. pushed, ~IsSync(i)
        PROVE  At(lines[i])' = <<"desc", i>> /\ At(lines[i]) = <<"desc", i>>
    <3>1. At(lines[i]) = <<"desc", i>>
      BY <1>12, <2>1 DEF DescInv
    <3>2. lines[i] \in Nat /\ lines[i] < descAddr
      BY <1>3, <1>4, <2>1
    <3>3. lines[i] \notin o.store
      BY <1>4, <1>11, <1>12, <3>2, LoaderAssumption DEF Fits
    <3> QED BY <1>3, <1>10, <3>1, <3>3
  <2>2. ASSUME NEW i \in 1 .. n PROVE read'[i] = <<IF IsSync(i) THEN "sync" ELSE "desc", i>>
    <3>1. CASE i = n
      <4>1. n \in 1 .. pushed
        BY <1>3, <1>5
      <4> QED BY <1>6, <1>7, <2>1, <3>1, <4>1
    <3>2. CASE i \in 1 .. run
      BY <1>7, <1>12, <3>2 DEF DescInv
    <3> QED BY <1>5, <3>1, <3>2
  <2> QED BY <1>1, <1>3, <2>1, <2>2 DEF DescInv
<1>14. TensorInv'
  <2> SUFFICES ASSUME Fits', Small' PROVE TensorInv'
    BY DEF TensorInv
  <2>1. \A b : ~Missing(b) /\ ~Missing(b)'
    BY <1>1, <1>2, <1>3 DEF Missing
  <2>2. ASSUME NEW b, InDdr(job, b), NEW s \in SlotsOf(b)
        PROVE  At(s) = Held(job, trace, b, n)
    BY <1>1, <1>5, <1>12, <2>1, <2>2 DEF TensorInv
  <2>3. ASSUME NEW b, InDdr(job, b), NEW s \in SlotsOf(b)
        PROVE  At(s)' = Held(job, trace, b, n + 1)
    <3>1. Held(job, trace, b, n + 1) =
            IF trace[n] = Access("store", b) THEN <<"output", n>> ELSE Held(job, trace, b, n)
      BY <1>5, HeldNext
    <3>2. CASE trace[n] = Access("store", b)
      <4>1. trace[n].kind = "store" /\ trace[n].buf = b
        BY <3>2 DEF Access
      <4> QED BY <1>6, <1>10, <2>3, <3>1, <3>2, <4>1
    <3>3. CASE trace[n] # Access("store", b)
      <4>1. s \notin o.store
        <5>1. CASE trace[n].kind # "store"
          BY <1>6, <5>1
        <5>2. CASE trace[n].kind = "store"
          <6>1. trace[n].buf # b /\ InDdr(job, trace[n].buf)
            BY <1>2, <1>5, <3>3, <5>2
          <6>2. SlotsOf(b) \cap SlotsOf(trace[n].buf) = {}
            BY <1>1, <1>4, <2>3, <6>1, SlotsApart DEF Small
          <6> QED BY <1>6, <2>3, <5>2, <6>2
        <5> QED BY <5>1, <5>2
      <4> QED BY <1>10, <2>2, <2>3, <3>1, <3>3, <4>1
    <3> QED BY <3>2, <3>3
  <2>4. ASSUME NEW i \in 1 .. n, trace[i].kind = "load"
        PROVE  data'[i] = [s \in SlotsOf(trace[i].buf) |-> Held(job, trace, trace[i].buf, i)]
    <3>1. CASE i = n
      <4>1. InDdr(job, trace[n].buf) /\ o.load = SlotsOf(trace[n].buf)
        BY <1>2, <1>5, <1>6, <2>4, <3>1
      <4> QED BY <1>8, <2>2, <3>1, <4>1
    <3>2. CASE i \in 1 .. run
      BY <1>1, <1>8, <1>12, <2>4, <3>2 DEF TensorInv
    <3> QED BY <1>5, <3>1, <3>2
  <2> QED BY <1>1, <1>3, <2>1, <2>3, <2>4 DEF TensorInv
<1> QED BY <1>9, <1>13, <1>14

-----------------------------------------------------------------------------

LEMMA StepMap == MapInv /\ [MapNext]_mapVars => MapInv'
<1> SUFFICES ASSUME MapInv, [MapNext]_mapVars PROVE MapInv'
  OBVIOUS
<1>1. CASE Allocating
  BY <1>1, StepAllocating
<1>2. CASE Compiled
  BY <1>2, StepCompiled
<1>3. CASE Running
  <2>1. /\ trace # <<>> /\ LoaderStep /\ UNCHANGED <<allocVars, trace>>
        /\ DdrInv /\ NameInv /\ RunInv /\ DescInv /\ TensorInv
    BY <1>3 DEF Running, MapInv
  <2>2. RunInv' /\ DescInv' /\ TensorInv'
    BY <2>1, StepEmit, StepInput, StepPush, StepExec DEF LoaderStep
  <2>3. DdrInv' /\ NameInv' /\ trace' = trace
    BY <2>1, Frame
  <2> QED BY <2>1, <2>2, <2>3 DEF MapInv
<1>4. CASE UNCHANGED mapVars
  <2>1. UNCHANGED <<allocVars, trace>> /\ UNCHANGED loaderVars
    BY <1>4 DEF mapVars
  <2>2. UNCHANGED <<ops, lines, descAddr, inputs, loaded, pushed, run, ddr, read, data>>
    BY <2>1 DEF loaderVars
  <2>3. DdrInv /\ NameInv
    BY DEF MapInv
  <2>4. /\ DdrInv' /\ NameInv' /\ UNCHANGED <<job, trace>>
        /\ Small' = Small /\ AllocDone' = AllocDone
        /\ \A b : SlotsOf(b)' = SlotsOf(b)
        /\ \A n : OpOf(n)' = OpOf(n) /\ IsSync(n)' = IsSync(n)
    BY <2>1, <2>3, Frame
  <2>5. \A s : At(s)' = At(s)
    BY <2>2 DEF At
  <2>6. CASE trace = <<>>
    BY <2>2, <2>4, <2>6 DEF MapInv, LoaderIdle
  <2>7. CASE trace # <<>>
    <3>1. RunInv' 
      BY <2>2, <2>4, <2>7 DEF MapInv, RunInv
    <3>2. DescInv'
      BY <2>2, <2>4, <2>5, <2>7 DEF MapInv, DescInv, Fits
    <3>3. TensorInv'
      BY <2>2, <2>4, <2>5, <2>7 DEF MapInv, TensorInv, Fits, Missing
    <3> QED BY <2>4, <2>7, <3>1, <3>2, <3>3 DEF MapInv
  <2> QED BY <2>6, <2>7
<1> QED BY <1>1, <1>2, <1>3, <1>4 DEF MapNext, MapDone

LEMMA MapInvariance == MapSpec => []MapInv
BY InitMap, StepMap, PTL DEF MapSpec

\* Every instruction of every run executes with its own descriptor, as long as
\* the descriptors fit the command queue: the addresses eclipse-to-easm counts,
\* eclipse-run fills and the cmodel reads agree, and no tensor lies on them.
THEOREM DescriptorsKept == MapSpec => []OwnDescriptor
<1>1. MapInv => OwnDescriptor
  <2> SUFFICES ASSUME MapInv, Fits, NEW n \in 1 .. run
               PROVE  read[n] = <<IF ops[n].sync THEN "sync" ELSE "desc", n>>
    BY DEF OwnDescriptor
  <2>1. trace # <<>>
    BY DEF MapInv, LoaderIdle
  <2>2. RunInv /\ DescInv /\ job \in Jobs
    BY <2>1 DEF MapInv, DdrInv
  <2>3. n \in 1 .. Len(trace)
    BY <2>2, OpFacts DEF RunInv
  <2>4. ops[n].sync <=> IsSync(n)
    BY <2>2, <2>3, OpFacts, OpFields
  <2> QED BY <2>2, <2>4 DEF DescInv
<1> QED BY <1>1, MapInvariance, PTL

\* From the input file to the last load a tensor holds what was last written to
\* it: the addresses eclipse-allocate hands out, those eclipse-run repeats and
\* the descriptors never lie over one another, whatever the function and trace.
THEOREM TensorsKept == MapSpec => []TensorsAreApart
<1>1. MapInv => TensorsAreApart
  <2> SUFFICES ASSUME MapInv, Fits, Small, NEW n \in 1 .. run, trace[n].kind = "load"
               PROVE  data[n] = [s \in SlotsOf(trace[n].buf) |-> Contents(n)]
    BY DEF TensorsAreApart, Small
  <2>1. trace # <<>>
    BY DEF MapInv, LoaderIdle
  <2>2. TensorInv
    BY <2>1 DEF MapInv
  <2> QED BY <2>2, ContentsAreHeld DEF TensorInv
<1> QED BY <1>1, MapInvariance, PTL
=============================================================================
