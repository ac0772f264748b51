-------------------------- MODULE EclipseAllocate --------------------------
(***************************************************************************)
(* The pass eclipse-allocate: addresses for the memref arguments and the   *)
(* DDR buffers of a function, one fixed stride apart, and for its SRAM     *)
(* buffers, by a bump allocator or, for the operands of a matmul, by the   *)
(* fixed layout golden-mirror.  Addresses are uint32: they live modulo     *)
(* Word.                                                                   *)
(***************************************************************************)
EXTENDS Integers, Sequences

CONSTANTS
  SramBase, SramSize,              \* SRAM_ADDR, SRAM_SIZE
  DdrFirst, DdrEnd, DdrStride,     \* first data address, end of DDR, 0x10000
  Word,                            \* 2^32
  Jobs                             \* the functions to allocate for

(* A job: the memref arguments, the memref.allocs in order, the operands   *)
(* <<lhs, rhs, dst>> of its matmuls, and the option layout.                *)
Alloc(b, space, size, align) ==
  [buf |-> b, space |-> space, size |-> size, align |-> align]

\* A request that a full SRAM cannot serve still ends below 2^32.
Request(r) ==
  /\ r.size \in Nat /\ r.align \in Nat \ {0}
  /\ SramBase + SramSize + r.align + r.size <= Word

RangeOf(list) == {list[i] : i \in 1 .. Len(list)}

ASSUME AllocAssumption ==
  /\ SramBase \in Nat \ {0} /\ SramSize \in Nat /\ Word \in Nat
  /\ SramBase + SramSize < Word
  /\ \A j \in Jobs :
       /\ j.allocs \in Seq(RangeOf(j.allocs))
       /\ \A r \in RangeOf(j.allocs) : Request(r)
       /\ \A i \in 1 .. Len(j.args) : j.args[i].space = "arg"

\* The DDR of a function, one stride for each buffer, ends below 2^32.
ASSUME DdrAssumption ==
  /\ DdrFirst \in Nat /\ DdrStride \in Nat \ {0}
  /\ \A j \in Jobs :
       /\ j.args \in Seq(RangeOf(j.args))
       /\ \A r \in RangeOf(j.args) : r.size \in Nat
       /\ DdrFirst + (Len(j.args) + Len(j.allocs)) * DdrStride < Word

VARIABLES
  job,       \* the function
  stage,     \* "args", "layout", "allocs"
  todo,      \* the allocs not yet visited
  next_,     \* SramAllocator::next_
  curDdr,    \* curDdrAddr
  golden,    \* goldenLayout: buffer |-> address
  placed,    \* the buffers with an address, [buf, space, base, size, align]
  failed     \* signalPassFailure was called

allocVars == <<job, stage, todo, next_, curDdr, golden, placed, failed>>

AllocInit ==
  /\ stage = "args"
  /\ todo = job.allocs
  /\ next_ = SramBase
  /\ curDdr = DdrFirst
  /\ golden = [b \in {} |-> 0]
  /\ placed = {}
  /\ failed = FALSE

Place(r, base) == [buf |-> r.buf, space |-> r.space, base |-> base,
                   size |-> r.size, align |-> r.align]

\* The first walk: every memref argument takes one stride, then one check.
BindArgs ==
  /\ stage = "args"
  /\ LET n == Len(job.args)
         end == (curDdr + n * DdrStride) % Word
     IN  /\ placed' = placed \union
                        {Place(job.args[i], (curDdr + (i - 1) * DdrStride) % Word) : i \in 1 .. n}
         /\ curDdr' = end
         /\ failed' = (end > DdrEnd)
  /\ stage' = "layout"
  /\ UNCHANGED <<job, todo, next_, golden>>

\* The second walk: the operands of a matmul at 0, c and 2c, c the size of dst.
GoldenBase(m) ==
  LET SizeOf(b) == (CHOOSE r \in {job.allocs[i] : i \in 1 .. Len(job.allocs)} : r.buf = b).size
  IN  [b \in {m[1], m[2], m[3]} |->
         IF b = m[3] THEN SramBase + 2 * SizeOf(m[3])
         ELSE IF b = m[2] THEN SramBase + SizeOf(m[3]) ELSE SramBase]

BuildLayout ==
  /\ stage = "layout"
  /\ golden' = IF job.layout = "golden-mirror"
               THEN [b \in UNION {{m[1], m[2], m[3]} : m \in job.matmuls} |->
                       GoldenBase(CHOOSE m \in job.matmuls : b \in {m[1], m[2], m[3]})[b]]
               ELSE golden
  /\ stage' = "allocs"
  /\ UNCHANGED <<job, todo, next_, curDdr, placed, failed>>

-----------------------------------------------------------------------------

AlignTo(a, align) == ((a + align - 1) \div align) * align

\* Mutant: the alignment is forgotten when the next free address is computed.
BumpPacksNext(r) ==
  LET base == AlignTo(next_, r.align) % Word
      end  == (base + r.size) % Word
  IN  IF end > (SramBase + SramSize) % Word
      THEN [base |-> 0, next |-> next_]
      ELSE [base |-> base, next |-> (next_ + r.size) % Word]

\* SramAllocator::allocate: the address, 0 for none, and the new next_.
Bump(r) ==
  LET base == AlignTo(next_, r.align) % Word
      end  == (base + r.size) % Word
  IN  IF end > (SramBase + SramSize) % Word
      THEN [base |-> 0, next |-> next_]
      ELSE [base |-> base, next |-> end]

\* A failed alloc is reported, and the walk goes on with the next one.
AllocSram ==
  /\ stage = "allocs" /\ todo # <<>>
  /\ LET r == Head(todo)
         got == IF r.buf \in DOMAIN golden
                THEN [base |-> golden[r.buf], next |-> next_] ELSE Bump(r)
     IN  /\ r.space = "sram"
         /\ next_' = got.next
         /\ placed' = IF got.base = 0 THEN placed ELSE placed \union {Place(r, got.base)}
         /\ failed' = (failed \/ got.base = 0)
  /\ todo' = Tail(todo)
  /\ UNCHANGED <<job, stage, curDdr, golden>>

\* Mutant: DDR buffers are numbered from the first data address again.
AllocDdrAgain ==
  /\ stage = "allocs" /\ todo # <<>>
  /\ Head(todo).space = "ddr"
  /\ placed' = placed \union {Place(Head(todo), (curDdr - Len(job.args) * DdrStride) % Word)}
  /\ curDdr' = (curDdr + DdrStride) % Word
  /\ todo' = Tail(todo)
  /\ UNCHANGED <<job, stage, next_, golden, failed>>

AllocDdr ==
  /\ stage = "allocs" /\ todo # <<>>
  /\ Head(todo).space = "ddr"
  /\ placed' = placed \union {Place(Head(todo), curDdr)}
  /\ curDdr' = (curDdr + DdrStride) % Word
  /\ todo' = Tail(todo)
  /\ UNCHANGED <<job, stage, next_, golden, failed>>

AllocDone == stage = "allocs" /\ todo = <<>>

AllocStep == BindArgs \/ BuildLayout \/ AllocSram \/ AllocDdr

AllocFinished == AllocDone /\ UNCHANGED allocVars

AllocNext == AllocStep \/ AllocFinished

AllocStart == job \in Jobs /\ AllocInit

AllocSpec == AllocStart /\ [][AllocNext]_allocVars

-----------------------------------------------------------------------------

Overlap(p, q) == p.base < q.base + q.size /\ q.base < p.base + p.size

Ddr == {p \in placed : p.space # "sram"}
Sram == {p \in placed : p.space = "sram"}

\* The SRAM buffers the bump allocator hands out are aligned as asked, inside
\* the SRAM and disjoint, also after a request that failed: two operations
\* never share SRAM unless the elision made them (SramAllocator::allocate).
BumpIsSafe ==
  job.layout = "bump" =>
    \A p \in Sram :
      /\ p.base % p.align = 0
      /\ SramBase <= p.base /\ p.base + p.size <= SramBase + SramSize
      /\ \A q \in Sram : p # q => ~Overlap(p, q)

\* DDR buffers that fit in a stride, arguments and results together, are
\* disjoint, and above the command queue (runOnOperation, lines 33-56, 124-126).
DdrIsSafe ==
  (\A p \in Ddr : p.size <= DdrStride) =>
    \A p, q \in Ddr : DdrFirst <= p.base /\ (p # q => ~Overlap(p, q))

\* Documented: the pass checks residency and overlap, so a function it accepts
\* has no two buffers that overlap (AllocationPasses.td, description).
AcceptedMeansDisjoint ==
  AllocDone /\ ~failed => \A p, q \in placed : p # q => ~Overlap(p, q)
=============================================================================
