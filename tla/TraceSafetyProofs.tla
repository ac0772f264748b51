------------------------- MODULE TraceSafetyProofs -------------------------
(***************************************************************************)
(* First, that hazard_check.py's intervals are the cells the cmodel        *)
(* touches, for every instruction the emitters can print.  Then, that a    *)
(* trace it calls clean computes on a reordering device what it computes   *)
(* on the cmodel, for every trace and every schedule.                      *)
(***************************************************************************)
EXTENDS TraceSafety, Arithmetic

-----------------------------------------------------------------------------
(* The intervals of a line.                                                *)

\* Cells base + 0 .. n - 1 lie in the interval the checker gives a packed
\* operand of at least n elements.
LEMMA IntervalCovers ==
  ASSUME NEW base \in Nat, NEW n \in Int, NEW C,
         \A x \in C : \E o \in 0 .. n - 1 : x = base + o
  PROVE  Covered(C, Interval(base, n))
<1> SUFFICES ASSUME NEW x \in C
             PROVE  \E r \in Interval(base, n) : r[1] <= x /\ x < r[2]
  BY DEF Covered
<1>1. PICK o \in 0 .. n - 1 : x = base + o
  OBVIOUS
<1>2. <<base, base + n>> \in Interval(base, n)
  BY DEF Interval
<1>3. base <= x /\ x < base + n
  BY <1>1
<1> QED BY <1>2, <1>3

\* A union of covered cells is covered by the union of the ranges.
LEMMA CoveredUnion ==
  ASSUME NEW A, NEW B, NEW RA, NEW RB, Covered(A, RA), Covered(B, RB)
  PROVE  Covered(A \union B, RA \union RB)
BY DEF Covered

\* Nothing needs no range.
LEMMA CoveredEmpty ==
  ASSUME NEW R
  PROVE  Covered({}, R)
BY DEF Covered

\* tile_ranges covers the rows a DMA moves.
LEMMA TileCovered ==
  ASSUME NEW base \in Nat, NEW rows \in Nat, NEW cols \in Nat, NEW stride \in Nat
  PROVE  Covered(Tile(base, rows, cols, stride), TileRanges(base, rows, cols, stride))
<1> SUFFICES ASSUME NEW x \in Tile(base, rows, cols, stride)
             PROVE  \E r \in TileRanges(base, rows, cols, stride) : r[1] <= x /\ x < r[2]
  BY DEF Covered
<1>1. PICK i \in 0 .. rows - 1, j \in 0 .. cols - 1 : x = base + stride * i + j
  BY DEF Tile
<1> DEFINE s == base + stride * i
<1>2. <<s, s + cols>> \in TileRanges(base, rows, cols, stride)
  BY DEF TileRanges
<1>3. stride * i \in Nat
  BY SMT
<1>4. s <= x /\ x < s + cols
  BY <1>1, <1>3
<1> HIDE DEF s
<1> QED BY <1>2, <1>4

\* Packed operands.
LEMMA PackedCovered ==
  ASSUME NEW base \in Nat, NEW n \in Int
  PROVE  Covered(Packed(base, n), Interval(base, n))
<1>1. \A x \in Packed(base, n) : \E o \in 0 .. n - 1 : x = base + o
  BY DEF Packed
<1> QED BY <1>1, IntervalCovers

\* Both layouts of lhs fit in its M * K elements.
LEMMA LhsCovered ==
  ASSUME NEW d \in MatmulDesc
  PROVE  Covered(LhsCells(d), Interval(d.lhs, d.M * d.K))
<1> USE DEF MatmulDesc
<1>1. ASSUME NEW x \in LhsCells(d)
      PROVE  \E o \in 0 .. d.M * d.K - 1 : x = d.lhs + o
  <2>1. PICK m \in 0 .. d.M - 1, k \in 0 .. d.K - 1 :
          x = d.lhs + (IF d.transA THEN k * d.M + m ELSE m * d.K + k)
    BY <1>1 DEF LhsCells
  <2>2. m * d.K + k \in 0 .. d.M * d.K - 1
    BY CellInTable
  <2>3. k * d.M + m \in 0 .. d.K * d.M - 1
    BY CellInTable
  <2>4. d.K * d.M = d.M * d.K
    OBVIOUS
  <2> QED BY <2>1, <2>2, <2>3, <2>4
<1>2. d.M * d.K \in Int
  OBVIOUS
<1> QED BY <1>1, <1>2, IntervalCovers

\* Both layouts of rhs fit in its K * N elements.
LEMMA RhsCovered ==
  ASSUME NEW d \in MatmulDesc
  PROVE  Covered(RhsCells(d), Interval(d.rhs, d.K * d.N))
<1> USE DEF MatmulDesc
<1>1. ASSUME NEW x \in RhsCells(d)
      PROVE  \E o \in 0 .. d.K * d.N - 1 : x = d.rhs + o
  <2>1. PICK n \in 0 .. d.N - 1, k \in 0 .. d.K - 1 :
          x = d.rhs + (IF d.transB THEN n * d.K + k ELSE k * d.N + n)
    BY <1>1 DEF RhsCells
  <2>2. k * d.N + n \in 0 .. d.K * d.N - 1
    BY CellInTable
  <2>3. n * d.K + k \in 0 .. d.N * d.K - 1
    BY CellInTable
  <2>4. d.K * d.N = d.N * d.K
    OBVIOUS
  <2> QED BY <2>1, <2>2, <2>3, <2>4
<1>2. d.K * d.N \in Int
  OBVIOUS
<1> QED BY <1>1, <1>2, IntervalCovers

\* The output tile of a MATMUL.
LEMMA DstCovered ==
  ASSUME NEW d \in MatmulDesc
  PROVE  Covered(DstCells(d), Interval(d.dst, d.M * d.N))
<1> USE DEF MatmulDesc
<1>1. ASSUME NEW x \in DstCells(d)
      PROVE  \E o \in 0 .. d.M * d.N - 1 : x = d.dst + o
  <2>1. PICK m \in 0 .. d.M - 1, n \in 0 .. d.N - 1 : x = d.dst + (m * d.N + n)
    BY <1>1 DEF DstCells
  <2>2. m * d.N + n \in 0 .. d.M * d.N - 1
    BY CellInTable
  <2> QED BY <2>1, <2>2
<1>2. d.M * d.N \in Int
  OBVIOUS
<1> QED BY <1>1, <1>2, IntervalCovers

\* The broadcast operand of ELEMENTWISE: the row of the element times the
\* stride, plus its place in the period, stays inside rhs_elems.
LEMMA BroadcastCovered ==
  ASSUME NEW d \in EwiseDesc
  PROVE  Covered(BroadcastCells(d), Interval(d.rhs, RhsElems(d)))
<1> USE DEF EwiseDesc
<1>1. ASSUME NEW x \in BroadcastCells(d)
      PROVE  \E o \in 0 .. RhsElems(d) - 1 : x = d.rhs + o
  <2>1. PICK i \in 0 .. d.rows * d.cols - 1 :
          x = d.rhs + ((i \div d.cols) * d.stride + (i % d.blk))
    BY <1>1 DEF BroadcastCells
  <2>2. i \div d.cols \in 0 .. d.rows - 1
    BY RowOfElement
  <2>3. i % d.blk \in 0 .. d.blk - 1
    OBVIOUS
  <2>4. CASE d.stride = 0
    <3>1. (i \div d.cols) * d.stride = 0
      BY <2>2, <2>4, SMT
    <3>2. RhsElems(d) = d.blk
      BY <2>4 DEF RhsElems
    <3> QED BY <2>1, <2>3, <3>1, <3>2
  <2>5. CASE d.stride = d.blk
    <3>1. (i \div d.cols) * d.blk + (i % d.blk) \in 0 .. d.rows * d.blk - 1
      BY <2>2, <2>3, CellInTable
    <3>2. RhsElems(d) = d.rows * d.blk
      BY <2>5 DEF RhsElems
    <3> QED BY <2>1, <2>5, <3>1, <3>2
  <2> QED BY <2>4, <2>5
<1>2. RhsElems(d) \in Int
  BY DEF RhsElems
<1> QED BY <1>1, <1>2, IntervalCovers

\* REDUCE reads rows * cols elements and ARGMAX writes a pair of elements
\* per row.
LEMMA ReduceCovered ==
  ASSUME NEW d \in ReduceDesc
  PROVE  /\ Covered(RowCells(d), Interval(d.src, d.rows * d.cols))
         /\ Covered(IndexCells(d), Interval(d.idx, d.rows * IdxElems))
<1> USE DEF ReduceDesc
<1>1. ASSUME NEW x \in RowCells(d)
      PROVE  \E o \in 0 .. d.rows * d.cols - 1 : x = d.src + o
  <2>1. PICK i \in 0 .. d.rows - 1, j \in 0 .. d.cols - 1 : x = d.src + i * d.cols + j
    BY <1>1 DEF RowCells
  <2>2. i * d.cols + j \in 0 .. d.rows * d.cols - 1
    BY CellInTable
  <2> QED BY <2>1, <2>2
<1>2. ASSUME NEW x \in IndexCells(d)
      PROVE  \E o \in 0 .. d.rows * IdxElems - 1 : x = d.idx + o
  <2>1. PICK i \in 0 .. d.rows - 1, h \in 0 .. 1 : x = d.idx + i * 2 + h
    BY <1>2 DEF IndexCells, IdxElems
  <2>2. i * 2 + h \in 0 .. d.rows * 2 - 1
    OBVIOUS
  <2> QED BY <2>1, <2>2 DEF IdxElems
<1>3. d.rows * d.cols \in Int /\ d.rows * IdxElems \in Int
  BY DEF IdxElems
<1> QED BY <1>1, <1>2, <1>3, IntervalCovers

\* parse_instruction's intervals contain every cell the exec function of the
\* same opcode reads or writes.
THEOREM CheckerCoversCModel ==
  ASSUME NEW d \in Instr
  PROVE  Covered(Reads(d), CheckedReads(d)) /\ Covered(Writes(d), CheckedWrites(d))
<1>1. CASE d \in DmaDesc
  BY <1>1, TileCovered DEF DmaDesc, Reads, Writes, CheckedReads, CheckedWrites
<1>2. CASE d \in MatmulDesc
  <2>1. d.op = "MATMUL" /\ d.acc \in BOOLEAN
    BY <1>2 DEF MatmulDesc
  <2> DEFINE c == LhsCells(d) \union RhsCells(d)
             r == Interval(d.lhs, d.M * d.K) \union Interval(d.rhs, d.K * d.N)
  <2>2. Covered(c, r)
    BY <1>2, LhsCovered, RhsCovered, CoveredUnion
  <2>3. Covered(DstCells(d), Interval(d.dst, d.M * d.N))
    BY <1>2, DstCovered
  <2>4. Covered(IF d.acc THEN DstCells(d) ELSE {},
                IF d.acc THEN Interval(d.dst, d.M * d.N) ELSE {})
    BY <2>3, CoveredEmpty
  <2>5. Covered(Reads(d), CheckedReads(d))
    <3>1. Reads(d) = c \union (IF d.acc THEN DstCells(d) ELSE {})
      BY <2>1 DEF Reads
    <3>2. CheckedReads(d) = r \union (IF d.acc THEN Interval(d.dst, d.M * d.N) ELSE {})
      BY <2>1 DEF CheckedReads
    <3> HIDE DEF c, r
    <3> QED BY <3>1, <3>2, <2>2, <2>4, CoveredUnion
  <2>6. Writes(d) = DstCells(d) /\ CheckedWrites(d) = Interval(d.dst, d.M * d.N)
    BY <2>1 DEF Writes, CheckedWrites
  <2> QED BY <2>3, <2>5, <2>6
<1>3. CASE d \in EwiseDesc
  <2>1. d.op = "EWISE" /\ d.lhs \in Nat /\ d.dst \in Nat /\ d.rows * d.cols \in Int
    BY <1>3 DEF EwiseDesc
  <2>2. Covered(Packed(d.lhs, d.rows * d.cols), Interval(d.lhs, d.rows * d.cols))
    BY <2>1, PackedCovered
  <2>3. Covered(Packed(d.dst, d.rows * d.cols), Interval(d.dst, d.rows * d.cols))
    BY <2>1, PackedCovered
  <2>4. Covered(BroadcastCells(d), Interval(d.rhs, RhsElems(d)))
    BY <1>3, BroadcastCovered
  <2>5. Reads(d) = Packed(d.lhs, d.rows * d.cols) \union BroadcastCells(d)
        /\ CheckedReads(d) = Interval(d.lhs, d.rows * d.cols)
                               \union Interval(d.rhs, RhsElems(d))
    BY <2>1 DEF Reads, CheckedReads
  <2>6. Writes(d) = Packed(d.dst, d.rows * d.cols)
        /\ CheckedWrites(d) = Interval(d.dst, d.rows * d.cols)
    BY <2>1 DEF Writes, CheckedWrites
  <2> QED BY <2>2, <2>3, <2>4, <2>5, <2>6, CoveredUnion
<1>4. CASE d \in ActDesc
  BY <1>4, PackedCovered DEF ActDesc, Reads, Writes, CheckedReads, CheckedWrites
<1>5. CASE d \in ReduceDesc
  <2>1. d.op = "REDUCE" /\ d.dst \in Nat /\ d.rows \in Int /\ d.argmax \in BOOLEAN
    BY <1>5 DEF ReduceDesc
  <2>2. Covered(Packed(d.dst, d.rows), Interval(d.dst, d.rows))
    BY <2>1, PackedCovered
  <2>3. Covered(IF d.argmax THEN IndexCells(d) ELSE {},
                IF d.argmax THEN Interval(d.idx, d.rows * IdxElems) ELSE {})
    BY <1>5, ReduceCovered, CoveredEmpty
  <2>4. Reads(d) = RowCells(d) /\ CheckedReads(d) = Interval(d.src, d.rows * d.cols)
    BY <2>1 DEF Reads, CheckedReads
  <2>5. Writes(d) = Packed(d.dst, d.rows)
                      \union (IF d.argmax THEN IndexCells(d) ELSE {})
        /\ CheckedWrites(d) = Interval(d.dst, d.rows)
                      \union (IF d.argmax THEN Interval(d.idx, d.rows * IdxElems) ELSE {})
    BY <2>1 DEF Writes, CheckedWrites
  <2> QED BY <1>5, <2>2, <2>3, <2>4, <2>5, ReduceCovered, CoveredUnion
<1>6. CASE d \in SyncDesc
  BY <1>6, CoveredEmpty DEF SyncDesc, Reads, Writes, CheckedReads, CheckedWrites
<1> QED BY <1>1, <1>2, <1>3, <1>4, <1>5, <1>6 DEF Instr

-----------------------------------------------------------------------------
(* ... and nothing else, unless an operand has no elements.                *)

Filled(C, ranges) == \A r \in ranges : r[1] .. r[2] - 1 \subseteq C

LEMMA FilledUnion ==
  ASSUME NEW A, NEW B, NEW RA, NEW RB, Filled(A, RA), Filled(B, RB)
  PROVE  Filled(A \union B, RA \union RB)
BY DEF Filled

LEMMA FilledEmpty ==
  ASSUME NEW C
  PROVE  Filled(C, {})
BY DEF Filled

\* An interval is filled when every offset of it is reached.
LEMMA IntervalFilled ==
  ASSUME NEW base \in Nat, NEW n \in Int, NEW C, \A o \in 0 .. n - 1 : base + o \in C
  PROVE  Filled(C, Interval(base, n))
<1> SUFFICES ASSUME NEW x \in base .. base + n - 1
             PROVE  x \in C
  BY DEF Filled, Interval
<1>1. x - base \in 0 .. n - 1 /\ base + (x - base) = x
  OBVIOUS
<1> QED BY <1>1

LEMMA PackedFilled ==
  ASSUME NEW base \in Nat, NEW n \in Int
  PROVE  Filled(Packed(base, n), Interval(base, n))
BY IntervalFilled DEF Packed

LEMMA TileFilled ==
  ASSUME NEW base \in Nat, NEW rows \in Nat, NEW cols \in Nat, NEW stride \in Nat
  PROVE  Filled(Tile(base, rows, cols, stride), TileRanges(base, rows, cols, stride))
<1> SUFFICES ASSUME NEW r \in TileRanges(base, rows, cols, stride), NEW x \in r[1] .. r[2] - 1
             PROVE  x \in Tile(base, rows, cols, stride)
  BY DEF Filled
<1>0. PICK i \in 0 .. rows - 1 : r = <<base + stride * i, base + stride * i + cols>>
  BY DEF TileRanges
<1> DEFINE s == base + stride * i
<1>1. s \in Int
  BY SMT
<1>2. x \in s .. s + cols - 1
  BY <1>0
<1> HIDE DEF s
<1>3. x - s \in 0 .. cols - 1 /\ x = s + (x - s)
  BY <1>1, <1>2
<1>4. PICK j \in 0 .. cols - 1 : x = s + j
  BY <1>3
<1> QED BY <1>4 DEF Tile, s

\* Every offset into a table is some row and some column of it.
LEMMA Tabulated ==
  ASSUME NEW rows \in Nat, NEW cols \in Nat, NEW o \in 0 .. rows * cols - 1
  PROVE  \E i \in 0 .. rows - 1, j \in 0 .. cols - 1 : o = i * cols + j
<1>1. cols > 0 /\ o \div cols \in 0 .. rows - 1
  BY RowOfElement
<1>2. o \in Int /\ cols \in Nat \ {0}
  BY <1>1
<1>3. o % cols \in 0 .. cols - 1 /\ o = (o \div cols) * cols + (o % cols)
  BY <1>2, Remainder
<1> QED BY <1>1, <1>3

LEMMA MatmulFilled ==
  ASSUME NEW d \in MatmulDesc
  PROVE  /\ Filled(LhsCells(d), Interval(d.lhs, d.M * d.K))
         /\ Filled(RhsCells(d), Interval(d.rhs, d.K * d.N))
         /\ Filled(DstCells(d), Interval(d.dst, d.M * d.N))
<1>1. /\ d.M \in Nat /\ d.N \in Nat /\ d.K \in Nat
      /\ d.lhs \in Nat /\ d.rhs \in Nat /\ d.dst \in Nat
      /\ d.transA \in BOOLEAN /\ d.transB \in BOOLEAN
  BY DEF MatmulDesc
<1>2. /\ d.M * d.K \in Int /\ d.K * d.M = d.M * d.K
      /\ d.K * d.N \in Int /\ d.N * d.K = d.K * d.N /\ d.M * d.N \in Int
  BY <1>1
<1>3. ASSUME NEW o \in 0 .. d.M * d.K - 1
      PROVE  d.lhs + o \in LhsCells(d)
  <2>1. CASE d.transA
    <3>1. o \in 0 .. d.K * d.M - 1
      BY <1>2
    <3>2. PICK k \in 0 .. d.K - 1, m \in 0 .. d.M - 1 : o = k * d.M + m
      BY <1>1, <3>1, Tabulated
    <3> QED BY <2>1, <3>2 DEF LhsCells
  <2>2. CASE ~d.transA
    <3>1. PICK m \in 0 .. d.M - 1, k \in 0 .. d.K - 1 : o = m * d.K + k
      BY <1>1, <1>2, Tabulated
    <3> QED BY <2>2, <3>1 DEF LhsCells
  <2> QED BY <2>1, <2>2
<1>4. ASSUME NEW o \in 0 .. d.K * d.N - 1
      PROVE  d.rhs + o \in RhsCells(d)
  <2>1. CASE d.transB
    <3>1. o \in 0 .. d.N * d.K - 1
      BY <1>2
    <3>2. PICK n \in 0 .. d.N - 1, k \in 0 .. d.K - 1 : o = n * d.K + k
      BY <1>1, <3>1, Tabulated
    <3> QED BY <2>1, <3>2 DEF RhsCells
  <2>2. CASE ~d.transB
    <3>1. PICK k \in 0 .. d.K - 1, n \in 0 .. d.N - 1 : o = k * d.N + n
      BY <1>1, <1>2, Tabulated
    <3> QED BY <2>2, <3>1 DEF RhsCells
  <2> QED BY <2>1, <2>2
<1>5. ASSUME NEW o \in 0 .. d.M * d.N - 1
      PROVE  d.dst + o \in DstCells(d)
  <2>1. PICK m \in 0 .. d.M - 1, n \in 0 .. d.N - 1 : o = m * d.N + n
    BY <1>1, Tabulated
  <2> QED BY <2>1 DEF DstCells
<1> QED BY <1>1, <1>2, <1>3, <1>4, <1>5, IntervalFilled

\* The element that broadcasts from offset o of rhs: in row o \div blk, or in
\* the first row when all rows share theirs.
LEMMA BroadcastFilled ==
  ASSUME NEW d \in EwiseDesc, d.rows > 0, d.cols > 0
  PROVE  Filled(BroadcastCells(d), Interval(d.rhs, RhsElems(d)))
<1>1. /\ d.rows \in Nat /\ d.cols \in Nat \ {0} /\ d.rhs \in Nat /\ d.blk \in Nat \ {0}
      /\ d.cols % d.blk = 0 /\ d.stride \in {0, d.blk}
  BY DEF EwiseDesc
<1>2. RhsElems(d) \in Int
  BY <1>1 DEF RhsElems
<1>3. d.blk <= d.cols
  <2>1. d.cols = (d.cols \div d.blk) * d.blk + (d.cols % d.blk) /\ d.cols \div d.blk \in Int
    <3>1. d.cols \in Int /\ d.blk \in Nat \ {0}
      BY <1>1
    <3> QED BY <3>1, Remainder
  <2> DEFINE q == d.cols \div d.blk
  <2>2. q \in Int /\ d.cols = q * d.blk
    BY <1>1, <2>1
  <2> HIDE DEF q
  <2>3. q >= 1
    BY <1>1, <2>2, SMT
  <2>4. q * d.blk >= d.blk
    BY <1>1, <2>2, <2>3, SMT
  <2> QED BY <2>2, <2>4
<1>4. ASSUME NEW r \in 0 .. d.rows - 1, NEW t \in 0 .. d.blk - 1
      PROVE  d.rhs + (r * d.stride + t) \in BroadcastCells(d)
  <2> DEFINE i == r * d.cols + t
  <2>1. t \in 0 .. d.cols - 1 /\ t \in Int /\ r \in Int
    BY <1>1, <1>3
  <2>2. i \in 0 .. d.rows * d.cols - 1
    BY <1>1, <2>1, CellInTable
  <2>3. i \in Int
    BY <2>2
  <2>4. i % d.cols = t
    BY <1>1, <2>1, <2>3, RemainderUnique
  <2>5. i \div d.cols = r
    <3>1. i = (i \div d.cols) * d.cols + (i % d.cols) /\ i \div d.cols \in Int
      <4> HIDE DEF i
      <4> QED BY <1>1, <2>3, Remainder
    <3>2. (i \div d.cols) * d.cols + t = r * d.cols + t
      BY <2>4, <3>1
    <3>3. d.cols \in Nat /\ i \div d.cols \in Int
      BY <1>1, <3>1
    <3> HIDE DEF i
    <3> QED BY <2>1, <3>2, <3>3, CellsDistinct
  <2>6. i % d.blk = t
    <3> DEFINE q == d.cols \div d.blk
    <3>1. q \in Int /\ d.cols = q * d.blk
      <4>1. d.cols \in Int /\ d.blk \in Nat \ {0}
        BY <1>1
      <4>2. d.cols = q * d.blk + (d.cols % d.blk) /\ q \in Int
        BY <4>1, Remainder
      <4>3. q * d.blk \in Int
        BY <4>1, <4>2
      <4> QED BY <1>1, <4>2, <4>3
    <3> HIDE DEF q
    <3>2. i = (r * q) * d.blk + t /\ r * q \in Int
      BY <1>1, <2>1, <3>1, SMT
    <3> HIDE DEF i
    <3> QED BY <1>1, <2>3, <3>2, RemainderUnique
  <2> HIDE DEF i
  <2>7. (i \div d.cols) * d.stride + (i % d.blk) = r * d.stride + t
    BY <2>5, <2>6
  <2> QED BY <2>2, <2>7 DEF BroadcastCells
<1>5. ASSUME NEW o \in 0 .. RhsElems(d) - 1
      PROVE  d.rhs + o \in BroadcastCells(d)
  <2>1. CASE d.stride = 0
    <3>1. RhsElems(d) = d.blk
      BY <1>1, <2>1 DEF RhsElems
    <3>2. o \in 0 .. d.blk - 1 /\ 0 \in 0 .. d.rows - 1 /\ 0 * d.stride + o = o
      BY <1>1, <2>1, <3>1
    <3>3. d.rhs + (0 * d.stride + o) \in BroadcastCells(d)
      BY <1>4, <3>2
    <3> QED BY <3>2, <3>3
  <2>2. CASE d.stride = d.blk
    <3>1. RhsElems(d) = d.rows * d.blk
      <4>1. RhsElems(d) = d.blk * d.rows
        BY <1>1, <2>2 DEF RhsElems
      <4> QED BY <1>1, <4>1
    <3>2. o \in 0 .. d.rows * d.blk - 1 /\ d.rows \in Nat /\ d.blk \in Nat
      BY <1>1, <3>1
    <3>3. PICK r \in 0 .. d.rows - 1, t \in 0 .. d.blk - 1 : o = r * d.blk + t
      BY <3>2, Tabulated
    <3> QED BY <1>4, <2>2, <3>3
  <2> QED BY <1>1, <2>1, <2>2
<1> QED BY <1>1, <1>2, <1>5, IntervalFilled

LEMMA ReduceFilled ==
  ASSUME NEW d \in ReduceDesc
  PROVE  /\ Filled(RowCells(d), Interval(d.src, d.rows * d.cols))
         /\ Filled(IndexCells(d), Interval(d.idx, d.rows * IdxElems))
<1>1. /\ d.rows \in Nat /\ d.cols \in Nat /\ d.src \in Nat /\ d.idx \in Nat
      /\ IdxElems \in Nat /\ d.rows * d.cols \in Int /\ d.rows * IdxElems \in Int
  BY DEF ReduceDesc, IdxElems
<1>2. ASSUME NEW o \in 0 .. d.rows * d.cols - 1
      PROVE  d.src + o \in RowCells(d)
  <2>1. PICK i \in 0 .. d.rows - 1, j \in 0 .. d.cols - 1 : o = i * d.cols + j
    BY <1>1, Tabulated
  <2> DEFINE s == i * d.cols
  <2>2. s \in Int /\ d.src + o = d.src + s + j
    BY <1>1, <2>1
  <2> QED BY <2>2 DEF RowCells
<1>3. ASSUME NEW o \in 0 .. d.rows * IdxElems - 1
      PROVE  d.idx + o \in IndexCells(d)
  <2>1. PICK i \in 0 .. d.rows - 1, h \in 0 .. IdxElems - 1 : o = i * IdxElems + h
    BY <1>1, Tabulated
  <2> DEFINE s == i * IdxElems
  <2>2. s \in Int /\ d.idx + o = d.idx + s + h
    BY <1>1, <2>1
  <2> QED BY <2>2 DEF IndexCells
<1> QED BY <1>1, <1>2, <1>3, IntervalFilled

\* parse_instruction's intervals hold no cell the exec function of the same
\* opcode does not touch.
LEMMA CheckerCoversNoMore ==
  ASSUME NEW d \in Instr, NonEmptyShape(d)
  PROVE  Filled(Reads(d), CheckedReads(d)) /\ Filled(Writes(d), CheckedWrites(d))
<1>1. CASE d \in DmaDesc
  BY <1>1, TileFilled DEF DmaDesc, Reads, Writes, CheckedReads, CheckedWrites
<1>2. CASE d \in MatmulDesc
  <2>1. d.op = "MATMUL" /\ d.acc \in BOOLEAN
    BY <1>2 DEF MatmulDesc
  <2> DEFINE c == LhsCells(d) \union RhsCells(d)
             r == Interval(d.lhs, d.M * d.K) \union Interval(d.rhs, d.K * d.N)
             w == Interval(d.dst, d.M * d.N)
  <2>2. Filled(LhsCells(d), Interval(d.lhs, d.M * d.K)) /\ Filled(RhsCells(d), Interval(d.rhs, d.K * d.N))
        /\ Filled(DstCells(d), w)
    BY <1>2, MatmulFilled
  <2>3. Filled(c, r)
    BY <2>2, FilledUnion
  <2>4. Filled(IF d.acc THEN DstCells(d) ELSE {}, IF d.acc THEN w ELSE {})
    BY <2>2, FilledEmpty
  <2>5. Reads(d) = c \union (IF d.acc THEN DstCells(d) ELSE {})
        /\ CheckedReads(d) = r \union (IF d.acc THEN w ELSE {})
    BY <2>1 DEF Reads, CheckedReads
  <2>6. Writes(d) = DstCells(d) /\ CheckedWrites(d) = w
    BY <2>1 DEF Writes, CheckedWrites
  <2> HIDE DEF c, r, w
  <2> QED BY <2>2, <2>3, <2>4, <2>5, <2>6, FilledUnion
<1>3. CASE d \in EwiseDesc
  <2>1. /\ d.op = "EWISE" /\ d.lhs \in Nat /\ d.dst \in Nat /\ d.rows * d.cols \in Int
        /\ d.rows > 0 /\ d.cols > 0
    BY <1>3 DEF EwiseDesc, NonEmptyShape
  <2>2. Filled(Packed(d.lhs, d.rows * d.cols), Interval(d.lhs, d.rows * d.cols))
    BY <2>1, PackedFilled
  <2>3. Filled(Packed(d.dst, d.rows * d.cols), Interval(d.dst, d.rows * d.cols))
    BY <2>1, PackedFilled
  <2>4. Filled(BroadcastCells(d), Interval(d.rhs, RhsElems(d)))
    BY <1>3, <2>1, BroadcastFilled
  <2>5. Reads(d) = Packed(d.lhs, d.rows * d.cols) \union BroadcastCells(d)
        /\ CheckedReads(d) = Interval(d.lhs, d.rows * d.cols)
                               \union Interval(d.rhs, RhsElems(d))
    BY <2>1 DEF Reads, CheckedReads
  <2>6. Writes(d) = Packed(d.dst, d.rows * d.cols)
        /\ CheckedWrites(d) = Interval(d.dst, d.rows * d.cols)
    BY <2>1 DEF Writes, CheckedWrites
  <2> QED BY <2>2, <2>3, <2>4, <2>5, <2>6, FilledUnion
<1>4. CASE d \in ActDesc
  BY <1>4, PackedFilled DEF ActDesc, Reads, Writes, CheckedReads, CheckedWrites
<1>5. CASE d \in ReduceDesc
  <2>1. d.op = "REDUCE" /\ d.dst \in Nat /\ d.rows \in Int /\ d.argmax \in BOOLEAN
    BY <1>5 DEF ReduceDesc
  <2>2. Filled(Packed(d.dst, d.rows), Interval(d.dst, d.rows))
    BY <2>1, PackedFilled
  <2>3. Filled(IF d.argmax THEN IndexCells(d) ELSE {},
               IF d.argmax THEN Interval(d.idx, d.rows * IdxElems) ELSE {})
    BY <1>5, ReduceFilled, FilledEmpty
  <2>4. Reads(d) = RowCells(d) /\ CheckedReads(d) = Interval(d.src, d.rows * d.cols)
    BY <2>1 DEF Reads, CheckedReads
  <2>5. Writes(d) = Packed(d.dst, d.rows)
                      \union (IF d.argmax THEN IndexCells(d) ELSE {})
        /\ CheckedWrites(d) = Interval(d.dst, d.rows)
                      \union (IF d.argmax THEN Interval(d.idx, d.rows * IdxElems) ELSE {})
    BY <2>1 DEF Writes, CheckedWrites
  <2> QED BY <1>5, <2>2, <2>3, <2>4, <2>5, ReduceFilled, FilledUnion
<1>6. CASE d \in SyncDesc
  BY <1>6, FilledEmpty DEF SyncDesc, Reads, Writes, CheckedReads, CheckedWrites
<1> QED BY <1>1, <1>2, <1>3, <1>4, <1>5, <1>6 DEF Instr

\* The checker's ranges are pairs of integers.
LEMMA RangesTyped ==
  ASSUME NEW d \in Instr
  PROVE  CheckedReads(d) \subseteq Int \X Int /\ CheckedWrites(d) \subseteq Int \X Int
<1>1. ASSUME NEW base \in Int, NEW n \in Int
      PROVE  Interval(base, n) \subseteq Int \X Int
  BY DEF Interval
<1>2. ASSUME NEW base \in Int, NEW rows \in Int, NEW cols \in Int, NEW stride \in Int
      PROVE  TileRanges(base, rows, cols, stride) \subseteq Int \X Int
  BY DEF TileRanges
<1>3. CASE d \in DmaDesc
  BY <1>2, <1>3 DEF DmaDesc, CheckedReads, CheckedWrites
<1>4. CASE d \in MatmulDesc
  BY <1>1, <1>4 DEF MatmulDesc, CheckedReads, CheckedWrites
<1>5. CASE d \in EwiseDesc
  BY <1>1, <1>5 DEF EwiseDesc, CheckedReads, CheckedWrites, RhsElems
<1>6. CASE d \in ActDesc
  BY <1>1, <1>6 DEF ActDesc, CheckedReads, CheckedWrites
<1>7. CASE d \in ReduceDesc
  BY <1>1, <1>7 DEF ReduceDesc, CheckedReads, CheckedWrites, IdxElems
<1>8. CASE d \in SyncDesc
  BY <1>8 DEF SyncDesc, CheckedReads, CheckedWrites
<1> QED BY <1>3, <1>4, <1>5, <1>6, <1>7, <1>8 DEF Instr

-----------------------------------------------------------------------------
(* The inductive invariant, component by component.                        *)

\* The instructions before the cursor that no fence separates from it.
Open(c) == {j \in 1 .. c - 1 : Unfenced(j, c - 1)}

CheckInv ==
  /\ cursor \in 1 .. Len(prog) + 1
  /\ active = {Access(j, "read", CheckedReads(prog[j])) : j \in Open(cursor)}
                \union {Access(j, "write", CheckedWrites(prog[j])) : j \in Open(cursor)}
  /\ violations = Hazards(cursor - 1)

\* w is the last of the first k instructions that writes a; 0 if none does.
LastWriter(w, k, a) ==
  /\ w \in 0 .. k
  /\ w # 0 => a \in Writes(prog[w])
  /\ \A j \in 1 .. k : a \in Writes(prog[j]) => j <= w

\* What an instruction of the trace can have read.
Snapshot == UNION {[Reads(prog[i]) -> Index \union {0}] : i \in Index}

SimInv ==
  /\ queue \in Seq(Index) /\ log \in Seq(Index)
  /\ Len(log) + Len(queue) <= Len(prog)
  /\ log # <<>> => Len(log) + Len(queue) = Len(prog)
  /\ \A i \in 1 .. Len(log) : log[i] = i
  /\ \A i \in 1 .. Len(queue) : queue[i] = Len(log) + i
  /\ mem \in [Addr -> Index \union {0}]
  /\ \A a \in Addr : LastWriter(mem[a], Len(log), a)
  /\ seen \in Seq(Snapshot)
  /\ Len(seen) = Len(log)
  /\ \A i \in 1 .. Len(log) :
       /\ seen[i] \in [Reads(prog[i]) -> Index \union {0}]
       /\ \A a \in Reads(prog[i]) : LastWriter(seen[i][a], i - 1, a)

NpuType ==
  /\ next \in 1 .. Len(prog) + 1
  /\ status \in [Index -> Status]
  /\ cells \in [Addr -> Index \union {0}]
  /\ obs \in [Index -> Snapshot \union {NothingRead}]
  /\ \A i \in Index : status[i] = "waiting" => obs[i] = NothingRead

Begun(i) == status[i] \in {"running", "done"}

IssueInv == \A i \in Index : i < next <=> status[i] # "waiting"

FenceInv ==
  \A s \in Index : s < next /\ IsSync(s) => \A j \in 1 .. s : status[j] = "done"

\* Among the instructions finished so far, cells[a] names the last in program
\* order that writes a.
CellsInv ==
  \A a \in Addr :
    /\ cells[a] # 0 => status[cells[a]] = "done" /\ a \in Writes(prog[cells[a]])
    /\ \A j \in Index : status[j] = "done" /\ a \in Writes(prog[j]) => j <= cells[a]

ObsInv ==
  \A i \in Index : Begun(i) =>
    /\ obs[i] \in [Reads(prog[i]) -> Index \union {0}]
    /\ \A a \in Reads(prog[i]) : LastWriter(obs[i][a], i - 1, a)

NpuInv ==
  /\ NpuType /\ IssueInv /\ FenceInv
  /\ HazardFree => CellsInv /\ ObsInv

IInv ==
  /\ prog \in Programs
  /\ CheckInv /\ SimInv /\ NpuInv
  /\ next > 1 => SimDone /\ Scanned

-----------------------------------------------------------------------------
(* Facts about the trace.                                                  *)

\* What ProgramsAssumption says of the trace of a behaviour.
LEMMA ProgFacts ==
  ASSUME prog \in Programs
  PROVE  /\ prog \in Seq(Instr) /\ Len(prog) \in Nat /\ Addr \subseteq Nat
         /\ \A i \in Index : /\ prog[i] \in Instr
                             /\ Reads(prog[i]) \subseteq Addr
                             /\ Writes(prog[i]) \subseteq Addr
<1>1. prog \in Seq(Instr)
  BY ProgramsAssumption
<1> QED BY <1>1, ProgramsAssumption DEF Index

\* A cell has one last writer.
LEMMA LastWriterUnique ==
  ASSUME NEW k \in Nat, NEW a, NEW v, NEW w, LastWriter(v, k, a), LastWriter(w, k, a)
  PROVE  v = w
BY DEF LastWriter

\* Executing instruction k + 1 makes it the last writer of what it writes and
\* leaves the last writer of every other cell.
LEMMA LastWriterStep ==
  ASSUME NEW k \in Nat, NEW a, NEW w, LastWriter(w, k, a)
  PROVE  LastWriter(IF a \in Writes(prog[k + 1]) THEN k + 1 ELSE w, k + 1, a)
BY DEF LastWriter

\* Cells that meet make the ranges that cover them overlap.
LEMMA OverlapIfShared ==
  ASSUME NEW A, NEW B, NEW RA, NEW RB,
         A \intersect B # {}, A \subseteq Int, Covered(A, RA), Covered(B, RB),
         RA \subseteq Int \X Int, RB \subseteq Int \X Int
  PROVE  RangesOverlap(RA, RB)
<1>1. PICK x \in A : x \in B
  OBVIOUS
<1>2. PICK r \in RA : r[1] <= x /\ x < r[2]
  BY <1>1 DEF Covered
<1>3. PICK q \in RB : q[1] <= x /\ x < q[2]
  BY <1>1 DEF Covered
<1>4. x \in Int /\ r[1] \in Int /\ r[2] \in Int /\ q[1] \in Int /\ q[2] \in Int
  BY <1>1
<1>5. r[1] < q[2] /\ q[1] < r[2]
  BY <1>2, <1>3, <1>4
<1> QED BY <1>5 DEF RangesOverlap

\* A clean verdict means that no two unfenced instructions collide.
LEMMA CleanMeansHazardFree ==
  ASSUME prog \in Programs, CheckInv, Clean
  PROVE  HazardFree
<1> SUFFICES ASSUME NEW j \in Index, NEW i \in Index, j < i, Unfenced(j, i), Collide(j, i)
             PROVE  FALSE
  BY DEF HazardFree
<1>1. Hazards(Len(prog)) = {}
  BY ProgFacts DEF CheckInv, Clean, Scanned
<1>2. ASSUME NEW type \in {"RAW", "WAR", "WAW"}, HazardOf(type, j, i)
      PROVE  <<i, type, j>> \in Hazards(Len(prog))
  BY <1>2 DEF Hazards, Index
<1> DEFINE d == prog[i]
           e == prog[j]
<1>3. /\ d \in Instr /\ e \in Instr
      /\ Reads(d) \subseteq Int /\ Writes(d) \subseteq Int
      /\ Reads(e) \subseteq Int /\ Writes(e) \subseteq Int
  BY ProgFacts
<1>4. /\ Covered(Reads(d), CheckedReads(d)) /\ Covered(Writes(d), CheckedWrites(d))
      /\ Covered(Reads(e), CheckedReads(e)) /\ Covered(Writes(e), CheckedWrites(e))
  BY <1>3, CheckerCoversCModel
<1>5. /\ CheckedReads(d) \subseteq Int \X Int /\ CheckedWrites(d) \subseteq Int \X Int
      /\ CheckedReads(e) \subseteq Int \X Int /\ CheckedWrites(e) \subseteq Int \X Int
  BY <1>3, RangesTyped
<1>6. CASE Writes(e) \intersect Reads(d) # {}
  <2>1. RangesOverlap(CheckedReads(d), CheckedWrites(e))
    BY <1>3, <1>4, <1>5, <1>6, OverlapIfShared
  <2> QED BY <2>1, <1>1, <1>2 DEF HazardOf
<1>7. CASE Reads(e) \intersect Writes(d) # {}
  <2>1. RangesOverlap(CheckedWrites(d), CheckedReads(e))
    BY <1>3, <1>4, <1>5, <1>7, OverlapIfShared
  <2> QED BY <2>1, <1>1, <1>2 DEF HazardOf
<1>8. CASE Writes(e) \intersect Writes(d) # {}
  <2>1. RangesOverlap(CheckedWrites(d), CheckedWrites(e))
    BY <1>3, <1>4, <1>5, <1>8, OverlapIfShared
  <2> QED BY <2>1, <1>1, <1>2 DEF HazardOf
<1> QED BY <1>6, <1>7, <1>8 DEF Collide

-----------------------------------------------------------------------------
(* The scan.                                                               *)

\* What Hits finds: the unfenced earlier instructions whose intervals overlap.
LEMMA HitsAreOpen ==
  ASSUME CheckInv, NEW R
  PROVE  /\ \A j : j \in Hits("read", R) <=>
              j \in Open(cursor) /\ RangesOverlap(R, CheckedReads(prog[j]))
         /\ \A j : j \in Hits("write", R) <=>
              j \in Open(cursor) /\ RangesOverlap(R, CheckedWrites(prog[j]))
<1>1. /\ \A f \in active : f.kind = "read" =>
            \E j \in Open(cursor) : f.index = j /\ f.ranges = CheckedReads(prog[j])
      /\ \A f \in active : f.kind = "write" =>
            \E j \in Open(cursor) : f.index = j /\ f.ranges = CheckedWrites(prog[j])
  BY DEF CheckInv, Access
<1>2. \A j \in Open(cursor) :
        /\ \E f \in active : /\ f.index = j /\ f.kind = "read"
                             /\ f.ranges = CheckedReads(prog[j])
        /\ \E f \in active : /\ f.index = j /\ f.kind = "write"
                             /\ f.ranges = CheckedWrites(prog[j])
  <2> SUFFICES ASSUME NEW j \in Open(cursor)
               PROVE  /\ Access(j, "read", CheckedReads(prog[j])) \in active
                      /\ Access(j, "write", CheckedWrites(prog[j])) \in active
    BY DEF Access
  <2> QED BY DEF CheckInv
<1>3. \A j : j \in Hits("read", R) <=>
        \E f \in active : f.index = j /\ f.kind = "read" /\ RangesOverlap(R, f.ranges)
  BY DEF Hits
<1>4. \A j : j \in Hits("write", R) <=>
        \E f \in active : f.index = j /\ f.kind = "write" /\ RangesOverlap(R, f.ranges)
  BY DEF Hits
<1>5. \A j : j \in Hits("read", R) <=>
        j \in Open(cursor) /\ RangesOverlap(R, CheckedReads(prog[j]))
  BY <1>1, <1>2, <1>3
<1>6. \A j : j \in Hits("write", R) <=>
        j \in Open(cursor) /\ RangesOverlap(R, CheckedWrites(prog[j]))
  BY <1>1, <1>2, <1>4
<1> QED BY <1>5, <1>6

\* One more line scanned: the hazards of a prefix grow by those of its last
\* instruction.
LEMMA HazardsStep ==
  ASSUME NEW c \in Nat \ {0}
  PROVE  Hazards(c) = Hazards(c - 1) \union {h \in Hazards(c) : h[1] = c}
<1>1. Hazards(c - 1) \subseteq Hazards(c)
  BY DEF Hazards
<1>2. ASSUME NEW h \in Hazards(c), h \notin Hazards(c - 1)
      PROVE  h[1] = c
  BY <1>2 DEF Hazards
<1> QED BY <1>1, <1>2

\* A scan step leaves the trace, so what is said of it, alone.
LEMMA TraceFixed ==
  ASSUME prog' = prog
  PROVE  /\ \A c : Open(c)' = Open(c)
         /\ \A c : Hazards(c)' = Hazards(c)
         /\ \A w, k, a : LastWriter(w, k, a)' <=> LastWriter(w, k, a)
         /\ HazardFree' <=> HazardFree
         /\ Index' = Index /\ Snapshot' = Snapshot
         /\ \A i : IsSync(i)' <=> IsSync(i)
BY DEF Open, Hazards, HazardOf, Unfenced, IsSync, LastWriter, HazardFree,
       Collide, Index, Snapshot

\* Scanning a SYNC line.
LEMMA ScanSyncInv ==
  ASSUME prog \in Programs, CheckInv, ScanSync, UNCHANGED prog
  PROVE  CheckInv'
<1>1. cursor \in Index /\ Len(prog) \in Nat /\ cursor \in Nat \ {0}
  BY ProgFacts DEF ScanSync, Scanned, CheckInv, Index
<1>2. \A j \in Int : j <= cursor => ~Unfenced(j, cursor)
  BY <1>1 DEF Unfenced, ScanSync
<1>3. {h \in Hazards(cursor) : h[1] = cursor} = {}
  BY <1>1, <1>2 DEF Hazards
<1>4. Hazards(cursor) = Hazards(cursor - 1)
  BY <1>1, <1>3, HazardsStep
<1>5. Open(cursor + 1) = {}
  BY <1>1, <1>2 DEF Open
<1>6. cursor' = cursor + 1 /\ prog' = prog /\ active' = {} /\ violations' = violations
  BY DEF ScanSync
<1>7. Hazards(cursor - 1)' = Hazards(cursor)
  <2>1. (cursor - 1)' = cursor /\ prog' = prog
    BY <1>1, <1>6
  <2> QED BY <2>1, Zenon DEF Hazards, HazardOf, Unfenced, IsSync
<1>8. Open(cursor)' = {}
  BY <1>5, <1>6 DEF Open, Unfenced, IsSync
<1> QED BY <1>1, <1>4, <1>6, <1>7, <1>8 DEF CheckInv, Index

\* Scanning any other line.
LEMMA ScanInstrInv ==
  ASSUME prog \in Programs, CheckInv, ScanInstr, UNCHANGED prog
  PROVE  CheckInv'
<1>1. cursor \in Index /\ Len(prog) \in Nat /\ cursor \in Nat \ {0}
  BY ProgFacts DEF ScanInstr, Scanned, CheckInv, Index
<1>2. cursor' = cursor + 1 /\ prog' = prog /\ ~IsSync(cursor)
  BY DEF ScanInstr
<1>3. \A j \in Int : j <= cursor => (Unfenced(j, cursor) <=> Unfenced(j, cursor - 1))
  BY <1>1, <1>2 DEF Unfenced
<1>4. Open(cursor + 1) = Open(cursor) \union {cursor}
  <2>1. Unfenced(cursor, cursor)
    BY <1>1, <1>2 DEF Unfenced
  <2> QED BY <1>1, <1>3, <2>1 DEF Open
<1>5. Open(cursor)' = Open(cursor) \union {cursor}
  BY <1>1, <1>2, <1>4 DEF Open, Unfenced, IsSync
<1>6. active' = {Access(j, "read", CheckedReads(prog[j])) : j \in Open(cursor)'}
                  \union {Access(j, "write", CheckedWrites(prog[j])) : j \in Open(cursor)'}
  BY <1>5 DEF CheckInv, ScanInstr
<1> DEFINE reads == CheckedReads(prog[cursor])
           writes == CheckedWrites(prog[cursor])
           new == Found("RAW", Hits("write", reads))
                    \union Found("WAR", Hits("read", writes))
                    \union Found("WAW", Hits("write", writes))
<1>7. new = {h \in Hazards(cursor) : h[1] = cursor}
  <2>1. \A j : j \in Open(cursor) <=> j \in 1 .. cursor /\ j < cursor /\ Unfenced(j, cursor)
    BY <1>1, <1>3 DEF Open
  <2>2. ASSUME NEW h \in new
        PROVE  h \in Hazards(cursor) /\ h[1] = cursor
    <3>1. PICK t \in {"RAW", "WAR", "WAW"}, j \in Open(cursor) :
            h = <<cursor, t, j>> /\ HazardOf(t, j, cursor)
      BY HitsAreOpen DEF Found, HazardOf
    <3> QED BY <1>1, <2>1, <3>1 DEF Hazards
  <2>3. ASSUME NEW h \in Hazards(cursor), h[1] = cursor
        PROVE  h \in new
    <3>1. /\ h = <<cursor, h[2], h[3]>> /\ h[3] \in Open(cursor)
          /\ h[2] \in {"RAW", "WAR", "WAW"} /\ HazardOf(h[2], h[3], cursor)
      BY <2>1, <2>3 DEF Hazards
    <3> QED BY <3>1, HitsAreOpen DEF Found, HazardOf
  <2> QED BY <2>2, <2>3
<1>8. violations' = Hazards(cursor)
  <2>1. violations' = violations \union new
    BY DEF ScanInstr
  <2> HIDE DEF new
  <2> QED BY <1>1, <1>7, <2>1, HazardsStep DEF CheckInv
<1>9. Hazards(cursor - 1)' = Hazards(cursor)
  <2>1. (cursor - 1)' = cursor /\ prog' = prog
    BY <1>1, <1>2
  <2> QED BY <2>1, Zenon DEF Hazards, HazardOf, Unfenced, IsSync
<1> QED BY <1>1, <1>2, <1>6, <1>8, <1>9 DEF CheckInv, Index

-----------------------------------------------------------------------------
(* The cmodel.                                                             *)

\* Pushing the next line of the trace.
LEMMA PushInv ==
  ASSUME prog \in Programs, SimInv, Push, UNCHANGED prog
  PROVE  SimInv'
<1>1. /\ Len(prog) \in Nat /\ Len(log) \in Nat /\ Len(queue) \in Nat
      /\ queue \in Seq(Index) /\ Index = 1 .. Len(prog)
  BY ProgFacts DEF SimInv, Index
<1>2. log = <<>> /\ Len(log) = 0
  BY DEF SimInv, Push, Loaded
<1>3. Len(queue) + 1 \in Index
  BY <1>1, <1>2 DEF SimInv, Push, Loaded
<1>4. /\ queue' \in Seq(Index) /\ Len(queue') = Len(queue) + 1
      /\ \A i \in 1 .. Len(queue') : queue'[i] = Len(log) + i
  BY <1>1, <1>2, <1>3 DEF Push, SimInv
<1>5. log' = log /\ mem' = mem /\ seen' = seen /\ prog' = prog
  BY DEF Push
<1>6. Len(log') + Len(queue') <= Len(prog')
  BY <1>1, <1>2, <1>3, <1>4, <1>5
<1>7. \A a \in Addr : LastWriter(mem[a], Len(log), a)'
  BY <1>5 DEF SimInv, LastWriter
<1> QED BY <1>2, <1>4, <1>5, <1>6, <1>7, TraceFixed DEF SimInv

\* Executing the instruction at the head of the queue.
LEMMA RunStepInv ==
  ASSUME prog \in Programs, SimInv, RunStep, UNCHANGED prog
  PROVE  SimInv'
<1> DEFINE n == Len(log)
           i == Head(queue)
<1>1. /\ Len(prog) \in Nat /\ n \in Nat /\ Len(queue) \in Nat \ {0}
      /\ queue \in Seq(Index) /\ log \in Seq(Index) /\ Index = 1 .. Len(prog)
      /\ seen \in Seq(Snapshot) /\ Len(seen) = n
      /\ n + Len(queue) = Len(prog)
  BY ProgFacts DEF SimInv, Index, RunStep, Loaded
<1>2. i = n + 1 /\ i \in Index
  BY <1>1 DEF SimInv
<1>3. Reads(prog[i]) \subseteq Addr /\ Writes(prog[i]) \subseteq Addr
  BY <1>2, ProgFacts
<1> DEFINE snap == [a \in Reads(prog[i]) |-> mem[a]]
<1>4. /\ seen' = Append(seen, snap) /\ log' = Append(log, i) /\ queue' = Tail(queue)
      /\ mem' = [a \in Addr |-> IF a \in Writes(prog[i]) THEN i ELSE mem[a]]
      /\ prog' = prog
  BY DEF RunStep
<1>5. snap \in [Reads(prog[i]) -> Index \union {0}] /\ snap \in Snapshot
  <2>1. snap \in [Reads(prog[i]) -> Index \union {0}]
    BY <1>3 DEF SimInv
  <2> QED BY <1>2, <2>1 DEF Snapshot
<1>6. /\ log' \in Seq(Index) /\ queue' \in Seq(Index) /\ seen' \in Seq(Snapshot)
      /\ Len(log') = n + 1 /\ Len(queue') = Len(queue) - 1 /\ Len(seen') = n + 1
  <2> HIDE DEF snap
  <2> QED BY <1>1, <1>2, <1>4, <1>5
<1>7. \A k \in 1 .. Len(log') : log'[k] = k
  BY <1>1, <1>2, <1>4, <1>6 DEF SimInv
<1>8. \A k \in 1 .. Len(queue') : queue'[k] = Len(log') + k
  <2>1. \A k \in 1 .. Len(queue') : queue'[k] = queue[k + 1] /\ k + 1 \in 1 .. Len(queue)
    BY <1>1, <1>4, <1>6
  <2>2. \A k \in 1 .. Len(queue) : queue[k] = n + k
    BY DEF SimInv
  <2> SUFFICES ASSUME NEW k \in 1 .. Len(queue')
               PROVE  queue'[k] = Len(log') + k
    OBVIOUS
  <2>3. queue'[k] = n + (k + 1)
    BY <2>1, <2>2
  <2> QED BY <1>1, <1>6, <2>3
<1>9. mem' \in [Addr -> Index \union {0}]
  BY <1>2, <1>4 DEF SimInv
<1>10. \A a \in Addr : LastWriter(mem'[a], n + 1, a)
  <2> SUFFICES ASSUME NEW a \in Addr
               PROVE  LastWriter(mem'[a], n + 1, a)
    OBVIOUS
  <2>1. LastWriter(mem[a], n, a)
    BY DEF SimInv
  <2> QED BY <1>1, <1>2, <1>4, <2>1, LastWriterStep
<1>11. ASSUME NEW k \in 1 .. n + 1
       PROVE  /\ seen'[k] \in [Reads(prog[k]) -> Index \union {0}]
              /\ \A a \in Reads(prog[k]) : LastWriter(seen'[k][a], k - 1, a)
  <2>1. CASE k = n + 1
    <3>1. seen'[k] = snap
      <4> HIDE DEF snap
      <4> QED BY <1>1, <1>4, <1>5, <2>1
    <3>2. k - 1 = Len(log) /\ k = i
      BY <1>1, <1>2, <2>1
    <3>3. \A a \in Reads(prog[k]) : LastWriter(mem[a], k - 1, a)
      BY <1>3, <3>2 DEF SimInv
    <3> QED BY <1>2, <1>5, <2>1, <3>1, <3>2, <3>3
  <2>2. CASE k # n + 1
    <3>1. k \in 1 .. n
      BY <1>1, <2>2
    <3>2. seen'[k] = seen[k]
      <4> HIDE DEF snap
      <4> QED BY <1>1, <1>4, <1>5, <3>1
    <3> QED BY <3>1, <3>2 DEF SimInv
  <2> QED BY <2>1, <2>2
<1>12. n + 1 = Len(log)' /\ Index' = Index /\ Snapshot' = Snapshot
  BY <1>4, <1>6, TraceFixed
<1>13. \A a \in Addr : LastWriter(mem[a], Len(log), a)'
  BY <1>4, <1>10, <1>12 DEF LastWriter
<1>14. \A k \in 1 .. Len(log') :
         /\ seen'[k] \in [Reads(prog[k]) -> Index \union {0}]'
         /\ \A a \in Reads(prog'[k]) : LastWriter(seen[k][a], k - 1, a)'
  BY <1>4, <1>6, <1>11, <1>12 DEF LastWriter
<1>15. Len(log') + Len(queue') = Len(prog') /\ Len(seen') = Len(log')
  BY <1>1, <1>4, <1>6
<1>16. /\ log' \in Seq(Index') /\ queue' \in Seq(Index') /\ seen' \in Seq(Snapshot')
       /\ mem' \in [Addr -> Index' \union {0}]
  BY <1>6, <1>9, <1>12
<1>17. Len(log') + Len(queue') <= Len(prog')
  BY <1>1, <1>4, <1>15
<1> HIDE DEF n, i, snap
<1> QED BY <1>7, <1>8, <1>13, <1>14, <1>15, <1>16, <1>17 DEF SimInv

-----------------------------------------------------------------------------
(* The device.                                                             *)

\* An instruction that is started and not fenced off runs beside every other
\* instruction that is not fenced off: no SYNC lies between the two.
LEMMA BesideUnfenced ==
  ASSUME prog \in Programs, NpuInv, NEW i \in Index, NEW j \in Index, i < j, j < next,
         status[i] # "done"
  PROVE  Unfenced(i, j)
<1> SUFFICES ASSUME NEW s \in i .. j, IsSync(s)
             PROVE  FALSE
  BY DEF Unfenced
<1>1. Len(prog) \in Nat /\ next \in Int
  BY ProgFacts DEF NpuInv, NpuType
<1>2. s \in Index /\ s < next /\ i \in 1 .. s
  BY <1>1 DEF Index
<1> QED BY <1>2 DEF NpuInv, FenceInv

\* What Fetch and Finish start from.
LEMMA StartedFacts ==
  ASSUME prog \in Programs, NpuInv, NEW i \in Index, status[i] \in {"issued", "running"}
  PROVE  i < next /\ next \in Int /\ Len(prog) \in Nat /\ Index = 1 .. Len(prog)
BY ProgFacts DEF NpuInv, NpuType, IssueInv, Index

\* Reading the operands: at this moment the last finished writer of an operand
\* is its last writer in program order.
LEMMA FetchSees ==
  ASSUME prog \in Programs, NpuInv, HazardFree, NEW i \in Index,
         status[i] = "issued", NEW a \in Reads(prog[i])
  PROVE  LastWriter(cells[a], i - 1, a)
<1> DEFINE w == cells[a]
<1>1. /\ i < next /\ next \in Int /\ Len(prog) \in Nat /\ Index = 1 .. Len(prog)
      /\ a \in Addr /\ w \in Index \union {0}
      /\ \A j \in Index : status[j] # "waiting" => j < next
  BY StartedFacts, ProgFacts DEF NpuInv, NpuType, IssueInv
<1>2. /\ w # 0 => status[w] = "done" /\ a \in Writes(prog[w])
      /\ \A j \in Index : status[j] = "done" /\ a \in Writes(prog[j]) => j <= w
  BY <1>1 DEF NpuInv, CellsInv
<1>3. w < i
  <2>1. ASSUME w > i PROVE FALSE
    <3>1. w \in Index /\ status[w] = "done" /\ a \in Writes(prog[w]) /\ w < next
      BY <1>1, <1>2, <2>1
    <3>2. Unfenced(i, w)
      BY <2>1, <3>1, BesideUnfenced
    <3> QED BY <2>1, <3>1, <3>2 DEF HazardFree, Collide
  <2>2. w # i
    BY <1>1, <1>2
  <2> QED BY <1>1, <2>1, <2>2
<1>4. ASSUME NEW j \in 1 .. i - 1, a \in Writes(prog[j])
      PROVE  j <= w
  <2>1. j \in Index /\ j < i
    BY <1>1
  <2>2. status[j] = "done"
    <3>1. ASSUME status[j] # "done" PROVE FALSE
      <4>1. Unfenced(j, i)
        BY <1>1, <2>1, <3>1, BesideUnfenced
      <4> QED BY <1>4, <2>1, <4>1 DEF HazardFree, Collide
    <3> QED BY <3>1
  <2> QED BY <1>2, <1>4, <2>1, <2>2
<1>5. w \in 0 .. i - 1
  BY <1>1, <1>3
<1> QED BY <1>2, <1>4, <1>5 DEF LastWriter

\* Issue and Fence touch neither memory nor what has been read.
LEMMA AdvanceInv ==
  ASSUME prog \in Programs, NpuInv, Issue \/ Fence, UNCHANGED prog
  PROVE  NpuInv'
<1>1. /\ next \in Index /\ next \in Nat \ {0} /\ Len(prog) \in Nat /\ Index = 1 .. Len(prog)
      /\ status \in [Index -> Status] /\ status[next] = "waiting"
      /\ prog' = prog /\ next' = next + 1 /\ cells' = cells /\ obs' = obs
      /\ Index' = Index /\ Snapshot' = Snapshot
  BY ProgFacts, TraceFixed DEF NpuInv, NpuType, IssueInv, Issue, Fence, Index
<1>2. PICK st \in {"issued", "done"} :
        /\ status' = [status EXCEPT ![next] = st]
        /\ st = "issued" => ~IsSync(next)
        /\ st = "done" => IsSync(next) /\ \A i \in 1 .. next - 1 : status[i] = "done"
  BY DEF Issue, Fence
<1>3. \A i \in Index : status'[i] = IF i = next THEN st ELSE status[i]
  BY <1>1, <1>2
<1>4. NpuType'
  <2>1. status' \in [Index -> Status]
    BY <1>1, <1>2 DEF Status
  <2> QED BY <1>1, <1>2, <1>3, <2>1 DEF NpuInv, NpuType
<1>5. IssueInv'
  BY <1>1, <1>2, <1>3 DEF NpuInv, IssueInv
<1>6. FenceInv'
  <2> SUFFICES ASSUME NEW s \in Index, s < next + 1, IsSync(s), NEW j \in 1 .. s
               PROVE  status'[j] = "done"
    BY <1>1, TraceFixed DEF FenceInv
  <2>1. j \in Index
    BY <1>1
  <2>2. CASE s = next
    BY <1>1, <1>2, <1>3, <2>1, <2>2
  <2>3. CASE s # next
    BY <1>1, <1>3, <2>1, <2>3 DEF NpuInv, FenceInv
  <2> QED BY <2>2, <2>3
<1>7. IsSync(next) => Writes(prog[next]) = {} /\ Reads(prog[next]) = {}
  BY DEF IsSync, Writes, Reads
<1>8. ASSUME HazardFree
      PROVE  CellsInv' /\ ObsInv'
  <2>1. CellsInv /\ ObsInv
    BY <1>8 DEF NpuInv
  <2>2. CellsInv'
    <3> SUFFICES ASSUME NEW a \in Addr
                 PROVE  /\ cells[a] # 0 => status'[cells[a]] = "done"
                                           /\ a \in Writes(prog[cells[a]])
                        /\ \A j \in Index : status'[j] = "done" /\ a \in Writes(prog[j])
                                              => j <= cells[a]
      BY <1>1 DEF CellsInv
    <3>1. cells[a] \in Index \union {0}
      BY DEF NpuInv, NpuType
    <3>2. cells[a] # 0 => status[cells[a]] = "done" /\ cells[a] # next
      BY <1>1, <2>1 DEF CellsInv
    <3> QED BY <1>1, <1>2, <1>3, <1>7, <2>1, <3>1, <3>2 DEF CellsInv
  <2>3. ObsInv'
    <3> SUFFICES ASSUME NEW i \in Index, status'[i] \in {"running", "done"}
                 PROVE  /\ obs[i] \in [Reads(prog[i]) -> Index \union {0}]
                        /\ \A a \in Reads(prog[i]) : LastWriter(obs[i][a], i - 1, a)
      BY <1>1, TraceFixed DEF ObsInv, Begun, LastWriter
    <3>1. CASE i = next
      <4>1. Reads(prog[i]) = {} /\ obs[i] = NothingRead
        BY <1>1, <1>2, <1>3, <1>7, <3>1 DEF NpuInv, NpuType
      <4> QED BY <4>1 DEF NothingRead
    <3>2. CASE i # next
      BY <1>1, <1>3, <2>1, <3>2 DEF ObsInv, Begun
    <3> QED BY <3>1, <3>2
  <2> QED BY <2>2, <2>3
<1> QED BY <1>1, <1>4, <1>5, <1>6, <1>8, TraceFixed DEF NpuInv

\* Fetch records the last writers in program order.
LEMMA FetchInv ==
  ASSUME prog \in Programs, NpuInv, NEW i \in Index, Fetch(i), UNCHANGED prog
  PROVE  NpuInv'
<1> DEFINE snap == [a \in Reads(prog[i]) |-> cells[a]]
<1>1. /\ status[i] = "issued" /\ prog' = prog /\ next' = next /\ cells' = cells
      /\ status \in [Index -> Status]
      /\ status' = [status EXCEPT ![i] = "running"] /\ obs' = [obs EXCEPT ![i] = snap]
      /\ Index' = Index /\ Snapshot' = Snapshot /\ Reads(prog[i]) \subseteq Addr
  BY ProgFacts, TraceFixed DEF Fetch, NpuInv, NpuType
<1>2. \A j \in Index : status'[j] = IF j = i THEN "running" ELSE status[j]
  BY <1>1
<1>3. snap \in [Reads(prog[i]) -> Index \union {0}] /\ snap \in Snapshot
  <2>1. snap \in [Reads(prog[i]) -> Index \union {0}]
    BY <1>1 DEF NpuInv, NpuType
  <2> QED BY <2>1 DEF Snapshot
<1> HIDE DEF snap
<1>4. \A j \in Index : obs'[j] = IF j = i THEN snap ELSE obs[j]
  BY <1>1 DEF NpuInv, NpuType
<1>5. NpuType'
  <2>1. status' \in [Index -> Status]
    BY <1>1 DEF Status
  <2>2. obs' \in [Index -> Snapshot \union {NothingRead}]
    BY <1>1, <1>3 DEF NpuInv, NpuType
  <2>3. \A j \in Index : status'[j] = "waiting" => obs'[j] = NothingRead
    BY <1>2, <1>4 DEF NpuInv, NpuType
  <2> QED BY <1>1, <2>1, <2>2, <2>3 DEF NpuInv, NpuType
<1>6. IssueInv'
  BY <1>1, <1>2 DEF NpuInv, IssueInv
<1>7. FenceInv'
  <2> SUFFICES ASSUME NEW s \in Index, s < next, IsSync(s), NEW j \in 1 .. s
               PROVE  status'[j] = "done"
    BY <1>1, TraceFixed DEF FenceInv
  <2>1. status[j] = "done"
    BY DEF NpuInv, FenceInv
  <2>2. j \in Index
    BY ProgFacts DEF Index
  <2> QED BY <1>1, <1>2, <2>1, <2>2
<1>8. ASSUME HazardFree
      PROVE  CellsInv' /\ ObsInv'
  <2>1. CellsInv /\ ObsInv
    BY <1>8 DEF NpuInv
  <2>2. CellsInv'
    <3> SUFFICES ASSUME NEW a \in Addr
                 PROVE  /\ cells[a] # 0 => status'[cells[a]] = "done"
                                           /\ a \in Writes(prog[cells[a]])
                        /\ \A j \in Index : status'[j] = "done" /\ a \in Writes(prog[j])
                                              => j <= cells[a]
      BY <1>1 DEF CellsInv
    <3>1. cells[a] \in Index \union {0}
      BY DEF NpuInv, NpuType
    <3> QED BY <1>1, <1>2, <2>1, <3>1 DEF CellsInv
  <2>3. ObsInv'
    <3> SUFFICES ASSUME NEW j \in Index, status'[j] \in {"running", "done"}
                 PROVE  /\ obs'[j] \in [Reads(prog[j]) -> Index \union {0}]
                        /\ \A a \in Reads(prog[j]) : LastWriter(obs'[j][a], j - 1, a)
      BY <1>1, TraceFixed DEF ObsInv, Begun, LastWriter
    <3>1. CASE j = i
      <4>1. \A a \in Reads(prog[i]) : snap[a] = cells[a]
        BY DEF snap
      <4>2. \A a \in Reads(prog[i]) : LastWriter(cells[a], i - 1, a)
        BY <1>1, <1>8, FetchSees
      <4> QED BY <1>3, <1>4, <3>1, <4>1, <4>2
    <3>2. CASE j # i
      BY <1>2, <1>4, <2>1, <3>2 DEF ObsInv, Begun
    <3> QED BY <3>1, <3>2
  <2> QED BY <2>2, <2>3
<1> QED BY <1>1, <1>5, <1>6, <1>7, <1>8, TraceFixed DEF NpuInv

\* Finish writes over what earlier instructions wrote and, by hazard freedom,
\* over nothing a later one did.
LEMMA FinishInv ==
  ASSUME prog \in Programs, NpuInv, NEW i \in Index, Finish(i), UNCHANGED prog
  PROVE  NpuInv'
<1>1. /\ status[i] = "running" /\ prog' = prog /\ next' = next /\ obs' = obs
      /\ status \in [Index -> Status] /\ status' = [status EXCEPT ![i] = "done"]
      /\ cells' = [a \in Addr |-> IF a \in Writes(prog[i]) THEN i ELSE cells[a]]
      /\ Index' = Index /\ Snapshot' = Snapshot
  BY TraceFixed DEF Finish, NpuInv, NpuType
<1>2. \A j \in Index : status'[j] = IF j = i THEN "done" ELSE status[j]
  BY <1>1
<1>3. NpuType'
  <2>1. status' \in [Index -> Status]
    BY <1>1 DEF Status
  <2>2. cells' \in [Addr -> Index \union {0}]
    BY <1>1 DEF NpuInv, NpuType
  <2>3. \A j \in Index : status'[j] = "waiting" => obs[j] = NothingRead
    BY <1>2 DEF NpuInv, NpuType
  <2> QED BY <1>1, <2>1, <2>2, <2>3 DEF NpuInv, NpuType
<1>4. IssueInv'
  BY <1>1, <1>2 DEF NpuInv, IssueInv
<1>5. FenceInv'
  <2> SUFFICES ASSUME NEW s \in Index, s < next, IsSync(s), NEW j \in 1 .. s
               PROVE  status'[j] = "done"
    BY <1>1, TraceFixed DEF FenceInv
  <2>1. status[j] = "done"
    BY DEF NpuInv, FenceInv
  <2>2. j \in Index
    BY ProgFacts DEF Index
  <2> QED BY <1>2, <2>1, <2>2
<1>6. ASSUME HazardFree
      PROVE  CellsInv' /\ ObsInv'
  <2>1. CellsInv /\ ObsInv
    BY <1>6 DEF NpuInv
  <2>2. ASSUME NEW j \in Index, status[j] = "done", j > i
        PROVE  Writes(prog[i]) \intersect Writes(prog[j]) = {}
    <3>1. j < next
      BY <2>2 DEF NpuInv, IssueInv
    <3>2. Unfenced(i, j)
      BY <1>1, <2>2, <3>1, BesideUnfenced
    <3> QED BY <1>6, <2>2, <3>2 DEF HazardFree, Collide
  <2>3. CellsInv'
    <3> SUFFICES ASSUME NEW a \in Addr
                 PROVE  /\ cells'[a] # 0 => status'[cells'[a]] = "done"
                                           /\ a \in Writes(prog[cells'[a]])
                        /\ \A j \in Index : status'[j] = "done" /\ a \in Writes(prog[j])
                                              => j <= cells'[a]
      BY <1>1 DEF CellsInv
    <3>1. cells[a] \in Index \union {0} /\ Index \subseteq Int
      BY ProgFacts DEF NpuInv, NpuType, Index
    <3>2. CASE a \in Writes(prog[i])
      <4>1. cells'[a] = i
        BY <1>1, <3>2
      <4>2. \A j \in Index : status[j] = "done" /\ a \in Writes(prog[j]) => j <= i
        BY <2>2, <3>1, <3>2
      <4> QED BY <1>2, <3>1, <3>2, <4>1, <4>2
    <3>3. CASE a \notin Writes(prog[i])
      <4>1. cells'[a] = cells[a]
        BY <1>1, <3>3
      <4> QED BY <1>1, <1>2, <2>1, <3>1, <3>3, <4>1 DEF CellsInv
    <3> QED BY <3>2, <3>3
  <2>4. ObsInv'
    <3> SUFFICES ASSUME NEW j \in Index, status'[j] \in {"running", "done"}
                 PROVE  /\ obs[j] \in [Reads(prog[j]) -> Index \union {0}]
                        /\ \A a \in Reads(prog[j]) : LastWriter(obs[j][a], j - 1, a)
      BY <1>1, TraceFixed DEF ObsInv, Begun, LastWriter
    <3> QED BY <1>1, <1>2, <2>1 DEF ObsInv, Begun
  <2> QED BY <2>3, <2>4
<1> QED BY <1>1, <1>3, <1>4, <1>5, <1>6, TraceFixed DEF NpuInv

-----------------------------------------------------------------------------
(* The composition.                                                        *)

\* The invariants say nothing but about the variables of their component.
LEMMA CheckInvStutter ==
  ASSUME CheckInv, UNCHANGED <<prog, checkVars>>
  PROVE  CheckInv'
BY TraceFixed DEF CheckInv, checkVars, Access

\* As above, for the simulator.
LEMMA SimInvStutter ==
  ASSUME SimInv, UNCHANGED <<prog, simVars>>
  PROVE  SimInv'
BY TraceFixed DEF SimInv, simVars, LastWriter

\* As above, for the device.
LEMMA NpuInvStutter ==
  ASSUME NpuInv, UNCHANGED <<prog, npuVars>>
  PROVE  NpuInv'
<1>1. NpuType' /\ IssueInv' /\ FenceInv'
  BY TraceFixed DEF NpuInv, NpuType, IssueInv, FenceInv, npuVars
<1>2. HazardFree => CellsInv' /\ ObsInv'
  BY TraceFixed DEF NpuInv, CellsInv, ObsInv, npuVars, Begun, LastWriter
<1> QED BY <1>1, <1>2, TraceFixed DEF NpuInv

\* The inductive invariant holds before anything is scanned, pushed or issued.
LEMMA InitInv == Init => IInv
<1> SUFFICES ASSUME Init PROVE IInv
  OBVIOUS
<1>1. /\ prog \in Programs /\ Len(prog) \in Nat /\ Index = 1 .. Len(prog)
      /\ cursor = 1 /\ active = {} /\ violations = {}
      /\ queue = <<>> /\ log = <<>> /\ seen = <<>> /\ mem = [a \in Addr |-> 0]
      /\ next = 1 /\ status = [i \in Index |-> "waiting"]
      /\ cells = [a \in Addr |-> 0] /\ obs = [i \in Index |-> NothingRead]
  BY ProgFacts DEF Init, CheckInit, SimInit, NpuInit, Index
<1>2. CheckInv
  <2>1. Open(cursor) = {} /\ Hazards(cursor - 1) = {}
    BY <1>1 DEF Open, Hazards
  <2> QED BY <1>1, <2>1 DEF CheckInv
<1>3. SimInv
  BY <1>1 DEF SimInv, LastWriter
<1>4. NpuInv
  <2>1. NpuType /\ IssueInv /\ FenceInv
    BY <1>1 DEF NpuType, IssueInv, FenceInv, Status
  <2>2. CellsInv /\ ObsInv
    BY <1>1 DEF CellsInv, ObsInv, Begun
  <2> QED BY <2>1, <2>2 DEF NpuInv
<1> QED BY <1>1, <1>2, <1>3, <1>4 DEF IInv

\* Every step of every component keeps it.
LEMMA StepInv == IInv /\ [Next]_vars => IInv'
<1> SUFFICES ASSUME IInv, [Next]_vars PROVE IInv'
  OBVIOUS
<1>1. prog \in Programs /\ CheckInv /\ SimInv /\ NpuInv /\ (next > 1 => SimDone /\ Scanned)
  BY DEF IInv
<1>2. CASE Check
  <2>1. CheckInv'
    BY <1>1, <1>2, ScanSyncInv, ScanInstrInv DEF Check, CheckNext
  <2>2. SimInv' /\ NpuInv'
    BY <1>1, <1>2, SimInvStutter, NpuInvStutter DEF Check
  <2>3. ~Scanned
    BY <1>2 DEF Check, CheckNext, ScanSync, ScanInstr
  <2>4. prog' = prog /\ next' = next
    BY <1>2 DEF Check, npuVars
  <2> QED BY <1>1, <2>1, <2>2, <2>3, <2>4 DEF IInv
<1>3. CASE Simulate
  <2>1. SimInv'
    BY <1>1, <1>3, PushInv, RunStepInv DEF Simulate, SimNext
  <2>2. CheckInv' /\ NpuInv'
    BY <1>1, <1>3, CheckInvStutter, NpuInvStutter DEF Simulate
  <2>3. ~SimDone
    BY <1>3 DEF Simulate, SimNext, Push, RunStep, SimDone
  <2>4. prog' = prog /\ next' = next
    BY <1>3 DEF Simulate, npuVars
  <2> QED BY <1>1, <2>1, <2>2, <2>3, <2>4 DEF IInv
<1>4. CASE Execute
  <2>1. NpuInv'
    BY <1>1, <1>4, AdvanceInv, FetchInv, FinishInv DEF Execute, NpuNext
  <2>2. CheckInv' /\ SimInv'
    BY <1>1, <1>4, CheckInvStutter, SimInvStutter DEF Execute
  <2>3. prog' = prog /\ SimDone' /\ Scanned'
    BY <1>4 DEF Execute, SimDone, Loaded, Scanned, simVars, checkVars
  <2> QED BY <1>1, <2>1, <2>2, <2>3 DEF IInv
<1>5. CASE UNCHANGED vars
  <2>1. CheckInv' /\ SimInv' /\ NpuInv'
    BY <1>1, <1>5, CheckInvStutter, SimInvStutter, NpuInvStutter DEF vars
  <2>2. prog' = prog /\ next' = next /\ (SimDone => SimDone') /\ (Scanned => Scanned')
    BY <1>5 DEF vars, npuVars, simVars, checkVars, SimDone, Loaded, Scanned
  <2> QED BY <1>1, <2>1, <2>2 DEF IInv
<1> QED BY <1>2, <1>3, <1>4, <1>5 DEF Next, Finished

\* The inductive invariant holds throughout.
THEOREM Invariance == Spec => []IInv
<1> QED BY InitInv, StepInv, PTL DEF Spec

-----------------------------------------------------------------------------
(* What it implies.                                                        *)

\* The state stays in its ranges.
THEOREM TypeCorrect == Spec => []TypeOK
<1>1. IInv => TypeOK
  <2> SUFFICES ASSUME IInv PROVE TypeOK
    OBVIOUS
  <2>1. Len(prog) \in Nat /\ Index = 1 .. Len(prog) /\ prog \in Programs
    BY ProgFacts DEF IInv, Index
  <2>2. active \subseteq [index : Index, kind : {"read", "write"}, ranges : SUBSET (Int \X Int)]
    <3>1. \A j \in Open(cursor) : j \in Index
      BY <2>1 DEF IInv, CheckInv, Open
    <3>2. \A j \in Index : /\ CheckedReads(prog[j]) \in SUBSET (Int \X Int)
                          /\ CheckedWrites(prog[j]) \in SUBSET (Int \X Int)
      BY <2>1, ProgFacts, RangesTyped
    <3> QED BY <3>1, <3>2 DEF IInv, CheckInv, Access
  <2>3. violations \subseteq Index \X {"RAW", "WAR", "WAW"} \X Index
    BY <2>1 DEF IInv, CheckInv, Hazards
  <2>4. cursor \in 1 .. Len(prog) + 1 /\ queue \in Seq(Index) /\ log \in Seq(Index)
        /\ mem \in [Addr -> Index \union {0}]
    BY DEF IInv, CheckInv, SimInv
  <2>5. /\ next \in 1 .. Len(prog) + 1 /\ status \in [Index -> Status]
        /\ cells \in [Addr -> Index \union {0}] /\ DOMAIN obs = Index
    BY DEF IInv, NpuInv, NpuType
  <2> QED BY <2>1, <2>2, <2>3, <2>4, <2>5 DEF TypeOK
<1> QED BY <1>1, Invariance, PTL

\* Covered and filled intervals are the cells.
LEMMA SameCells ==
  ASSUME NEW C, NEW ranges, C \subseteq Int, ranges \subseteq Int \X Int,
         Covered(C, ranges), Filled(C, ranges)
  PROVE  C = CellsOf(ranges)
<1>1. CellsOf(ranges) \subseteq C
  BY DEF CellsOf, Filled
<1>2. ASSUME NEW x \in C
      PROVE  x \in CellsOf(ranges)
  <2>1. PICK r \in ranges : r[1] <= x /\ x < r[2]
    BY DEF Covered
  <2>2. r[1] \in Int /\ r[2] \in Int /\ x \in Int
    OBVIOUS
  <2>3. x \in r[1] .. r[2] - 1
    BY <2>1, <2>2
  <2> QED BY <2>3 DEF CellsOf
<1> QED BY <1>1, <1>2

\* The intervals parse_instruction derives from a line are the cells the exec
\* function touches, no fewer and no more, for descriptors of any shape: the
\* gaps between the rows of a tile, both layouts of a MATMUL operand and every
\* period of a broadcast included.
THEOREM CheckerSeesCells == Spec => []CheckerSeesTheCells
<1>1. IInv => CheckerSeesTheCells
  <2> SUFFICES ASSUME IInv, NEW i \in Index, NonEmptyShape(prog[i])
               PROVE  /\ Reads(prog[i]) = CellsOf(CheckedReads(prog[i]))
                      /\ Writes(prog[i]) = CellsOf(CheckedWrites(prog[i]))
    BY DEF CheckerSeesTheCells
  <2> DEFINE d == prog[i]
  <2>1. d \in Instr /\ Reads(d) \subseteq Int /\ Writes(d) \subseteq Int
    BY ProgFacts DEF IInv
  <2>2. NonEmptyShape(d)
    OBVIOUS
  <2> HIDE DEF d
  <2>3. CheckedReads(d) \subseteq Int \X Int /\ CheckedWrites(d) \subseteq Int \X Int
    BY <2>1, RangesTyped
  <2>4. Covered(Reads(d), CheckedReads(d)) /\ Covered(Writes(d), CheckedWrites(d))
    BY <2>1, CheckerCoversCModel
  <2>5. Filled(Reads(d), CheckedReads(d)) /\ Filled(Writes(d), CheckedWrites(d))
    BY <2>1, <2>2, CheckerCoversNoMore
  <2>6. Reads(d) = CellsOf(CheckedReads(d)) /\ Writes(d) = CellsOf(CheckedWrites(d))
    BY <2>1, <2>3, <2>4, <2>5, SameCells
  <2> QED BY <2>6 DEF d
<1> QED BY <1>1, Invariance, PTL

\* hazard_check.py reports exactly the unfenced overlapping pairs.
THEOREM CheckerExact == Spec => []CheckerIsExact
<1>1. IInv => CheckerIsExact
  BY ProgFacts DEF IInv, CheckInv, CheckerIsExact, Scanned
<1> QED BY <1>1, Invariance, PTL

\* Behind a fence nothing starts before everything ahead of it is finished.
THEOREM FenceCorrect == Spec => []FenceSeparates
<1>1. IInv => FenceSeparates
  <2> SUFFICES ASSUME IInv, NEW i \in Index, status[i] # "waiting",
                      NEW s \in 1 .. i - 1, IsSync(s)
               PROVE  \A j \in 1 .. s : status[j] = "done"
    BY DEF FenceSeparates
  <2>1. i < next /\ next \in Int /\ Len(prog) \in Nat /\ Index = 1 .. Len(prog)
    BY ProgFacts DEF IInv, NpuInv, NpuType, IssueInv, Index
  <2>2. s \in Index /\ s < next
    BY <2>1
  <2> QED BY <2>2 DEF IInv, NpuInv, FenceInv
<1> QED BY <1>1, Invariance, PTL

\* A trace called clean reads the same on the device as on the cmodel.
THEOREM CleanReads == Spec => []CleanTraceReadsTheSame
<1>1. IInv => CleanTraceReadsTheSame
  <2> SUFFICES ASSUME IInv, Clean, NEW i \in Index, status[i] \in {"running", "done"}
               PROVE  obs[i] = seen[i]
    BY DEF CleanTraceReadsTheSame
  <2>1. HazardFree
    BY CleanMeansHazardFree DEF IInv
  <2>2. /\ obs[i] \in [Reads(prog[i]) -> Index \union {0}]
        /\ \A a \in Reads(prog[i]) : LastWriter(obs[i][a], i - 1, a)
    BY <2>1 DEF IInv, NpuInv, ObsInv, Begun
  <2>3. i < next /\ next \in Int /\ Index = 1 .. Len(prog) /\ Len(prog) \in Nat
    BY ProgFacts DEF IInv, NpuInv, NpuType, IssueInv, Index
  <2>4. Len(log) = Len(prog)
    BY <2>3 DEF IInv, SimInv, SimDone, Loaded
  <2>5. /\ seen[i] \in [Reads(prog[i]) -> Index \union {0}]
        /\ \A a \in Reads(prog[i]) : LastWriter(seen[i][a], i - 1, a)
    BY <2>3, <2>4 DEF IInv, SimInv
  <2>6. \A a \in Reads(prog[i]) : obs[i][a] = seen[i][a]
    BY <2>2, <2>3, <2>5, LastWriterUnique
  <2> QED BY <2>2, <2>5, <2>6
<1> QED BY <1>1, Invariance, PTL

\* ... and leaves the same memory.
THEOREM CleanMemory == Spec => []CleanTraceLeavesTheSame
<1>1. IInv => CleanTraceLeavesTheSame
  <2> SUFFICES ASSUME IInv, Clean, NpuDone
               PROVE  cells = mem
    BY DEF CleanTraceLeavesTheSame
  <2>1. CellsInv
    BY CleanMeansHazardFree DEF IInv, NpuInv
  <2>2. /\ Len(prog) \in Nat /\ Index = 1 .. Len(prog)
        /\ cells \in [Addr -> Index \union {0}] /\ mem \in [Addr -> Index \union {0}]
    BY ProgFacts DEF IInv, NpuInv, NpuType, SimInv, Index
  <2>3. CASE Len(prog) = 0
    BY <2>2, <2>3 DEF IInv, NpuInv, SimInv
  <2>4. CASE Len(prog) # 0
    <3>1. Len(log) = Len(prog)
      BY <2>2, <2>4 DEF IInv, SimInv, SimDone, Loaded, NpuDone
    <3>2. \A a \in Addr : LastWriter(mem[a], Len(prog), a)
      BY <3>1 DEF IInv, SimInv
    <3>3. \A a \in Addr : LastWriter(cells[a], Len(prog), a)
      BY <2>1, <2>2 DEF CellsInv, LastWriter, NpuDone
    <3>4. \A a \in Addr : cells[a] = mem[a]
      BY <2>2, <3>2, <3>3, LastWriterUnique
    <3> QED BY <2>2, <3>4
  <2> QED BY <2>3, <2>4
<1> QED BY <1>1, Invariance, PTL
=============================================================================
