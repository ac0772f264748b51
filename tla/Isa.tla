-------------------------------- MODULE Isa --------------------------------
(***************************************************************************)
(* The instruction set as the compiler emits it, and the memory each       *)
(* instruction touches, twice: as the exec functions of the cmodel touch   *)
(* it (Reads, Writes) and as tools/hazard_check.py believes it does        *)
(* (CheckedReads, CheckedWrites).                                          *)
(*                                                                         *)
(* An address is a number of 16-bit elements: the whole ISA moves elements *)
(* of DTYPE_SIZE = 2 bytes and every stride the emitters print is a        *)
(* multiple of it.  The u32 index of REDUCE_ARGMAX takes two elements.     *)
(* SRAM and DDR are disjoint ranges of one 32-bit address space.           *)
(***************************************************************************)
EXTENDS Integers

IdxElems == 2       \* sizeof(uint32_t) / DTYPE_SIZE

-----------------------------------------------------------------------------
(* The descriptors, one record set per parameter struct.                   *)

DmaDesc == [op : {"DMA_LOAD", "DMA_STORE"}, sram : Nat, ddr : Nat,
            rows : Nat, cols : Nat, srcStride : Nat, dstStride : Nat]

MatmulDesc == [op : {"MATMUL"}, dst : Nat, lhs : Nat, rhs : Nat,
               M : Nat, N : Nat, K : Nat, acc : BOOLEAN,
               transA : BOOLEAN, transB : BOOLEAN]

\* emitEwise prints blk = the row width of rhs, which the verifier makes a
\* divisor of cols, and a stride of blk, or 0 for a one-row rhs.
EwiseDesc ==
  {d \in [op : {"EWISE"}, dst : Nat, lhs : Nat, rhs : Nat,
          rows : Nat, cols : Nat, blk : Nat, stride : Nat] :
     d.blk > 0 /\ d.cols % d.blk = 0 /\ d.stride \in {0, d.blk}}

ActDesc == [op : {"ACT"}, dst : Nat, src : Nat, n : Nat]

ReduceDesc == [op : {"REDUCE"}, dst : Nat, idx : Nat, src : Nat,
               rows : Nat, cols : Nat, argmax : BOOLEAN]

SyncDesc == [op : {"SYNC"}]

Instr == DmaDesc \union MatmulDesc \union EwiseDesc \union ActDesc
           \union ReduceDesc \union SyncDesc

-----------------------------------------------------------------------------
(* The cells the exec functions of cmodel_exec.cpp load and store.         *)

Packed(base, n) == {base + i : i \in 0 .. n - 1}

Tile(base, rows, cols, stride) ==
  {base + stride * i + j : i \in 0 .. rows - 1, j \in 0 .. cols - 1}

LhsCells(d) ==
  {d.lhs + (IF d.transA THEN k * d.M + m ELSE m * d.K + k) :
     m \in 0 .. d.M - 1, k \in 0 .. d.K - 1}

RhsCells(d) ==
  {d.rhs + (IF d.transB THEN n * d.K + k ELSE k * d.N + n) :
     n \in 0 .. d.N - 1, k \in 0 .. d.K - 1}

DstCells(d) ==
  {d.dst + (m * d.N + n) : m \in 0 .. d.M - 1, n \in 0 .. d.N - 1}

\* s(i) = (i / cols) * rhsStride + i % rhsBlk
BroadcastCells(d) ==
  {d.rhs + ((i \div d.cols) * d.stride + (i % d.blk)) :
     i \in 0 .. d.rows * d.cols - 1}

RowCells(d) ==
  {d.src + i * d.cols + j : i \in 0 .. d.rows - 1, j \in 0 .. d.cols - 1}

IndexCells(d) ==
  {d.idx + i * IdxElems + h : i \in 0 .. d.rows - 1, h \in 0 .. IdxElems - 1}

Reads(d) ==
  CASE d.op = "DMA_LOAD"  -> Tile(d.ddr, d.rows, d.cols, d.srcStride)
    [] d.op = "DMA_STORE" -> Tile(d.sram, d.rows, d.cols, d.srcStride)
    [] d.op = "MATMUL"    -> LhsCells(d) \union RhsCells(d)
                               \union (IF d.acc THEN DstCells(d) ELSE {})
    [] d.op = "EWISE"     -> Packed(d.lhs, d.rows * d.cols)
                               \union BroadcastCells(d)
    [] d.op = "ACT"       -> Packed(d.src, d.n)
    [] d.op = "REDUCE"    -> RowCells(d)
    [] d.op = "SYNC"      -> {}

Writes(d) ==
  CASE d.op = "DMA_LOAD"  -> Tile(d.sram, d.rows, d.cols, d.dstStride)
    [] d.op = "DMA_STORE" -> Tile(d.ddr, d.rows, d.cols, d.dstStride)
    [] d.op = "MATMUL"    -> DstCells(d)
    [] d.op = "EWISE"     -> Packed(d.dst, d.rows * d.cols)
    [] d.op = "ACT"       -> Packed(d.dst, d.n)
    [] d.op = "REDUCE"    -> Packed(d.dst, d.rows)
                               \union (IF d.argmax THEN IndexCells(d) ELSE {})
    [] d.op = "SYNC"      -> {}

-----------------------------------------------------------------------------
(* The half-open intervals hazard_check.py derives from a line of a trace. *)

Interval(base, n) == {<<base, base + n>>}

TileRanges(base, rows, cols, stride) ==
  {<<base + stride * r, base + stride * r + cols>> : r \in 0 .. rows - 1}

RangesOverlap(A, B) == \E a \in A, b \in B : a[1] < b[2] /\ b[1] < a[2]

\* Mutant: one row of rhs, whatever the stride.
RhsElemsOneRow(d) == d.blk

RhsElems(d) == d.blk * (IF d.stride # 0 THEN d.rows ELSE 1)

CheckedReads(d) ==
  CASE d.op = "DMA_LOAD"  -> TileRanges(d.ddr, d.rows, d.cols, d.srcStride)
    [] d.op = "DMA_STORE" -> TileRanges(d.sram, d.rows, d.cols, d.srcStride)
    [] d.op = "MATMUL"    -> Interval(d.lhs, d.M * d.K)
                               \union Interval(d.rhs, d.K * d.N)
                               \union (IF d.acc THEN Interval(d.dst, d.M * d.N)
                                       ELSE {})
    [] d.op = "EWISE"     -> Interval(d.lhs, d.rows * d.cols)
                               \union Interval(d.rhs, RhsElems(d))
    [] d.op = "ACT"       -> Interval(d.src, d.n)
    [] d.op = "REDUCE"    -> Interval(d.src, d.rows * d.cols)
    [] d.op = "SYNC"      -> {}

\* Mutant: the index words of REDUCE_ARGMAX counted as 16-bit elements.
CheckedWritesShortIndex(d) ==
  IF d.op = "REDUCE"
  THEN Interval(d.dst, d.rows)
         \union (IF d.argmax THEN Interval(d.idx, d.rows) ELSE {})
  ELSE IF d.op = "DMA_LOAD" THEN TileRanges(d.sram, d.rows, d.cols, d.dstStride)
  ELSE IF d.op = "DMA_STORE" THEN TileRanges(d.ddr, d.rows, d.cols, d.dstStride)
  ELSE IF d.op = "MATMUL" THEN Interval(d.dst, d.M * d.N)
  ELSE IF d.op = "EWISE" THEN Interval(d.dst, d.rows * d.cols)
  ELSE IF d.op = "ACT" THEN Interval(d.dst, d.n) ELSE {}

CheckedWrites(d) ==
  CASE d.op = "DMA_LOAD"  -> TileRanges(d.sram, d.rows, d.cols, d.dstStride)
    [] d.op = "DMA_STORE" -> TileRanges(d.ddr, d.rows, d.cols, d.dstStride)
    [] d.op = "MATMUL"    -> Interval(d.dst, d.M * d.N)
    [] d.op = "EWISE"     -> Interval(d.dst, d.rows * d.cols)
    [] d.op = "ACT"       -> Interval(d.dst, d.n)
    [] d.op = "REDUCE"    -> Interval(d.dst, d.rows)
                               \union (IF d.argmax
                                       THEN Interval(d.idx, d.rows * IdxElems)
                                       ELSE {})
    [] d.op = "SYNC"      -> {}

Covered(cells, ranges) == \A x \in cells : \E r \in ranges : r[1] <= x /\ x < r[2]
=============================================================================
