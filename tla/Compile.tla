------------------------------- MODULE Compile -------------------------------
(***************************************************************************)
(* The compiler from a bufferized function to a trace, as Eclipse-compile  *)
(* runs it: convert-linalg-to-eclipse, eclipse-elide-copies, canonicalize  *)
(* (which drops the buffers nobody uses any more), eclipse-allocate and    *)
(* eclipse-to-easm, which unrolls the loops.                               *)
(***************************************************************************)
EXTENDS ElideCopies, EclipseAllocate, Cmodel, FiniteSets

CONSTANT Functions   \* the functions to compile

\* A buffer of rank 1 has as many elements as rows.
Elements(shape) == IF Len(shape) = 1 THEN shape[1] ELSE shape[1] * shape[2]

ASSUME FunctionAssumption ==
  \A f \in Functions :
    /\ Len(f.ops) \in Nat /\ f.ret \subseteq Buffers
    /\ f.from \in 1 .. Len(f.ops) + 1 /\ f.to \in f.from - 1 .. Len(f.ops)
    /\ \A b \in Buffers : f.shape[b] \in Seq(Nat) /\ Len(f.shape[b]) \in 1 .. 2
    /\ \A i \in 1 .. Len(f.ops) :
         /\ f.ops[i].form \in {"named", "reduce", "generic"}
         /\ f.ops[i].ins \in Seq(Buffers) /\ f.ops[i].out \in Buffers
         /\ f.ops[i].form = "named" =>
              /\ f.ops[i].name \in ActFns => Len(f.ops[i].ins) = 1
              /\ f.ops[i].name \in EwiseFns \union {"matmul"} => Len(f.ops[i].ins) = 2
              /\ f.ops[i].name = "matmul" =>
                   LET k == f.shape[f.ops[i].ins[1]][2]
                   IN  k \in Nat \ {0} /\ k % TileK = 0

\* DDR lies above the SRAM, and neither a function's buffers, one stride each,
\* nor a request that a full SRAM cannot serve end beyond 2^32.
ASSUME AddressAssumption ==
  /\ IsFiniteSet(Args) /\ IsFiniteSet(Allocs) /\ Buffers \intersect (Nat \X Nat) = {}
  /\ SramBase + SramSize <= DdrFirst
  /\ \A f \in Functions :
       /\ DdrFirst + (Cardinality(Args) + Cardinality(Allocs) + 3 * Len(f.ops)) * DdrStride < Word
       /\ \A i \in 1 .. Len(f.ops) : \A l \in Accepted(f.shape, f.ops[i]) :
            \A k \in 1 .. Len(l.ins) + 1 :
              SramBase + SramSize + 1 + Elements(SramShapes(f.shape, l)[k]) <= Word

VARIABLE easm  \* the trace, <<>> until it is emitted

compileVars == <<elideVars, allocVars, easm>>

Rows(b) == func.shape[b][1]
Cols(b) == func.shape[b][2]

Size(b) == Elements(func.shape[b])

\* The [rows, cols] of SRAM buffer k of operation i.
SramShape(s) == SramShapes(func.shape, low[s[1]])[s[2]]

SramUsed(o) == CASE o.op \in {"load", "store"} -> {o.sram}
                 [] o.op = "compute" -> {o.dst} \union {o.srcs[k] : k \in DOMAIN o.srcs}
                 [] o.op = "sync" -> {}

NoJob == [args |-> <<>>, allocs |-> <<>>, matmuls |-> {}, layout |-> "bump"]

Init ==
  /\ func \in Functions
  /\ ElideInit
  /\ job = NoJob /\ AllocInit
  /\ easm = <<>>

Elide == ElideNext /\ UNCHANGED <<allocVars, easm>>

-----------------------------------------------------------------------------

UsedBy(list) == UNION {SramUsed(list[n]) : n \in DOMAIN list}

\* canonicalize: an alloc is dropped when no operation, and no return, uses it.
AllocsLeft(list) ==
  LET ids == [x \in 1 .. 3 * Len(func.ops) |-> <<1 + ((x - 1) \div 3), 1 + ((x - 1) % 3)>>]
      sram == Without(ids, {x \in DOMAIN ids : ids[x] \notin UsedBy(list)})
      ddr  == SetToSeq({b \in Allocs : b \in func.ret
                          \/ \E n \in DOMAIN list : list[n].op \in {"load", "store"}
                                                      /\ list[n].buf = b})
  IN  [n \in DOMAIN ddr |-> Alloc(ddr[n], "ddr", Size(ddr[n]), 1)]
        \o [n \in DOMAIN sram |->
              Alloc(sram[n], "sram", Elements(SramShape(sram[n])), 1)]

Canonicalize ==
  /\ phase = "allocate" /\ job = NoJob
  /\ LET args == SetToSeq(Args)
         allocs == AllocsLeft(Remaining)
     IN  /\ job' = [args |-> [n \in DOMAIN args |-> Alloc(args[n], "arg", Size(args[n]), 1)],
                    allocs |-> allocs, matmuls |-> {}, layout |-> "bump"]
         /\ todo' = allocs
  /\ UNCHANGED <<elideVars, stage, next_, curDdr, golden, placed, failed, easm>>

Allocate == job # NoJob /\ AllocStep /\ UNCHANGED <<elideVars, easm>>

-----------------------------------------------------------------------------

AddrOf(b) == (CHOOSE p \in placed : p.buf = b).base

\* Mutant: the rows of a lhs tile are taken to be a tile apart.
EmitLoadPackedStride(o) ==
  LET c == Cols(o.buf)
      Dma(off, rows, cols) ==
        [op |-> "DMA_LOAD", sram |-> AddrOf(o.sram), ddr |-> AddrOf(o.buf) + off,
         rows |-> rows, cols |-> cols, srcStride |-> cols, dstStride |-> cols]
  IN  CASE o.part = "whole" -> Dma(0, Rows(o.buf), c)
        [] o.part = "cols"  -> Dma((o.tile - 1) * TileK, Rows(o.buf), TileK)
        [] o.part = "rows"  -> Dma((o.tile - 1) * TileK * c, TileK, c)

\* A row of the source is as wide as the whole buffer, a row of the tile packed.
EmitLoad(o) ==
  LET c == Cols(o.buf)
      Dma(off, rows, cols) ==
        [op |-> "DMA_LOAD", sram |-> AddrOf(o.sram), ddr |-> AddrOf(o.buf) + off,
         rows |-> rows, cols |-> cols, srcStride |-> c, dstStride |-> cols]
  IN  CASE o.part = "whole" -> Dma(0, Rows(o.buf), c)
        [] o.part = "cols"  -> Dma((o.tile - 1) * TileK, Rows(o.buf), TileK)
        [] o.part = "rows"  -> Dma((o.tile - 1) * TileK * c, TileK, c)

\* The source of a load must be an argument or an alloc: a load of a constant
\* is left out of the trace.
LeftOut(o) == o.op = "load" /\ o.buf \in Globals

EmitStore(o) ==
  LET c == Cols(o.buf)
  IN  [op |-> "DMA_STORE", sram |-> AddrOf(o.sram), ddr |-> AddrOf(o.buf),
       rows |-> Rows(o.buf), cols |-> c, srcStride |-> c, dstStride |-> c]

\* The destination of a store must be an alloc: for an argument or an
\* expand_shape a null AllocOp is dereferenced.
StoresNowhere(o) == o.op = "store" /\ (o.buf \in Args \/ o.part = "expanded")

\* Both print the second dimension of the buffer's shape.  A rank-1 buffer has
\* none: a build with assertions stops here, and so does the model; one without
\* prints what lies behind the shape.
HasNoColumns(o) == o.op \in {"load", "store"} /\ ~LeftOut(o) /\ Len(func.shape[o.buf]) = 1
Unprintable(o) == StoresNowhere(o) \/ HasNoColumns(o)

EmitMatmul(o) ==
  LET lhs == SramShape(o.srcs[1])
  IN  [op |-> "MATMUL", dst |-> AddrOf(o.dst), lhs |-> AddrOf(o.srcs[1]), rhs |-> AddrOf(o.srcs[2]),
       M |-> lhs[1], N |-> SramShape(o.srcs[2])[2], K |-> lhs[2],
       acc |-> o.acc, transA |-> FALSE, transB |-> FALSE]

EmitEwise(o) ==
  LET rhs == SramShape(o.srcs[2])
      dst == SramShape(o.dst)
  IN  [op |-> "EWISE", fn |-> o.fn, dst |-> AddrOf(o.dst), lhs |-> AddrOf(o.srcs[1]), rhs |-> AddrOf(o.srcs[2]),
       rows |-> dst[1], cols |-> dst[2], blk |-> rhs[2],
       stride |-> IF rhs[1] = 1 THEN 0 ELSE rhs[2]]

EmitAct(o) ==
  LET src == SramShape(o.srcs[1])
  IN  [op |-> "ACT", kind |-> o.fn, dst |-> AddrOf(o.dst), src |-> AddrOf(o.srcs[1]),
       n |-> src[1] * src[2]]

\* The lowerings never ask for the index of a maximum.
EmitReduce(o) ==
  LET src == SramShape(o.srcs[1])
  IN  [op |-> "REDUCE", kind |-> o.fn, dst |-> AddrOf(o.dst), idx |-> 0,
       src |-> AddrOf(o.srcs[1]), rows |-> src[1], cols |-> src[2], argmax |-> FALSE]

EmitCompute(o) == CASE o.kind = "matmul" -> EmitMatmul(o)
                    [] o.kind = "ewise"  -> EmitEwise(o)
                    [] o.kind = "act"    -> EmitAct(o)
                    [] o.kind = "reduce" -> EmitReduce(o)

EmitOne(o) == CASE o.op = "load" -> EmitLoad(o)
                [] o.op = "store" -> EmitStore(o)
                [] o.op = "compute" -> EmitCompute(o)
                [] o.op = "sync" -> [op |-> "SYNC"]

\* The code, its loops unrolled, that eclipse-to-easm walks over.
Code == Unrolled(func, Remaining)

ReadyToEmit == phase = "allocate" /\ job # NoJob /\ AllocDone /\ ~failed /\ easm = <<>>

Emit ==
  /\ ReadyToEmit
  /\ \E list \in {Code} :
       LET printed == Without(list, {n \in DOMAIN list : LeftOut(list[n])})
       IN  /\ \A n \in DOMAIN list : ~Unprintable(list[n])
           /\ easm' = [n \in DOMAIN printed |-> EmitOne(printed[n])]
  /\ UNCHANGED <<elideVars, allocVars>>

Crash ==
  /\ ReadyToEmit
  /\ \E n \in DOMAIN Remaining : Unprintable(Remaining[n])
  /\ phase' = "crashed"
  /\ UNCHANGED <<func, low, ir, at, lastStore, matchList, erased, allocVars, easm>>

Stopped ==
  /\ easm # <<>> \/ failed \/ phase \in {"rejected", "crashed"}
  /\ UNCHANGED compileVars

Next == Elide \/ Canonicalize \/ Allocate \/ Emit \/ Crash \/ Stopped

Spec == Init /\ [][Next]_compileVars

-----------------------------------------------------------------------------
(* Reference: the function on matrices, one term per element.  A generic   *)
(* runs its body at every point of its loops, the last loop innermost.     *)

\* The range of loop k of a generic: the extent of a dimension it indexes.
Extent(o, k) ==
  LET bufs == Append(o.ins, o.out)
      use == CHOOSE u \in (1 .. Len(bufs)) \X (1 .. 2) : o.maps[u[1]][u[2]] = Dim(k)
  IN  func.shape[bufs[use[1]]][use[2]]

Points(o) == (0 .. Extent(o, 1) - 1) \X (0 .. Extent(o, 2) - 1)

IndexAt(e, p) == CASE e[1] = "dim"   -> p[e[2]]
                   [] e[1] = "const" -> e[3]
                   [] e[1] = "mod"   -> p[e[2]] % e[3]

\* The element of buffer b that a map selects at point p.
Selected(b, map, p) == IndexAt(map[1], p) * Cols(b) + IndexAt(map[2], p)

GenericElem(mem, o, x) ==
  LET buf(n) == Append(o.ins, o.out)[n]
      Read(n, p) == mem[buf(n)][Selected(buf(n), o.maps[n], p)]
      Operand(t, p) == CASE Len(t) = 0 -> ZeroValue
                         [] Len(t) = 1 -> Read(t[1], p)
                         [] Len(t) = 2 -> Value("mul", Read(t[1], p), Read(t[2], p))
      n == Len(o.ins) + 1
      here == {p \in Points(o) : Selected(o.out, o.maps[n], p) = x}
      p0 == CHOOSE p \in here : TRUE
      combined == IF o.body.x = BlockArg(n) THEN o.body.y ELSE o.body.x
  IN  IF o.iters[2] = "reduction"
      THEN <<IF o.body.fn = "add" THEN "sum" ELSE o.body.fn>>
             \o [j \in 1 .. Extent(o, 2) |-> Operand(combined, <<p0[1], j - 1>>)]
      ELSE Value(o.body.fn, Operand(o.body.x, p0), Operand(o.body.y, p0))

NamedElem(mem, o, x) ==
  LET in(k) == mem[o.ins[k]]
      width(k) == Cols(o.ins[k])
      r == x \div Cols(o.out)
      c == x % Cols(o.out)
  IN  IF o.name = "matmul"
      THEN <<"matmul">> \o
             [t \in 1 .. width(1) \div TileK |-> [k \in 1 .. TileK |->
                LET kk == (t - 1) * TileK + k - 1
                IN  << in(1)[r * width(1) + kk], in(2)[kk * width(2) + c] >>]]
      ELSE IF Len(o.ins) = 2 THEN Value(o.name, in(1)[x], in(2)[x])
      ELSE <<o.name, in(1)[x]>>

ApplyTo(mem, o) ==
  [mem EXCEPT ![o.out] =
     [x \in 0 .. Size(o.out) - 1 |-> IF o.form = "named" THEN NamedElem(mem, o, x)
                                     ELSE GenericElem(mem, o, x)]]

\* What a buffer holds before the function runs.
Given(b, x) == IF b \in Allocs THEN Garbage ELSE <<"given", b, x>>

ReferenceMatrices ==
  LET start == [b \in Buffers |-> [x \in 0 .. Size(b) - 1 |-> Given(b, x)]]
      end == FoldLeft(LAMBDA m, i : ApplyTo(m, func.ops[i]), start, Order(func))
  IN  [b \in func.ret |-> end[b]]

Cell == UNION {{[buf |-> p.buf, off |-> x, addr |-> p.base + x] : x \in 0 .. p.size - 1} :
                 p \in placed}

StartMemory ==
  [a \in {c.addr : c \in Cell} |->
     LET c == CHOOSE d \in Cell : d.addr = a
     IN  IF c.buf \in Args THEN Given(c.buf, c.off) ELSE Garbage]

FinalMemory == ExecAll(StartMemory, easm)

\* The contents of buffer b, or of size elements from address a, in memory.
Contents(mem, a, size) == [x \in 0 .. size - 1 |-> At(mem, a + x)]

TraceResult ==
  LET end == FinalMemory
  IN  [b \in func.ret |-> Contents(end, AddrOf(b), Size(b))]

\* Mutant: the output is taken from the first DMA_STORE.
OutputStoreFirst == CHOOSE n \in DOMAIN easm :
  easm[n].op = "DMA_STORE" /\ \A m \in DOMAIN easm : easm[m].op = "DMA_STORE" => n <= m

\* eclipse-run writes out what the last DMA_STORE of the trace stored to.
OutputStore == CHOOSE n \in DOMAIN easm :
  easm[n].op = "DMA_STORE" /\ \A m \in DOMAIN easm : easm[m].op = "DMA_STORE" => m <= n

OutputFile ==
  LET s == easm[OutputStore]
  IN  Contents(FinalMemory, s.ddr, s.rows * s.cols)

Trace == INSTANCE Stream WITH prog <- easm, Programs <- {}, Addr <- {}

-----------------------------------------------------------------------------

ErasedStores == {k \in erased : ir[k].op = "store"}
ReadInTiles(b) == \E k \in DOMAIN ir : ir[k].op = "load" /\ ir[k].buf = b /\ ir[k].part # "whole"

\* A buffer stored to both as a whole and through an expand_shape is beyond the
\* walk, which remembers the stores of the first kind only.
StoredOneWay ==
  \A j, k \in DOMAIN ir :
    ir[j].op = "store" /\ ir[k].op = "store" /\ ir[j].buf = ir[k].buf => ir[j].part = ir[k].part

\* Replacing a load by the SRAM buffer of the store it was paired with changes
\* no result: nothing can have written the buffer, or that SRAM, in between,
\* across the blocks of a loop included (runOnOperation, lines 73-94).
ElidedLoadsAreRedundant ==
  phase = "rewire" /\ StoredOneWay => Result(func, Remaining) = Reference(func, low)

\* A store that is erased was of a buffer nobody reads afterwards, provided no
\* matmul reads the buffer tile by tile (rootIsDead; see EraseKeepsResults).
ErasedStoresAreDead ==
  phase = "allocate" /\ StoredOneWay /\ (\A k \in ErasedStores : ~ReadInTiles(ir[k].buf))
    => Result(func, Remaining) = Reference(func, low)

\* A chain stays resident: a temporary written once and read as a whole only,
\* in the block that writes it, never touches the DDR.  A reduction to rank 1
\* is no such temporary: its DMA_STORE goes to an expand_shape, which the walk
\* does not connect with the loads of the buffer (getCastSource).
SoleWriter(b, i) == \A j \in 1 .. Len(func.ops) : func.ops[j].out = b <=> j = i
Consumers(b) ==
  {j \in 1 .. Len(func.ops) : \E k \in DOMAIN func.ops[j].ins : func.ops[j].ins[k] = b}
ChainsStayResident ==
  phase = "allocate" =>
    \A i \in 1 .. Len(func.ops) :
      LET b == func.ops[i].out
          left == Remaining
      IN  /\ SoleWriter(b, i) /\ b \notin func.ret /\ Consumers(b) # {}
          /\ ~(low[i].kind = "reduce" /\ Len(func.shape[b]) = 1)
          /\ \A j \in Consumers(b) : /\ j > i /\ low[j].kind # "matmul"
                                     /\ InLoop(func, j) <=> InLoop(func, i)
          => \A n \in DOMAIN left : left[n].op \in {"load", "store"} => left[n].buf # b

\* What the compiler is known to get wrong, each shown by a run of its own:
\* tiles of a buffer whose store is erased, constants (see LeftOut), and a relu
\* whose maps are not the identity (see ActLowering).
ErasedStoreIsRead == \E k \in ErasedStores : ReadInTiles(ir[k].buf)
LoadsConstant == \E k \in DOMAIN ir : LeftOut(ir[k])
ReluIsMapped == \E i \in DOMAIN low : low[i].fn = "relu" /\ func.ops[i].maps # <<Identity, Identity>>
KnownWrong == ErasedStoreIsRead \/ LoadsConstant \/ ReluIsMapped

\* The trace, executed on the cmodel, leaves in every buffer the function
\* returns what the function computes, element by element: the recognised forms
\* of a generic, broadcasts, tiles and strides, the peeled first tile, in-place
\* updates, loops, addresses.
TraceComputesTheFunction ==
  easm # <<>> /\ ~KnownWrong => TraceResult = ReferenceMatrices

\* The file eclipse-run writes is the result of a function that returns one
\* buffer: the last DMA_STORE left by the elision is the one of that buffer, of
\* its full size.
OutputIsTheResult ==
  easm # <<>> /\ ~KnownWrong =>
    \A b \in Buffers : func.ret = {b} => OutputFile = ReferenceMatrices[b]

\* The only unordered accesses of a trace are a DMA_LOAD that reads what an
\* earlier DMA_STORE wrote: the SYNCs of the lowerings order all the others,
\* in unrolled loops and after elision too.
OnlyStoreThenLoadUnfenced ==
  \A i, j \in Trace!Index : i < j /\ Trace!Unfenced(i, j) /\ Trace!Collide(i, j) =>
    easm[i].op = "DMA_STORE" /\ easm[j].op = "DMA_LOAD"

\* Documented: whatever the configuration, a trace must show no hazard, and
\* SYNC is inserted conservatively everywhere (docs/plans/h2-plan.md, D7, D10).
TraceIsHazardFree == Trace!HazardFree

\* Documented: the load and the store are removed when the buffer has no other
\* users, so results do not change (ElideCopiesPasses.td, description).
EraseKeepsResults == phase = "allocate" => Result(func, Remaining) = Reference(func, low)

\* Documented: what the compiler cannot translate it must reject, never pass
\* over in silence, since an operation left out makes the trace one instruction
\* short and wrong without an error (tests/lit/negative_unconverted_linalg.mlir,
\* lines 7 and 8).
AcceptedIsComputed ==
  phase # "crashed" /\ (easm # <<>> => TraceResult = ReferenceMatrices)
=============================================================================
