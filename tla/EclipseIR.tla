------------------------------ MODULE EclipseIR ------------------------------
(***************************************************************************)
(* A bufferized function before and after convert-linalg-to-eclipse.  The  *)
(* function is a list of linalg operations on DDR buffers; each that is    *)
(* recognised becomes a few operations of the eclipse dialect on SRAM      *)
(* buffers of its own, between DMA_LOADs of its inputs and a DMA_STORE.    *)
(*                                                                         *)
(* A DDR buffer stands for the memref value it is the root of: toDDR makes *)
(* one memory_space_cast of it per operand, used by one DMA operation, or  *)
(* by the subviews of the tiles of a matmul operand.  part says which:     *)
(* "whole" for the cast itself, "cols" and "rows" for the subview of a     *)
(* lhs and a rhs tile, "expanded" for the cast of an expand_shape, whose   *)
(* root is not the buffer but the result of the expand_shape.  A matmul's  *)
(* scf.for is unrolled here already, since no pass before eclipse-to-easm  *)
(* looks at its subviews.                                                  *)
(***************************************************************************)
EXTENDS LinalgForms, Lists

CONSTANTS
  Args,      \* the memref arguments of the function
  Allocs,    \* the buffers it allocates for its results
  Globals,   \* the buffers of its constants (memref.get_global)
  Trips      \* the trip count of the function's loop

ASSUME IRAssumption ==
  /\ Args \intersect Allocs = {} /\ Globals \intersect (Args \union Allocs) = {}
  /\ Trips \in Nat \ {0}

Buffers == Args \union Allocs \union Globals

(* A function: its operations ops, those of them inside its scf.for (from  *)
(* .. to, none if from > to), the shape of each buffer, and the buffers it *)
(* returns.                                                                *)
InLoop(f, i) == f.from <= i /\ i <= f.to

-----------------------------------------------------------------------------
(* The operations of the dialect.  at is the linalg operation they come    *)
(* from, and <<i, k>> the k-th SRAM buffer allocated for operation i.      *)

Load(i, b, part, t, s) ==
  [op |-> "load", at |-> i, buf |-> b, part |-> part, tile |-> t, sram |-> s]
Store(i, s, b, part) == [op |-> "store", at |-> i, buf |-> b, part |-> part, sram |-> s]
Compute(i, l, srcs, dst, acc) ==
  [op |-> "compute", at |-> i, kind |-> l.kind, fn |-> l.fn, srcs |-> srcs, dst |-> dst,
   acc |-> acc]
Sync(i) == [op |-> "sync", at |-> i]

TilesOf(sh, l) == sh[l.ins[1]][2] \div TileK

\* Step k of tile t: tile 1 is peeled off the loop and does not accumulate, since
\* the SRAM holds garbage.
TileStep(l, i, t, k) ==
  CASE k = 1 -> Load(i, l.ins[1], "cols", t, <<i, 1>>)
    [] k = 2 -> Load(i, l.ins[2], "rows", t, <<i, 2>>)
    [] k = 3 -> Sync(i)
    [] k = 4 -> Compute(i, l, << <<i, 1>>, <<i, 2>> >>, <<i, 3>>, t > 1)
    [] k = 5 -> Sync(i)

\* steps steps of every tile, and the store.
Tiled(sh, l, i, steps) ==
  [n \in 1 .. steps * TilesOf(sh, l) + 1 |->
     IF n = steps * TilesOf(sh, l) + 1 THEN Store(i, <<i, 3>>, l.out, "whole")
     ELSE TileStep(l, i, 1 + ((n - 1) \div steps), 1 + ((n - 1) % steps))]

\* Mutant: no SYNC behind a product.
LowerMatmulSyncOnce(sh, l, i) == Tiled(sh, l, i, 4)

LowerMatmul(sh, l, i) == Tiled(sh, l, i, 5)

\* One operation between the loads of its whole operands and the store.
Whole(l, i, part) ==
  LET n == Len(l.ins)
      srcs == [k \in 1 .. n |-> <<i, k>>]
  IN  [k \in 1 .. n |-> Load(i, l.ins[k], "whole", 0, <<i, k>>)]
        \o << Sync(i), Compute(i, l, srcs, <<i, n + 1>>, FALSE), Sync(i),
              Store(i, <<i, n + 1>>, l.out, part) >>

LowerEwise(l, i) == Whole(l, i, "whole")
LowerAct(l, i) == Whole(l, i, "whole")

\* The rank-1 result of a linalg.reduce is stored through an expand_shape of it.
LowerReduce(sh, l, i) == Whole(l, i, IF Len(sh[l.out]) = 1 THEN "expanded" ELSE "whole")

Lower(sh, l, i) == CASE l.kind = "matmul" -> LowerMatmul(sh, l, i)
                     [] l.kind = "ewise"  -> LowerEwise(l, i)
                     [] l.kind = "act"    -> LowerAct(l, i)
                     [] l.kind = "reduce" -> LowerReduce(sh, l, i)

SramIds(f) == (1 .. Len(f.ops)) \X (1 .. 3)

-----------------------------------------------------------------------------
(* What a function computes.  Values are terms over the arguments.         *)

\* The order in which the operations of f run once the loop is unrolled.
Order(f) ==
  LET width == f.to - f.from + 1
  IN  [k \in 1 .. Len(f.ops) + (Trips - 1) * width |->
         IF k < f.from THEN k
         ELSE IF k < f.from + Trips * width THEN f.from + ((k - f.from) % width)
         ELSE k - (Trips - 1) * width]

\* What operation i of the function became.
Section(list, i) == Without(list, {n \in DOMAIN list : list[n].at # i})

Unrolled(f, list) ==
  LET order == Order(f)
      joined[k \in 0 .. Len(order)] ==
        IF k = 0 THEN <<>> ELSE joined[k - 1] \o Section(list, order[k])
  IN  joined[Len(order)]

Initial == [b \in Buffers |-> IF b \in Allocs THEN <<"garbage">> ELSE <<"given", b>>]

\* The reference: each operation replaces its output, on the buffers.  A matmul
\* sums one product per tile; the previous contents of its output, like the
\* init of a reduction, only says where the result goes.
SumOfTiles(n, x, y) == <<"matmul">> \o [t \in 1 .. n |-> << <<"cols", t, x>>, <<"rows", t, y>> >>]
Outcome(mem, l, tiles) ==
  IF l.kind = "matmul" THEN SumOfTiles(tiles, mem[l.ins[1]], mem[l.ins[2]])
  ELSE <<l.fn>> \o [k \in 1 .. Len(l.ins) |-> mem[l.ins[k]]]
Direct(sh, l) ==
  [op |-> "linalg", whole |-> l, tiles |-> IF l.kind = "matmul" THEN TilesOf(sh, l) ELSE 0]

\* One operation of the dialect, executed in order, as the cmodel does.
Execute(m, o) ==
  CASE o.op = "load" ->
         [m EXCEPT !.sram[o.sram] = IF o.part = "whole" THEN m.ddr[o.buf]
                                    ELSE <<o.part, o.tile, m.ddr[o.buf]>>]
    [] o.op = "store" -> [m EXCEPT !.ddr[o.buf] = m.sram[o.sram]]
    [] o.op = "compute" ->
         LET args == [k \in 1 .. Len(o.srcs) |-> m.sram[o.srcs[k]]]
         IN  [m EXCEPT !.sram[o.dst] =
                IF o.kind = "matmul"
                THEN Append(IF o.acc THEN m.sram[o.dst] ELSE <<"matmul">>, args)
                ELSE <<o.fn>> \o args]
    [] o.op = "sync" -> m

Perform(m, o) ==
  IF o.op = "linalg" THEN [m EXCEPT !.ddr[o.whole.out] = Outcome(m.ddr, o.whole, o.tiles)]
  ELSE Execute(m, o)

RunFrom(m, list) ==
  LET after[n \in 0 .. Len(list)] == IF n = 0 THEN m ELSE Perform(after[n - 1], list[n])
  IN  after[Len(list)]

Start(f) == [sram |-> [s \in SramIds(f) |-> <<"garbage">>], ddr |-> Initial]

\* What f returns, its operations translated to list, and, the reference, its
\* operations recognised as low.
Result(f, list) == LET end == RunFrom(Start(f), Unrolled(f, list))
                   IN  [b \in f.ret |-> end.ddr[b]]
Reference(f, low) ==
  LET end == RunFrom(Start(f), [k \in 1 .. Len(Order(f)) |-> Direct(f.shape, low[Order(f)[k]])])
  IN  [b \in f.ret |-> end.ddr[b]]
=============================================================================
