---------------------------- MODULE LinalgForms ----------------------------
(***************************************************************************)
(* The operations of a bufferized linalg function, and which of them the   *)
(* patterns of convert-linalg-to-eclipse recognise.  A named operation is  *)
(* lowered as it is; a linalg.generic only if its iterators, its indexing  *)
(* maps and its body have one of a few forms.  An operation no pattern     *)
(* recognises makes the conversion fail.                                   *)
(***************************************************************************)
EXTENDS Integers, Sequences

CONSTANT TileK   \* the width of a matmul tile

ASSUME TileAssumption == TileK \in Nat \ {0}

Named(name, ins, out) == [form |-> "named", name |-> name, ins |-> ins, out |-> out]

\* linalg.reduce: a combiner, and the dimensions it reduces.
NamedReduce(dims, body, ins, out) ==
  [form |-> "reduce", dims |-> dims, body |-> body, ins |-> ins, out |-> out]

\* maps has one indexing map per input and one for the output.
Generic(maps, iters, body, ins, out) ==
  [form |-> "generic", maps |-> maps, iters |-> iters, body |-> body, ins |-> ins, out |-> out]

(* A map result: the loop variable d(k-1), a constant, or d(k-1) mod m.    *)
Dim(k)    == <<"dim", k, 0>>
Const(c)  == <<"const", 0, c>>
Mod(k, m) == <<"mod", k, m>>
Identity  == <<Dim(1), Dim(2)>>

(* A body computes one operation on two operands and yields it.  An operand *)
(* lists the block arguments it is the product of, <<>> the constant zero.  *)
BlockArg(k) == <<k>>
Zero == <<>>
Square == <<1, 1>>
Body(fn, x, y) == [fn |-> fn, x |-> x, y |-> y]

\* What a pattern makes of an operation: kind, function, inputs, output.
Linalg(kind, fn, ins, out) == [kind |-> kind, fn |-> fn, ins |-> ins, out |-> out]

EwiseFns == {"add", "sub", "mul", "div"}
ActFns == {"exp", "rsqrt"}

-----------------------------------------------------------------------------
(* The patterns.  sh is the shape of each buffer; a result is the set of   *)
(* the operations a pattern offers, empty if it does not match.            *)

NamedLowering(o) ==
  {Linalg(kind, o.name, o.ins, o.out) :
     kind \in {k \in {"matmul", "ewise", "act"} :
                 o.name \in CASE k = "matmul" -> {"matmul"}
                              [] k = "ewise"  -> EwiseFns
                              [] k = "act"    -> ActFns}}

\* Mutant: any block counts as a divisor of the row.
RhsMapMatchesAnyBlock(map, rhs, dst) ==
  /\ map[1] = IF rhs[1] = 1 THEN Const(0) ELSE Dim(1)
  /\ \/ rhs[2] = 1 /\ map[2] = Const(0)
     \/ rhs[2] = dst[2] /\ map[2] = Dim(2)
     \/ rhs[2] # 1 /\ map[2][1] = "mod"

\* The small operand: row 0 of a single row or the row itself; then the one
\* column, the column itself, or the column modulo the width of the operand.
RhsMapMatches(map, rhs, dst) ==
  /\ map[1] = IF rhs[1] = 1 THEN Const(0) ELSE Dim(1)
  /\ \/ rhs[2] = 1 /\ map[2] = Const(0)
     \/ rhs[2] # 1 /\ rhs[2] = dst[2] /\ map[2] = Dim(2)
     \/ rhs[2] # 1 /\ map[2] = Mod(2, rhs[2])

EwiseBroadcastLowering(sh, o) ==
  LET big   == IF sh[o.ins[1]] = sh[o.out] THEN 1 ELSE 2
      small == 3 - big
      dst == sh[o.out]
      rhs == sh[o.ins[small]]
      forward == o.body.x = BlockArg(big) /\ o.body.y = BlockArg(small)
      swapped == o.body.x = BlockArg(small) /\ o.body.y = BlockArg(big)
      matches ==
        /\ Len(o.ins) = 2
        /\ \A n \in DOMAIN o.iters : o.iters[n] = "parallel"
        /\ o.body.fn \in EwiseFns
        /\ Len(dst) = 2 /\ sh[o.ins[big]] = dst
        /\ forward \/ (swapped /\ o.body.fn \in {"add", "mul"})
        /\ Len(rhs) = 2 /\ dst[2] % rhs[2] = 0 /\ rhs[1] \in {1, dst[1]}
        /\ o.maps[big] = Identity /\ o.maps[3] = Identity
        /\ RhsMapMatches(o.maps[small], rhs, dst)
  IN  IF matches
      THEN {Linalg("ewise", o.body.fn, <<o.ins[big], o.ins[small]>>, o.out)} ELSE {}

\* matchReduceBody: in is block argument 1, the accumulator block argument 2.
ReduceKinds(b) ==
  LET other == IF b.x = BlockArg(2) THEN b.y ELSE b.x
      adds == b.fn = "add" /\ BlockArg(2) \in {b.x, b.y}
  IN  {k \in {"sum", "square_sum", "max"} :
         CASE k = "sum"        -> adds /\ other = BlockArg(1)
           [] k = "square_sum" -> adds /\ other = Square
           [] k = "max"        -> b.fn = "max" /\ {b.x, b.y} = {BlockArg(1), BlockArg(2)}}

GenericReduceLowering(o) ==
  IF /\ Len(o.ins) = 1
     /\ o.iters = <<"parallel", "reduction">>
     /\ o.maps[1] = Identity /\ Len(o.maps[2]) = 2 /\ o.maps[2][2] = Const(0)
  THEN {Linalg("reduce", k, o.ins, o.out) : k \in ReduceKinds(o.body)} ELSE {}

NamedReduceLowering(sh, o) ==
  LET src == sh[o.ins[1]]
      init == sh[o.out]
  IN  IF Len(o.ins) = 1 /\ o.dims = {2} /\ Len(src) = 2 /\ Len(init) = 1 /\ init[1] = src[1]
      THEN {Linalg("reduce", k, o.ins, o.out) : k \in ReduceKinds(o.body)} ELSE {}

\* The body is looked at, the maps and the iterators are not.
ActLowering(o) ==
  IF Len(o.ins) = 1 /\ o.body.fn = "max" /\ {o.body.x, o.body.y} = {BlockArg(1), Zero}
  THEN {Linalg("act", "relu", o.ins, o.out)} ELSE {}

Recognised(sh, o) ==
  CASE o.form = "named"   -> NamedLowering(o)
    [] o.form = "reduce"  -> NamedReduceLowering(sh, o)
    [] o.form = "generic" -> EwiseBroadcastLowering(sh, o)
                               \union GenericReduceLowering(o) \union ActLowering(o)

-----------------------------------------------------------------------------
(* The SRAM buffers of a lowered operation, and the verifiers of the       *)
(* dialect, which run on what the patterns built.                          *)

SramShapes(sh, l) ==
  LET in(k) == sh[l.ins[k]]
      out == sh[l.out]
  IN  CASE l.kind = "matmul" -> << <<in(1)[1], TileK>>, <<TileK, in(2)[2]>>,
                                   <<in(1)[1], in(2)[2]>> >>
        [] l.kind = "ewise"  -> <<in(1), in(2), out>>
        [] l.kind = "act"    -> <<out, out>>
        [] l.kind = "reduce" -> <<in(1), IF Len(out) = 1 THEN <<out[1], 1>> ELSE out>>

VerifyMatmul(lhs, rhs, dst) == lhs[2] = rhs[1] /\ dst = <<lhs[1], rhs[2]>>

VerifyEwise(lhs, rhs, dst) ==
  /\ lhs = dst /\ Len(dst) = 2 /\ Len(rhs) = 2
  /\ rhs[1] \in {1, dst[1]} /\ dst[2] % rhs[2] = 0

VerifyReduce(src, dst) == dst = <<src[1], 1>>

\* A DMA_LOAD fills an SRAM buffer of the shape of its source.
VerifyLoad(sh, l, k) == l.kind = "matmul" \/ sh[l.ins[k]] = SramShapes(sh, l)[k]

\* A DMA_STORE goes to a buffer of the shape of its source, a rank-1 buffer
\* being expanded to a column before.
VerifyStore(sh, l) ==
  LET s == SramShapes(sh, l)
      out == sh[l.out]
  IN  s[Len(s)] = IF l.kind = "reduce" /\ Len(out) = 1 THEN <<out[1], 1>> ELSE out

Verified(sh, l) ==
  LET s == SramShapes(sh, l)
  IN  /\ \A k \in DOMAIN l.ins : VerifyLoad(sh, l, k)
      /\ VerifyStore(sh, l)
      /\ l.kind = "matmul" => VerifyMatmul(s[1], s[2], s[3])
      /\ l.kind = "ewise" => VerifyEwise(s[1], s[2], s[3])
      /\ l.kind = "reduce" => VerifyReduce(s[1], s[2])

\* Lowerings of an operation that the conversion accepts.
Accepted(sh, o) == {l \in Recognised(sh, o) : Verified(sh, l)}
=============================================================================
