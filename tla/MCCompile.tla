----------------------------- MODULE MCCompile -----------------------------
(***************************************************************************)
(* Four families of functions, on arguments A and B, buffers C, D and R   *)
(* and a constant G.                                                       *)
(*   Chains: every function of at most MaxOps operations on A, two square  *)
(*   buffers and one column, with or without a loop around some of them,   *)
(*   that reads no buffer before it is written.  It returns what its last  *)
(*   operation wrote, or everything it wrote.                              *)
(*   RankOne: exponentials of a reduction to rank 1.                       *)
(*   Products: one matmul of A and B, of every shape.                      *)
(*   Generics: one linalg.generic, of every combination of shapes, maps,   *)
(*   iterators and bodies that linalg admits.                              *)
(***************************************************************************)
EXTENDS Compile

CONSTANTS A, B, C, D, R, G, MaxOps, Loops, Single

MCArgs == {A, B}
MCAllocs == {C, D, R}
MCGlobals == {G}

NoLoop == <<1, 0>>
Function(ops, loop, shape, ret) ==
  [ops |-> ops, from |-> loop[1], to |-> loop[2], shape |-> shape, ret |-> ret]

-----------------------------------------------------------------------------
(* Chains.                                                                 *)

ChainShape == [b \in Buffers |-> IF b = R THEN <<2, 1>> ELSE <<2, 2>>]

Column == <<Dim(1), Const(0)>>
AddColumn(x, z) ==
  Generic(<<Identity, Column, Identity>>, <<"parallel", "parallel">>,
          Body("add", BlockArg(1), BlockArg(2)), <<x, R>>, z)
RowSum(x) ==
  Generic(<<Identity, Column>>, <<"parallel", "reduction">>,
          Body("add", BlockArg(2), BlockArg(1)), <<x>>, R)

\* A matmul is not in place: bufferization gives it a buffer of its own.
ChainOps ==
  {o \in {Named("matmul", <<x, y>>, z) : x \in {A, C, D}, y \in {A, C, D}, z \in {C, D}} :
     o.out # o.ins[1] /\ o.out # o.ins[2]}
  \union {Named("sub", <<x, y>>, z) : x \in {A, C, D}, y \in {A, C}, z \in {C, D}}
  \union {AddColumn(x, z) : x \in {A, C, D}, z \in {C, D}}
  \union {Named("exp", <<x>>, z) : x \in {A, C, D}, z \in {C, D}}
  \union {RowSum(x) : x \in {A, C, D}}

\* Also in place into the argument, and with a constant: short functions only.
ShortOps == ChainOps \union {Named("sub", <<A, C>>, A), Named("exp", <<C>>, A),
                             Named("mul", <<A, G>>, C), Named("matmul", <<A, G>>, D)}

\* Reads are of arguments, constants or buffers written before; D is used
\* after C.
WellFormed(ops) ==
  \A i \in DOMAIN ops :
    LET before == {ops[j].out : j \in 1 .. i - 1}
    IN  /\ \A k \in DOMAIN ops[i].ins : ops[i].ins[k] \in before \union Args \union Globals
        /\ ops[i].out = D => C \in before \/ R \in before \/ ops[i].ins[Len(ops[i].ins)] = G

Written(ops) == {ops[i].out : i \in DOMAIN ops}

ChainsOf(n) ==
  UNION {{Function(ops, loop, ChainShape, ret) :
            loop \in {NoLoop} \union (IF Loops THEN {<<2, n>>, <<1, n - 1>>} ELSE {}),
            ret \in {{ops[n].out}, Written(ops)}} :
           ops \in {s \in [1 .. n -> IF n <= 2 THEN ShortOps ELSE ChainOps] : WellFormed(s)}}

-----------------------------------------------------------------------------
(* Single operations.                                                      *)

Shaped(a, b, c) ==
  [x \in Buffers |-> IF x = A THEN a ELSE IF x = B THEN b ELSE IF x = C THEN c ELSE <<1, 1>>]

OneOp(o, shape) == Function(<<o>>, NoLoop, shape, {C})

Products ==
  {OneOp(Named("matmul", <<A, B>>, C), Shaped(<<m, k>>, <<k, n>>, <<m, n>>)) :
     m \in 1 .. 3, k \in 1 .. 3, n \in 1 .. 3}

PP == <<"parallel", "parallel">>
PR == <<"parallel", "reduction">>
RP == <<"reduction", "parallel">>
Transposed == <<Dim(2), Dim(1)>>
InMaps == {<<r, c>> : r \in {Dim(1), Dim(2), Const(0)},
                      c \in {Dim(2), Dim(1), Const(0), Mod(2, 2), Mod(1, 2)}}
OutMaps(iters) == CASE iters = PP -> {Identity, Transposed}
                    [] iters = PR -> {<<Dim(1), Const(0)>>, <<Const(0), Dim(1)>>}
                    [] iters = RP -> {<<Dim(2), Const(0)>>, <<Const(0), Dim(2)>>}

\* What linalg asks of maps and shapes: a loop has one range in all operands,
\* and every index stays inside.
Admitted(maps, shapes) ==
  LET extents(k) == {shapes[u[1]][u[2]] :
                       u \in {v \in (1 .. Len(maps)) \X (1 .. 2) : maps[v[1]][v[2]] = Dim(k)}}
      Inside(e, size) ==
        e[1] = "mod" => \A x \in extents(e[2]) : (IF x < e[3] THEN x ELSE e[3]) <= size
  IN  /\ \A k \in 1 .. 2 : \E x \in 1 .. 4 : extents(k) = {x}
      /\ \A n \in DOMAIN maps : \A j \in 1 .. 2 : Inside(maps[n][j], shapes[n][j])

BinaryBodies == {Body(fn, BlockArg(z[1]), BlockArg(z[2])) :
                   fn \in {"add", "sub"}, z \in {<<1, 2>>, <<2, 1>>, <<1, 1>>, <<3, 2>>}}
UnaryBodies == {Body("max", BlockArg(1), Zero), Body("max", Zero, BlockArg(1)),
                Body("max", BlockArg(1), BlockArg(2)), Body("add", BlockArg(1), BlockArg(2)),
                Body("add", BlockArg(2), BlockArg(1)), Body("add", BlockArg(2), BlockArg(2)),
                Body("add", Square, BlockArg(2)), Body("add", BlockArg(1), Zero)}

\* One input, the big one, has the shape of the output and is read straight or
\* transposed; the other is at position p with any map.
Binary(outShapes) ==
  UNION {{OneOp(Generic(IF p = 1 THEN <<m, big, out>> ELSE <<big, m, out>>, PP, body, ins, C),
                IF p = 1 THEN Shaped(small, dst, dst) ELSE Shaped(dst, small, dst)) :
            p \in 1 .. 2, body \in BinaryBodies,
            ins \in {<<A, B>>} \union (IF small = dst THEN {<<A, A>>} ELSE {})} :
    <<m, big, out, small, dst>> \in
      {z \in InMaps \X {Identity, Transposed} \X OutMaps(PP) \X
             {<<2, 4>>, <<1, 4>>, <<2, 2>>, <<1, 2>>, <<2, 1>>, <<1, 1>>} \X outShapes :
         Admitted(<<z[1], z[2], z[3]>>, <<z[4], z[5], z[5]>>)}}

Unary(outShapes) ==
  UNION {UNION {{OneOp(Generic(<<z[1], z[2]>>, iters, body, <<A>>, C), Shaped(z[3], <<1, 1>>, z[4])) :
                   body \in UnaryBodies} :
    z \in {y \in InMaps \X OutMaps(iters) \X {<<2, 4>>, <<2, 2>>, <<2, 1>>, <<1, 4>>} \X
                 (outShapes \union {<<2, 1>>, <<1, 2>>}) :
             Admitted(<<y[1], y[2]>>, <<y[3], y[4]>>)}} : iters \in {PP, PR, RP}}

Others ==
  {OneOp(NamedReduce(dims, body, <<A>>, C), Shaped(<<2, 4>>, <<1, 1>>, <<n>>)) :
     dims \in {{1}, {2}}, n \in {2, 4}, body \in UnaryBodies}
  \union {OneOp(Named("add", <<A, B>>, C), Shaped(<<4>>, <<4>>, <<4>>)),
          OneOp(Named("exp", <<A>>, C), Shaped(<<4>>, <<1, 1>>, <<4>>)),
          OneOp(Named("copy", <<A>>, C), Shaped(<<2, 2>>, <<1, 1>>, <<2, 2>>))}

SingleOps(outShapes) == Products \union Binary(outShapes) \union Unary(outShapes) \union Others

\* A row sum of rank 1, and a chain of exponentials of it; also with a second
\* row sum in place of what the first exponential wrote.
RankOne ==
  LET Sum(x, z) == NamedReduce({2}, Body("add", BlockArg(1), BlockArg(2)), <<x>>, z)
      Of(ops, b) == Function(ops, NoLoop, [x \in Buffers |-> IF x \in {C, D, R} THEN <<2>>
                                                             ELSE <<2, 2>>], {b})
  IN  {Of(<<Sum(A, R), Named("exp", <<R>>, C)>>, C),
       Of(<<Sum(A, R), Named("exp", <<R>>, C), Named("exp", <<C>>, D)>>, D),
       Of(<<Sum(A, R), Named("exp", <<R>>, C), Sum(B, C), Named("exp", <<C>>, D)>>, D)}

MCFunctions ==
  UNION {ChainsOf(n) : n \in 1 .. MaxOps}
    \union (IF Single THEN SingleOps({<<2, 4>>, <<2, 2>>}) \union RankOne ELSE {})

-----------------------------------------------------------------------------
\* relu of the transposed argument, and the sum of it and a constant.
Miscompiled ==
  {Function(<<Generic(<<Transposed, Identity>>, PP, Body("max", BlockArg(1), Zero), <<A>>, C),
              Named("add", <<C, G>>, D)>>, NoLoop, ChainShape, {C, D})}
=============================================================================
