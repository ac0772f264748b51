----------------------------- MODULE ElideProofs -----------------------------
(***************************************************************************)
(* What eclipse-elide-copies pairs and what it erases, for every function: *)
(* Spec => []LoadsMeetLastStore and Spec => []ErasedStoresWereLast.  The   *)
(* argument follows the operations through the phases of the pass; they    *)
(* keep their position, their kind and their buffer, and only their SRAM   *)
(* operands change.  Then that nothing is missed: every load with a store  *)
(* to meet is paired, every paired load goes, and every store that nothing *)
(* else uses, hence Spec => []ChainsStayResident.  Last, that nothing of   *)
(* this changes a result: the code that is left computes what the function *)
(* does, whenever loads are replaced and once the stores are erased.       *)
(* Behind that the code goes through the allocator and the emitters, and   *)
(* the order of the trace is Spec => []OnlyStoreThenLoadUnfenced.          *)
(***************************************************************************)
EXTENDS Compile, Arithmetic, FiniteSetTheorems, TLAPS

\* A sequence, whatever its elements.
IsList(s) == s \in Seq(RangeOf(s))

LEMMA ListOf ==
  ASSUME NEW S, NEW s \in Seq(S)
  PROVE  IsList(s) /\ Len(s) \in Nat /\ DOMAIN s = 1 .. Len(s)
BY DEF IsList, RangeOf

LEMMA Joining ==
  ASSUME NEW s, NEW t, IsList(s), IsList(t)
  PROVE  /\ IsList(s \o t) /\ Len(s) \in Nat /\ Len(t) \in Nat
         /\ Len(s \o t) = Len(s) + Len(t)
         /\ \A k \in 1 .. Len(s) : (s \o t)[k] = s[k]
         /\ \A k \in 1 .. Len(t) : (s \o t)[Len(s) + k] = t[k]
<1> DEFINE S == RangeOf(s) \union RangeOf(t)
           u == s \o t
<1>1. s \in Seq(S) /\ t \in Seq(S)
  BY DEF IsList
<1>2. /\ u \in Seq(S) /\ Len(s) \in Nat /\ Len(t) \in Nat /\ Len(u) = Len(s) + Len(t)
      /\ \A k \in 1 .. Len(s) : u[k] = s[k]
      /\ \A k \in 1 .. Len(t) : u[Len(s) + k] = t[k]
  <2> HIDE DEF S
  <2> QED BY <1>1
<1> HIDE DEF u, S
<1>3. IsList(u)
  BY <1>2, ListOf
<1> QED BY <1>2, <1>3 DEF u

LEMMA Adding ==
  ASSUME NEW s, NEW e, IsList(s)
  PROVE  /\ IsList(Append(s, e)) /\ Len(s) \in Nat /\ Len(Append(s, e)) = Len(s) + 1
         /\ Append(s, e)[Len(s) + 1] = e
         /\ \A k \in 1 .. Len(s) : Append(s, e)[k] = s[k]
<1> DEFINE S == RangeOf(s) \union {e}
           u == Append(s, e)
<1>1. s \in Seq(S) /\ e \in S
  BY DEF IsList
<1>2. /\ u \in Seq(S) /\ Len(s) \in Nat /\ Len(u) = Len(s) + 1 /\ u[Len(s) + 1] = e
      /\ \A k \in 1 .. Len(s) : u[k] = s[k]
  <2> HIDE DEF S
  <2> QED BY <1>1
<1> HIDE DEF u, S
<1>3. IsList(u)
  BY <1>2, ListOf
<1> QED BY <1>2, <1>3 DEF u

\* A function on 1 .. n is a sequence.
LEMMA Listed ==
  ASSUME NEW n \in Nat, NEW f, f = [k \in 1 .. n |-> f[k]]
  PROVE  IsList(f) /\ Len(f) = n
<1> DEFINE S == {f[k] : k \in 1 .. n}
<1>1. f \in [1 .. n -> S]
  OBVIOUS
<1> HIDE DEF S
<1>2. f \in Seq(S) /\ Len(f) = n
  BY <1>1
<1> QED BY <1>2, ListOf

-----------------------------------------------------------------------------
(* The operations of the dialect.                                          *)

\* An operation as one of the four constructors builds it.
OpOK(o) ==
  \/ o.op = "load" /\ o = Load(o.at, o.buf, o.part, o.tile, o.sram) /\ o.buf \in Buffers
  \/ o.op = "store" /\ o = Store(o.at, o.sram, o.buf, o.part) /\ o.buf \in Buffers
  \/ o.op = "compute" /\ o = [op |-> "compute", at |-> o.at, kind |-> o.kind, fn |-> o.fn,
                              srcs |-> o.srcs, dst |-> o.dst, acc |-> o.acc]
  \/ o.op = "sync" /\ o = Sync(o.at)

LEMMA Built ==
  ASSUME NEW i, NEW s, NEW part, NEW t
  PROVE  /\ \A b \in Buffers : OpOK(Load(i, b, part, t, s)) /\ OpOK(Store(i, s, b, part))
         /\ OpOK(Sync(i))
         /\ \A l, srcs, dst, acc : OpOK(Compute(i, l, srcs, dst, acc))
BY DEF OpOK, Load, Store, Sync, Compute

\* Rewiring changes SRAM operands and nothing else.
LEMMA Replacing ==
  ASSUME NEW o, OpOK(o), NEW old, NEW new, NEW r, r = Replace(o, old, new)
  PROVE  /\ OpOK(r) /\ r.op = o.op /\ r.at = o.at
         /\ o.op \in {"load", "store"} => r.buf = o.buf /\ r.part = o.part
<1>1. CASE o.op = "load"
  <2>1. r = [o EXCEPT !.sram = IF o.sram = old THEN new ELSE o.sram]
    BY <1>1 DEF Replace
  <2>2. o = Load(o.at, o.buf, o.part, o.tile, o.sram) /\ o.buf \in Buffers
    BY <1>1 DEF OpOK
  <2>3. r = Load(o.at, o.buf, o.part, o.tile, r.sram)
    BY <2>1, <2>2 DEF Load
  <2> QED BY <1>1, <2>2, <2>3 DEF OpOK, Load
<1>2. CASE o.op = "store"
  <2>1. r = [o EXCEPT !.sram = IF o.sram = old THEN new ELSE o.sram]
    BY <1>2 DEF Replace
  <2>2. o = Store(o.at, o.sram, o.buf, o.part) /\ o.buf \in Buffers
    BY <1>2 DEF OpOK
  <2>3. r = Store(o.at, r.sram, o.buf, o.part)
    BY <2>1, <2>2 DEF Store
  <2> QED BY <1>2, <2>2, <2>3 DEF OpOK, Store
<1>3. CASE o.op = "compute"
  <2> DEFINE Sub(s) == IF s = old THEN new ELSE s
             d == Sub(o.dst)
             x == [k \in DOMAIN o.srcs |-> Sub(o.srcs[k])]
  <2>1. r = [o EXCEPT !.dst = d, !.srcs = x]
    BY <1>3 DEF Replace
  <2>2. o = [op |-> "compute", at |-> o.at, kind |-> o.kind, fn |-> o.fn,
             srcs |-> o.srcs, dst |-> o.dst, acc |-> o.acc]
    BY <1>3 DEF OpOK
  <2> DEFINE a == o.at
             c == o.kind
             f == o.fn
             y == o.srcs
             e == o.dst
             g == o.acc
  <2> HIDE DEF d, x, a, c, f, y, e, g
  <2>3. r = [op |-> "compute", at |-> a, kind |-> c, fn |-> f, srcs |-> x, dst |-> d, acc |-> g]
    <3>1. o = [op |-> "compute", at |-> a, kind |-> c, fn |-> f, srcs |-> y, dst |-> e, acc |-> g]
      BY <2>2 DEF a, c, f, y, e, g
    <3> QED BY <2>1, <3>1
  <2>4. r.op = "compute" /\ r.at = a
    BY <2>3
  <2>5. r = [op |-> "compute", at |-> r.at, kind |-> r.kind, fn |-> r.fn,
             srcs |-> r.srcs, dst |-> r.dst, acc |-> r.acc]
    BY <2>3
  <2>6. OpOK(r)
    BY <2>4, <2>5 DEF OpOK
  <2> QED BY <1>3, <2>4, <2>6 DEF a
<1>4. CASE o.op = "sync"
  BY <1>4 DEF Replace
<1> QED BY <1>1, <1>2, <1>3, <1>4 DEF OpOK

\* The operands of a recognised operation.
Arity(l) == IF l.kind \in {"matmul", "ewise"} THEN 2 ELSE 1

\* What a pattern offers.
LEMMA Offers ==
  ASSUME NEW f \in Functions, NEW i \in 1 .. Len(f.ops), NEW l \in Accepted(f.shape, f.ops[i])
  PROVE  /\ l.kind \in {"matmul", "ewise", "act", "reduce"}
         /\ IsList(l.ins) /\ \A k \in 1 .. Len(l.ins) : l.ins[k] \in Buffers
         /\ l.out \in Buffers
         /\ Len(l.ins) = Arity(l) /\ Len(l.ins) \in 1 .. 2
         /\ l.kind = "matmul" => TilesOf(f.shape, l) \in Nat \ {0} /\ Len(l.ins) = 2
<1> DEFINE o == f.ops[i]
           sh == f.shape
<1>1. /\ o.form \in {"named", "reduce", "generic"} /\ o.ins \in Seq(Buffers) /\ o.out \in Buffers
      /\ o.form = "named" =>
           /\ o.name \in ActFns => Len(o.ins) = 1
           /\ o.name \in EwiseFns \union {"matmul"} => Len(o.ins) = 2
           /\ o.name = "matmul" =>
                sh[o.ins[1]][2] \in Nat \ {0} /\ sh[o.ins[1]][2] % TileK = 0
  BY FunctionAssumption
<1>2. IsList(o.ins) /\ Len(o.ins) \in Nat /\ \A k \in 1 .. Len(o.ins) : o.ins[k] \in Buffers
  BY <1>1, ListOf
<1>3. l \in Recognised(sh, o)
  BY DEF Accepted
<1> HIDE DEF o, sh
<1>4. CASE o.form = "named"
  <2>1. l \in NamedLowering(o)
    BY <1>3, <1>4 DEF Recognised
  <2>2. PICK kind \in {"matmul", "ewise", "act"} :
          /\ o.name \in CASE kind = "matmul" -> {"matmul"}
                          [] kind = "ewise"  -> EwiseFns
                          [] kind = "act"    -> ActFns
          /\ l = Linalg(kind, o.name, o.ins, o.out)
    BY <2>1 DEF NamedLowering
  <2>3. l.kind = kind /\ l.ins = o.ins /\ l.out = o.out
    BY <2>2 DEF Linalg
  <2>4. ASSUME kind = "matmul"
        PROVE  TilesOf(sh, l) \in Nat \ {0}
    <3>1. o.name = "matmul"
      BY <2>2, <2>4
    <3> DEFINE w == sh[o.ins[1]][2]
    <3>2. w \in Nat \ {0} /\ w % TileK = 0 /\ TileK \in Nat \ {0}
      BY <1>1, <1>4, <3>1, TileAssumption
    <3> HIDE DEF w
    <3>3. w \div TileK \in Nat \ {0}
      <4>0. w \div TileK \in Nat
        BY <3>2
      <4>1. w = (w \div TileK) * TileK + (w % TileK)
        BY <3>2, Remainder
      <4>2. CASE w \div TileK = 0
        <5>1. (w \div TileK) * TileK = 0
          BY <3>2, <4>2
        <5> QED BY <3>2, <4>1, <5>1
      <4> QED BY <4>0, <4>2
    <3> QED BY <2>3, <3>2, <3>3 DEF TilesOf, w
  <2>5. Len(l.ins) = Arity(l) /\ Len(l.ins) \in 1 .. 2 /\ (kind = "matmul" => Len(l.ins) = 2)
    <3>1. CASE kind = "matmul"
      BY <1>1, <1>4, <2>2, <2>3, <3>1 DEF Arity
    <3>2. CASE kind = "ewise"
      BY <1>1, <1>4, <2>2, <2>3, <3>2 DEF Arity
    <3>3. CASE kind = "act"
      BY <1>1, <1>4, <2>2, <2>3, <3>3 DEF Arity
    <3> QED BY <2>2, <3>1, <3>2, <3>3
  <2> QED BY <1>1, <1>2, <2>2, <2>3, <2>4, <2>5 DEF o, sh
<1>5. CASE o.form = "reduce"
  <2>1. Len(o.ins) = 1 /\ \E k \in ReduceKinds(o.body) : l = Linalg("reduce", k, o.ins, o.out)
    BY <1>3, <1>5 DEF Recognised, NamedReduceLowering
  <2>2. l.kind = "reduce" /\ l.ins = o.ins /\ l.out = o.out
    BY <2>1 DEF Linalg
  <2>3. Len(l.ins) = Arity(l) /\ Len(l.ins) \in 1 .. 2 /\ l.kind # "matmul"
    <3>1. Arity(l) = 1 /\ l.kind # "matmul"
      BY <2>2 DEF Arity
    <3>2. Len(l.ins) = 1
      BY <2>1, <2>2
    <3> QED BY <3>1, <3>2
  <2> QED BY <1>1, <1>2, <2>2, <2>3
<1>6. CASE o.form = "generic"
  <2>1. l \in EwiseBroadcastLowering(sh, o) \union GenericReduceLowering(o) \union ActLowering(o)
    BY <1>3, <1>6 DEF Recognised
  <2>2. CASE l \in EwiseBroadcastLowering(sh, o)
    <3> DEFINE big   == IF sh[o.ins[1]] = sh[o.out] THEN 1 ELSE 2
               pair == <<o.ins[big], o.ins[3 - big]>>
    <3>1. Len(o.ins) = 2 /\ l = Linalg("ewise", o.body.fn, pair, o.out)
      BY <2>2 DEF EwiseBroadcastLowering
    <3>2. big \in 1 .. 2 /\ 3 - big \in 1 .. 2
      OBVIOUS
    <3> HIDE DEF big
    <3>3. o.ins[big] \in Buffers /\ o.ins[3 - big] \in Buffers
      BY <1>2, <3>1, <3>2
    <3>4. pair \in Seq(Buffers)
      BY <3>3
    <3>5. Len(pair) = 2
      OBVIOUS
    <3> HIDE DEF pair
    <3>6. IsList(pair) /\ \A k \in 1 .. Len(pair) : pair[k] \in Buffers
      BY <3>4, ListOf
    <3>7. l.kind = "ewise" /\ l.ins = pair /\ l.out = o.out
      BY <3>1 DEF Linalg
    <3>8. Len(l.ins) = Arity(l) /\ Len(l.ins) \in 1 .. 2 /\ l.kind # "matmul"
      BY <3>5, <3>7 DEF Arity
    <3> QED BY <1>1, <3>6, <3>7, <3>8
  <2>3. CASE l \in GenericReduceLowering(o)
    <3>1. Len(o.ins) = 1 /\ \E k \in ReduceKinds(o.body) : l = Linalg("reduce", k, o.ins, o.out)
      BY <2>3 DEF GenericReduceLowering
    <3>2. l.kind = "reduce" /\ l.ins = o.ins /\ l.out = o.out
      BY <3>1 DEF Linalg
    <3>3. Len(l.ins) = Arity(l) /\ Len(l.ins) \in 1 .. 2 /\ l.kind # "matmul"
      <4>1. Arity(l) = 1 /\ l.kind # "matmul"
        BY <3>2 DEF Arity
      <4>2. Len(l.ins) = 1
        BY <3>1, <3>2
      <4> QED BY <4>1, <4>2
    <3> QED BY <1>1, <1>2, <3>2, <3>3
  <2>4. CASE l \in ActLowering(o)
    <3>1. l = Linalg("act", "relu", o.ins, o.out) /\ Len(o.ins) = 1
      BY <2>4 DEF ActLowering
    <3>2. l.kind = "act" /\ l.ins = o.ins /\ l.out = o.out
      BY <3>1 DEF Linalg
    <3>3. Len(l.ins) = Arity(l) /\ Len(l.ins) \in 1 .. 2 /\ l.kind # "matmul"
      <4>1. Arity(l) = 1 /\ l.kind # "matmul"
        BY <3>2 DEF Arity
      <4>2. Len(l.ins) = 1
        BY <3>1, <3>2
      <4> QED BY <4>1, <4>2
    <3> QED BY <1>1, <1>2, <3>2, <3>3
  <2> QED BY <2>1, <2>2, <2>3, <2>4
<1> QED BY <1>1, <1>4, <1>5, <1>6

\* The operations of Whole, one by one.
ListsWhole(u, n, l, i, part) ==
  /\ IsList(u) /\ n \in Nat /\ Len(u) = n + 4
  /\ \A k \in 1 .. n : u[k] = Load(i, l.ins[k], "whole", 0, <<i, k>>)
  /\ u[n + 1] = Sync(i) /\ u[n + 3] = Sync(i)
  /\ u[n + 2] = Compute(i, l, [k \in 1 .. n |-> <<i, k>>], <<i, n + 1>>, FALSE)
  /\ u[n + 4] = Store(i, <<i, n + 1>>, l.out, part)

LEMMA WholeIs ==
  ASSUME NEW l, NEW i, NEW part, IsList(l.ins), NEW u, u = Whole(l, i, part),
         NEW n, n = Len(l.ins)
  PROVE  ListsWhole(u, n, l, i, part)
<1> DEFINE srcs == [k \in 1 .. n |-> <<i, k>>]
           a == Sync(i)
           b == Compute(i, l, srcs, <<i, n + 1>>, FALSE)
           c == Store(i, <<i, n + 1>>, l.out, part)
           s == [k \in 1 .. n |-> Load(i, l.ins[k], "whole", 0, <<i, k>>)]
           t == <<a, b, a, c>>
<1>1. n \in Nat
  BY DEF IsList
<1>2. u = s \o t
  BY DEF Whole
<1>3. \A k \in 1 .. n : s[k] = Load(i, l.ins[k], "whole", 0, <<i, k>>)
  OBVIOUS
<1>4. IsList(s) /\ Len(s) = n
  <2>1. s = [k \in 1 .. n |-> s[k]]
    OBVIOUS
  <2> HIDE DEF s
  <2> QED BY <1>1, <2>1, Listed
<1> HIDE DEF s, a, b, c, srcs
<1>5. IsList(t) /\ Len(t) = 4 /\ t[1] = a /\ t[2] = b /\ t[3] = a /\ t[4] = c
  <2> DEFINE S == {a, b, c}
  <2>1. t \in Seq(S) /\ Len(t) = 4 /\ t[1] = a /\ t[2] = b /\ t[3] = a /\ t[4] = c
    OBVIOUS
  <2> HIDE DEF S, t
  <2> QED BY <2>1, ListOf
<1> HIDE DEF t
<1>6. /\ IsList(u) /\ Len(u) = n + 4
      /\ \A k \in 1 .. n : u[k] = s[k]
      /\ \A k \in 1 .. 4 : u[n + k] = t[k]
  <2>1. IsList(s) /\ IsList(t)
    BY <1>4, <1>5
  <2>2. /\ IsList(s \o t) /\ Len(s \o t) = Len(s) + Len(t)
        /\ \A k \in 1 .. Len(s) : (s \o t)[k] = s[k]
        /\ \A k \in 1 .. Len(t) : (s \o t)[Len(s) + k] = t[k]
    BY <2>1, Joining
  <2> QED BY <1>2, <1>4, <1>5, <2>2
<1>7. u[n + 1] = a /\ u[n + 2] = b /\ u[n + 3] = a /\ u[n + 4] = c
  BY <1>5, <1>6
<1>8. \A k \in 1 .. n : u[k] = Load(i, l.ins[k], "whole", 0, <<i, k>>)
  BY <1>3, <1>6
<1>9. b = Compute(i, l, [k \in 1 .. n |-> <<i, k>>], <<i, n + 1>>, FALSE)
  BY DEF b, srcs
<1>10. a = Sync(i) /\ c = Store(i, <<i, n + 1>>, l.out, part)
  BY DEF a, c
<1> QED BY <1>1, <1>6, <1>7, <1>8, <1>9, <1>10 DEF ListsWhole

LEMMA WholeBuilds ==
  ASSUME NEW l, NEW i, NEW part, IsList(l.ins), l.out \in Buffers,
         \A k \in 1 .. Len(l.ins) : l.ins[k] \in Buffers,
         NEW u, u = Whole(l, i, part)
  PROVE  IsList(u) /\ \A k \in 1 .. Len(u) : OpOK(u[k])
<1> DEFINE n == Len(l.ins)
<1>0. ListsWhole(u, n, l, i, part)
  BY WholeIs
<1>1. IsList(u) /\ n \in Nat /\ Len(u) = n + 4
  BY <1>0 DEF ListsWhole
<1>2. ASSUME NEW k \in 1 .. n PROVE OpOK(u[k])
  <2>1. u[k] = Load(i, l.ins[k], "whole", 0, <<i, k>>)
    BY <1>0 DEF ListsWhole
  <2> QED BY <2>1, Built
<1> HIDE DEF n
<1>3. OpOK(u[n + 1]) /\ OpOK(u[n + 2]) /\ OpOK(u[n + 3]) /\ OpOK(u[n + 4])
  <2>1. PICK srcs, dst : u[n + 2] = Compute(i, l, srcs, dst, FALSE)
    BY <1>0 DEF ListsWhole
  <2>2. u[n + 1] = Sync(i) /\ u[n + 3] = Sync(i) /\ u[n + 4] = Store(i, <<i, n + 1>>, l.out, part)
    BY <1>0 DEF ListsWhole
  <2>3. OpOK(Compute(i, l, srcs, dst, FALSE)) /\ OpOK(Sync(i))
    BY Built
  <2>4. OpOK(Store(i, <<i, n + 1>>, l.out, part))
    BY Built
  <2> QED BY <2>1, <2>2, <2>3, <2>4
<1>4. ASSUME NEW k \in 1 .. Len(u) PROVE OpOK(u[k])
  <2>1. k \in 1 .. n \/ k = n + 1 \/ k = n + 2 \/ k = n + 3 \/ k = n + 4
    BY <1>1
  <2> QED BY <1>2, <1>3, <2>1
<1> QED BY <1>1, <1>4

\* The operations of a tiled product: steps of tiles, and the store.
LEMMA TiledIs ==
  ASSUME NEW sh, NEW l, NEW i, TilesOf(sh, l) \in Nat, NEW u, u = LowerMatmul(sh, l, i)
  PROVE  /\ IsList(u) /\ Len(u) \in Nat \ {0}
         /\ u[Len(u)] = Store(i, <<i, 3>>, l.out, "whole")
         /\ \A n \in 1 .. Len(u) - 1 : \E t, k : k \in 1 .. 5 /\ u[n] = TileStep(l, i, t, k)
<1> DEFINE m == 5 * TilesOf(sh, l) + 1
<1>1. m \in Nat \ {0}
  OBVIOUS
<1>2. u = [n \in 1 .. m |->
             IF n = m THEN Store(i, <<i, 3>>, l.out, "whole")
             ELSE TileStep(l, i, 1 + ((n - 1) \div 5), 1 + ((n - 1) % 5))]
  BY DEF LowerMatmul, Tiled
<1> HIDE DEF m
<1>3. IsList(u) /\ Len(u) = m
  <2>1. u = [n \in 1 .. m |-> u[n]]
    BY <1>2
  <2> QED BY <1>1, <2>1, Listed
<1>4. u[m] = Store(i, <<i, 3>>, l.out, "whole")
  BY <1>1, <1>2
<1>5. ASSUME NEW n \in 1 .. m - 1
      PROVE  \E t, k : k \in 1 .. 5 /\ u[n] = TileStep(l, i, t, k)
  <2> DEFINE t == 1 + ((n - 1) \div 5)
             k == 1 + ((n - 1) % 5)
  <2>1. n \in 1 .. m /\ n # m /\ k \in 1 .. 5
    BY <1>1
  <2>2. u[n] = TileStep(l, i, t, k)
    BY <1>2, <2>1
  <2> HIDE DEF t, k
  <2> QED BY <2>1, <2>2
<1> QED BY <1>1, <1>3, <1>4, <1>5

LEMMA TiledBuilds ==
  ASSUME NEW sh, NEW l, NEW i, TilesOf(sh, l) \in Nat,
         l.out \in Buffers, l.ins[1] \in Buffers, l.ins[2] \in Buffers,
         NEW u, u = LowerMatmul(sh, l, i)
  PROVE  IsList(u) /\ \A k \in 1 .. Len(u) : OpOK(u[k])
<1>1. /\ IsList(u) /\ Len(u) \in Nat \ {0}
      /\ u[Len(u)] = Store(i, <<i, 3>>, l.out, "whole")
      /\ \A n \in 1 .. Len(u) - 1 : \E t, k : k \in 1 .. 5 /\ u[n] = TileStep(l, i, t, k)
  BY TiledIs
<1>2. ASSUME NEW t, NEW k \in 1 .. 5 PROVE OpOK(TileStep(l, i, t, k))
  <2>1. k = 1 \/ k = 2 \/ k = 3 \/ k = 4 \/ k = 5
    OBVIOUS
  <2>2. /\ OpOK(Load(i, l.ins[1], "cols", t, <<i, 1>>)) /\ OpOK(Load(i, l.ins[2], "rows", t, <<i, 2>>))
        /\ OpOK(Sync(i)) /\ OpOK(Compute(i, l, << <<i, 1>>, <<i, 2>> >>, <<i, 3>>, t > 1))
    BY Built
  <2> QED BY <2>1, <2>2 DEF TileStep
<1>3. OpOK(u[Len(u)])
  BY <1>1, Built
<1>4. ASSUME NEW n \in 1 .. Len(u), n # Len(u) PROVE OpOK(u[n])
  <2>1. n \in 1 .. Len(u) - 1
    BY <1>1, <1>4
  <2> QED BY <1>1, <1>2, <2>1
<1> QED BY <1>1, <1>3, <1>4

\* What the patterns emit are operations on buffers of the function.
LEMMA Lowering ==
  ASSUME NEW f \in Functions, NEW i \in 1 .. Len(f.ops), NEW l \in Accepted(f.shape, f.ops[i]),
         NEW u, u = Lower(f.shape, l, i)
  PROVE  IsList(u) /\ \A k \in 1 .. Len(u) : OpOK(u[k])
<1>1. /\ l.kind \in {"matmul", "ewise", "act", "reduce"}
      /\ IsList(l.ins) /\ \A k \in 1 .. Len(l.ins) : l.ins[k] \in Buffers
      /\ l.out \in Buffers
      /\ l.kind = "matmul" => TilesOf(f.shape, l) \in Nat \ {0} /\ Len(l.ins) = 2
  BY Offers
<1>2. CASE l.kind = "matmul"
  <2>1. l.ins[1] \in Buffers /\ l.ins[2] \in Buffers
    BY <1>1, <1>2
  <2>2. u = LowerMatmul(f.shape, l, i)
    BY <1>2 DEF Lower
  <2> QED BY <1>1, <1>2, <2>1, <2>2, TiledBuilds
<1>3. CASE l.kind # "matmul"
  <2>1. \E part : u = Whole(l, i, part)
    BY <1>1, <1>3 DEF Lower, LowerEwise, LowerAct, LowerReduce
  <2> QED BY <1>1, <2>1, WholeBuilds
<1> QED BY <1>2, <1>3

-----------------------------------------------------------------------------
(* The inductive invariant.                                                *)

Listing ==
  /\ func \in Functions /\ at \in Nat \ {0}
  /\ IsList(ir) /\ \A k \in 1 .. Len(ir) : OpOK(ir[k])
  /\ IsList(matchList)
  /\ lastStore = [b \in Buffers |-> lastStore[b]]

\* Before the walk nothing is remembered, and before the stores' turn only
\* loads are erased.
NotYet ==
  /\ phase \in {"lower", "rejected"} => matchList = <<>> /\ \A b \in Buffers : lastStore[b] = 0
  /\ phase \in {"lower", "rejected", "walk"} => erased = {}
  /\ phase = "rewire" => \A k \in erased : ir[k].op = "load"

\* The walk remembers the last store before it.
Remembered ==
  \A b \in Buffers : lastStore[b] # 0 =>
    /\ lastStore[b] \in 1 .. Len(ir) /\ IsStoreTo(lastStore[b], b)
    /\ phase = "walk" => /\ lastStore[b] < at
                         /\ \A k \in lastStore[b] + 1 .. at - 1 : ~IsStoreTo(k, b)

Indexed ==
  \A n \in 1 .. Len(matchList) :
    matchList[n].store \in 1 .. Len(ir) /\ matchList[n].load \in 1 .. Len(ir)

Drawn == erased \subseteq 1 .. Len(ir)

ElideInv ==
  /\ Listing /\ NotYet /\ Remembered /\ Indexed /\ Drawn
  /\ LoadsMeetLastStore /\ ErasedStoresWereLast

LEMMA ElideStarts == Init => ElideInv
<1> SUFFICES ASSUME Init PROVE ElideInv
  OBVIOUS
<1>1. /\ func \in Functions /\ ir = <<>> /\ phase = "lower" /\ at = 1
      /\ lastStore = [b \in Buffers |-> 0] /\ matchList = <<>> /\ erased = {}
  BY DEF Init, ElideInit
<1>2. IsList(ir) /\ Len(ir) = 0
  BY <1>1 DEF IsList, RangeOf
<1>3. IsList(matchList) /\ Len(matchList) = 0
  BY <1>1 DEF IsList, RangeOf
<1>4. \A b \in Buffers : lastStore[b] = 0
  BY <1>1
<1>5. Listing
  BY <1>1, <1>2, <1>3 DEF Listing
<1>6. NotYet /\ Remembered
  BY <1>1, <1>4 DEF NotYet, Remembered
<1>7. Indexed /\ Drawn /\ LoadsMeetLastStore /\ ErasedStoresWereLast
  BY <1>1, <1>3 DEF Indexed, Drawn, LoadsMeetLastStore, ErasedStoresWereLast
<1> QED BY <1>5, <1>6, <1>7 DEF ElideInv

\* A step that only moves on to another phase.
LEMMA Advancing ==
  ASSUME ElideInv, UNCHANGED <<func, ir, lastStore, matchList, erased>>,
         at' \in Nat \ {0},
         phase' \in {"lower", "rejected"} => phase \in {"lower", "rejected"},
         phase' = "walk" => phase = "lower" \/ (phase = "walk" /\ at' = at),
         phase' = "rewire" => phase \in {"walk", "rewire"}
  PROVE  ElideInv'
<1> USE DEF ElideInv
<1>1. Listing'
  BY DEF Listing
<1>2. NotYet'
  BY DEF NotYet
<1>3. Remembered'
  <2>1. CASE phase = "lower"
    <3>1. \A b \in Buffers : lastStore'[b] = 0
      BY <2>1 DEF NotYet
    <3> QED BY <3>1 DEF Remembered
  <2>2. CASE phase # "lower"
    <3> SUFFICES ASSUME NEW b \in Buffers, lastStore[b] # 0
                 PROVE  /\ lastStore[b] \in 1 .. Len(ir) /\ IsStoreTo(lastStore[b], b)'
                        /\ phase' = "walk" =>
                             /\ lastStore[b] < at'
                             /\ \A k \in lastStore[b] + 1 .. at' - 1 : ~IsStoreTo(k, b)'
      BY DEF Remembered
    <3>1. lastStore[b] \in 1 .. Len(ir) /\ IsStoreTo(lastStore[b], b)'
      BY DEF Remembered, IsStoreTo
    <3>2. ASSUME phase' = "walk"
          PROVE  /\ lastStore[b] < at'
                 /\ \A k \in lastStore[b] + 1 .. at' - 1 : ~IsStoreTo(k, b)'
      BY <2>2, <3>2 DEF Remembered, IsStoreTo
    <3> QED BY <3>1, <3>2
  <2> QED BY <2>1, <2>2
<1>4. Indexed' /\ Drawn' /\ LoadsMeetLastStore' /\ ErasedStoresWereLast'
  BY DEF Indexed, Drawn, LoadsMeetLastStore, ErasedStoresWereLast, IsStoreTo, IsLoadOf
<1> QED BY <1>1, <1>2, <1>3, <1>4

\* Buffers of loads and stores.
LEMMA OnBuffers ==
  ASSUME Listing, NEW k \in 1 .. Len(ir), ir[k].op \in {"load", "store"}
  PROVE  ir[k].buf \in Buffers
<1>1. OpOK(ir[k])
  BY DEF Listing
<1> QED BY <1>1 DEF OpOK

LEMMA Lengths ==
  ASSUME Listing
  PROVE  /\ Len(ir) \in Nat /\ Len(matchList) \in Nat
         /\ DOMAIN ir = 1 .. Len(ir) /\ Len(func.ops) \in Nat
<1>1. /\ ir \in Seq(RangeOf(ir)) /\ matchList \in Seq(RangeOf(matchList)) /\ func \in Functions
  BY DEF Listing, IsList
<1>2. Len(func.ops) \in Nat
  BY <1>1, FunctionAssumption
<1> QED BY <1>1, <1>2

\* convert-linalg-to-eclipse.
LEMMA LowerKeeps == ASSUME ElideInv, LowerOne PROVE ElideInv'
<1> USE DEF ElideInv
<1>1. /\ func \in Functions /\ at \in 1 .. Len(func.ops) /\ func' = func
      /\ at' = at + 1 /\ at' \in Nat \ {0}
      /\ phase = "lower" /\ phase' = "lower" /\ lastStore' = lastStore
      /\ matchList' = <<>> /\ erased' = {}
  BY Lengths DEF Listing, LowerOne, NotYet
<1>2. PICK l \in Accepted(func.shape, func.ops[at]) : ir' = ir \o Lower(func.shape, l, at)
  BY DEF LowerOne
<1> DEFINE t == Lower(func.shape, l, at)
<1>3. IsList(t) /\ \A k \in 1 .. Len(t) : OpOK(t[k])
  BY <1>1, <1>2, Lowering
<1>4. /\ IsList(ir) /\ Len(ir) \in Nat /\ \A k \in 1 .. Len(ir) : OpOK(ir[k])
      /\ ir' = ir \o t
  BY <1>2, Lengths DEF Listing
<1> HIDE DEF t
<1>5. /\ IsList(ir') /\ Len(t) \in Nat /\ Len(ir') = Len(ir) + Len(t)
      /\ \A k \in 1 .. Len(ir) : ir'[k] = ir[k]
      /\ \A k \in 1 .. Len(t) : ir'[Len(ir) + k] = t[k]
  BY <1>3, <1>4, Joining
<1>6. ASSUME NEW k \in 1 .. Len(ir') PROVE OpOK(ir'[k])
  <2>1. CASE k \in 1 .. Len(ir)
    BY <1>4, <1>5, <2>1
  <2>2. CASE k > Len(ir)
    <3> DEFINE j == k - Len(ir)
    <3>1. j \in 1 .. Len(t) /\ k = Len(ir) + j
      BY <1>4, <1>5, <2>2
    <3> HIDE DEF j
    <3>2. ir'[Len(ir) + j] = t[j]
      BY <1>5, <3>1
    <3> QED BY <1>3, <3>1, <3>2
  <2> QED BY <1>4, <2>1, <2>2
<1>7. Len(matchList') = 0 /\ matchList' = matchList
  BY <1>1 DEF NotYet
<1>8. \A b \in Buffers : lastStore'[b] = 0
  BY <1>1 DEF NotYet
<1>9. Listing'
  BY <1>1, <1>5, <1>6, <1>7 DEF Listing
<1>10. NotYet' /\ Remembered'
  BY <1>1, <1>8 DEF NotYet, Remembered
<1>11. Indexed' /\ Drawn' /\ LoadsMeetLastStore' /\ ErasedStoresWereLast'
  BY <1>1, <1>7 DEF Indexed, Drawn, LoadsMeetLastStore, ErasedStoresWereLast
<1> QED BY <1>9, <1>10, <1>11

\* A step of the walk that pairs nothing keeps the pairs.
LEMMA Visiting ==
  ASSUME ElideInv, Visit, matchList' = matchList
  PROVE  /\ phase = "walk" /\ at \in 1 .. Len(ir) /\ at' = at + 1 /\ at' \in Nat \ {0}
         /\ NotYet' /\ Indexed' /\ Drawn' /\ LoadsMeetLastStore' /\ ErasedStoresWereLast'
<1> USE DEF ElideInv
<1>1. /\ phase = "walk" /\ at' = at + 1 /\ UNCHANGED <<func, low, ir, phase, erased>>
      /\ at <= Len(ir)
  BY DEF Visit
<1>2. at \in Nat \ {0} /\ Len(ir) \in Nat
  BY Lengths DEF Listing
<1>3. NotYet'
  BY <1>1 DEF NotYet
<1>4. Indexed' /\ Drawn' /\ LoadsMeetLastStore' /\ ErasedStoresWereLast'
  BY <1>1 DEF Indexed, Drawn, LoadsMeetLastStore, ErasedStoresWereLast, IsStoreTo, IsLoadOf
<1> QED BY <1>1, <1>2, <1>3, <1>4

LEMMA WalkStoreKeeps == ASSUME ElideInv, WalkStore PROVE ElideInv'
<1>1. Visit /\ matchList' = matchList /\ ir[at].op = "store" /\ ir' = ir /\ func' = func
      /\ phase' = phase
  BY DEF WalkStore, Visit
<1>2. /\ phase = "walk" /\ at \in 1 .. Len(ir) /\ at' = at + 1 /\ at' \in Nat \ {0}
      /\ NotYet' /\ Indexed' /\ Drawn' /\ LoadsMeetLastStore' /\ ErasedStoresWereLast'
  BY <1>1, Visiting
<1> USE DEF ElideInv
<1> DEFINE c == ir[at].buf
<1>3. c \in Buffers
  BY <1>1, <1>2, OnBuffers
<1>4. \/ ir[at].part = "whole" /\ lastStore' = [lastStore EXCEPT ![c] = at]
      \/ ir[at].part # "whole" /\ lastStore' = lastStore
  BY DEF WalkStore
<1> HIDE DEF c
<1>5. lastStore' = [b \in Buffers |-> lastStore'[b]]
  BY <1>3, <1>4 DEF Listing
<1>6. Listing'
  BY <1>1, <1>2, <1>5 DEF Listing
<1>7. ASSUME NEW b \in Buffers, lastStore'[b] # 0
      PROVE  /\ lastStore'[b] \in 1 .. Len(ir) /\ IsStoreTo(lastStore'[b], b)
             /\ lastStore'[b] < at + 1
             /\ \A k \in lastStore'[b] + 1 .. at : ~IsStoreTo(k, b)
  <2>1. CASE IsStoreTo(at, b)
    <3>1. c = b /\ ir[at].part = "whole"
      BY <2>1 DEF IsStoreTo, c
    <3>2. lastStore'[b] = at
      BY <1>3, <1>4, <3>1 DEF Listing
    <3> QED BY <1>2, <2>1, <3>2
  <2>2. CASE ~IsStoreTo(at, b)
    <3>1. c # b \/ ir[at].part # "whole"
      BY <1>1, <2>2 DEF IsStoreTo, c
    <3>2. lastStore'[b] = lastStore[b]
      BY <1>3, <1>4, <3>1 DEF Listing
    <3>3. /\ lastStore[b] \in 1 .. Len(ir) /\ IsStoreTo(lastStore[b], b) /\ lastStore[b] < at
          /\ \A k \in lastStore[b] + 1 .. at - 1 : ~IsStoreTo(k, b)
      BY <1>2, <1>7, <3>2 DEF Remembered
    <3> QED BY <1>2, <2>2, <3>2, <3>3
  <2> QED BY <2>1, <2>2
<1>8. Remembered'
  BY <1>1, <1>2, <1>7 DEF Remembered, IsStoreTo
<1> QED BY <1>2, <1>6, <1>8

LEMMA WalkOtherKeeps == ASSUME ElideInv, WalkOther PROVE ElideInv'
<1>1. /\ Visit /\ matchList' = matchList /\ ir[at].op # "store" /\ ir' = ir /\ func' = func
      /\ phase' = phase /\ lastStore' = lastStore
  BY DEF WalkOther, Visit
<1>2. /\ phase = "walk" /\ at \in 1 .. Len(ir) /\ at' = at + 1 /\ at' \in Nat \ {0}
      /\ NotYet' /\ Indexed' /\ Drawn' /\ LoadsMeetLastStore' /\ ErasedStoresWereLast'
  BY <1>1, Visiting
<1> USE DEF ElideInv
<1>3. Listing'
  BY <1>1, <1>2 DEF Listing
<1>4. Remembered'
  BY <1>1, <1>2 DEF Remembered, IsStoreTo
<1> QED BY <1>2, <1>3, <1>4

LEMMA WalkMatchKeeps == ASSUME ElideInv, WalkMatch PROVE ElideInv'
<1> USE DEF ElideInv
<1> DEFINE b == ir[at].buf
           m == [store |-> lastStore[b], load |-> at]
<1>1. /\ phase = "walk" /\ phase' = "walk" /\ at <= Len(ir) /\ at' = at + 1
      /\ UNCHANGED <<func, ir, erased, lastStore>> /\ matchList' = Append(matchList, m)
      /\ IsMatch(at)
  BY DEF WalkMatch, Visit
<1>2. at \in 1 .. Len(ir) /\ at' \in Nat \ {0} /\ Len(ir) \in Nat /\ Len(matchList) \in Nat
  BY <1>1, Lengths DEF Listing
<1>3. /\ ir[at].op = "load" /\ ir[at].part = "whole" /\ lastStore[b] # 0
      /\ SameBlock(lastStore[b], at)
  BY <1>1 DEF IsMatch
<1>4. b \in Buffers
  BY <1>2, <1>3, OnBuffers
<1>5. /\ lastStore[b] \in 1 .. Len(ir) /\ IsStoreTo(lastStore[b], b) /\ lastStore[b] < at
      /\ \A k \in lastStore[b] + 1 .. at - 1 : ~IsStoreTo(k, b)
  BY <1>1, <1>3, <1>4 DEF Remembered
<1>6. IsLoadOf(at, b) /\ (InLoop(func, ir[lastStore[b]].at) <=> InLoop(func, ir[at].at))
  BY <1>3 DEF IsLoadOf, SameBlock
<1>7. m.store = lastStore[b] /\ m.load = at
  OBVIOUS
<1> HIDE DEF m
<1>8. /\ IsList(matchList') /\ Len(matchList') = Len(matchList) + 1
      /\ matchList'[Len(matchList) + 1] = m
      /\ \A n \in 1 .. Len(matchList) : matchList'[n] = matchList[n]
  BY <1>1, Adding DEF Listing
<1>9. Listing'
  BY <1>1, <1>2, <1>8 DEF Listing
<1>10. NotYet'
  BY <1>1 DEF NotYet
<1>11. Remembered'
  BY <1>1, <1>2, <1>3 DEF Remembered, IsStoreTo
<1>12. Indexed' /\ Drawn'
  BY <1>1, <1>2, <1>5, <1>7, <1>8 DEF Indexed, Drawn
<1>0. UNCHANGED <<func, ir>>
  BY <1>1
<1>13. LoadsMeetLastStore'
  <2> SUFFICES ASSUME NEW n \in 1 .. Len(matchList'),
                      NEW s, s = matchList'[n].store, NEW l, l = matchList'[n].load,
                      NEW c, c = ir[l].buf
               PROVE  /\ s < l /\ IsStoreTo(s, c) /\ IsLoadOf(l, c)
                      /\ InLoop(func, ir[s].at) <=> InLoop(func, ir[l].at)
                      /\ \A k \in s + 1 .. l - 1 : ~IsStoreTo(k, c)
    BY <1>0 DEF LoadsMeetLastStore, IsStoreTo, IsLoadOf
  <2>1. CASE n \in 1 .. Len(matchList)
    BY <1>8, <2>1 DEF LoadsMeetLastStore
  <2>2. CASE n = Len(matchList) + 1
    <3>1. s = lastStore[b] /\ l = at /\ c = b
      BY <1>7, <1>8, <2>2
    <3> HIDE DEF b
    <3> QED BY <1>5, <1>6, <3>1
  <2> QED BY <1>2, <1>8, <2>1, <2>2
<1>14. ErasedStoresWereLast'
  BY <1>1 DEF ErasedStoresWereLast, IsStoreTo, IsLoadOf
<1> QED BY <1>9, <1>10, <1>11, <1>12, <1>13, <1>14

\* Two operations that differ in their SRAM operands at most.
Alike(r, o) ==
  /\ OpOK(r) /\ r.op = o.op /\ r.at = o.at
  /\ o.op \in {"load", "store"} => r.buf = o.buf /\ r.part = o.part

\* Rewiring keeps what every operation is, and the buffer of a load or store.
LEMMA RewireSame ==
  ASSUME ElideInv, Rewire
  PROVE  /\ IsList(ir') /\ Len(ir') = Len(ir)
         /\ \A k \in 1 .. Len(ir) : Alike(ir'[k], ir[k])
<1> USE DEF ElideInv
<1> DEFINE m == matchList[at]
           old == ir[m.load].sram
           new == ir[m.store].sram
<1>1. ir' = [k \in DOMAIN ir |-> Replace(ir[k], ir[m.load].sram, ir[m.store].sram)]
  BY DEF Rewire
<1>2. /\ Len(ir) \in Nat /\ DOMAIN ir = 1 .. Len(ir) /\ \A k \in 1 .. Len(ir) : OpOK(ir[k])
  BY Lengths DEF Listing
<1>3. ir' = [k \in 1 .. Len(ir) |-> Replace(ir[k], old, new)]
  BY <1>1, <1>2
<1> HIDE DEF m, old, new
<1>4. IsList(ir') /\ Len(ir') = Len(ir)
  <2>1. ir' = [k \in 1 .. Len(ir) |-> ir'[k]]
    BY <1>3
  <2> QED BY <1>2, <2>1, Listed
<1>5. ASSUME NEW k \in 1 .. Len(ir) PROVE Alike(ir'[k], ir[k])
  <2>1. OpOK(ir[k]) /\ ir'[k] = Replace(ir[k], old, new)
    BY <1>2, <1>3
  <2> QED BY <2>1, Replacing DEF Alike
<1> QED BY <1>4, <1>5

LEMMA RewireKeeps == ASSUME ElideInv, Rewire PROVE ElideInv'
<1> USE DEF ElideInv
<1> DEFINE m == matchList[at]
<1>1. /\ phase = "rewire" /\ phase' = "rewire" /\ at <= Len(matchList) /\ at' = at + 1
      /\ erased' = erased \union {m.load}
      /\ UNCHANGED <<func, lastStore, matchList>>
  BY DEF Rewire
<1>2. /\ at \in 1 .. Len(matchList) /\ at' \in Nat \ {0} /\ Len(ir) \in Nat
      /\ Len(matchList) \in Nat
  BY <1>1, Lengths DEF Listing
<1>4. m.load \in 1 .. Len(ir) /\ ir[m.load].op = "load"
  BY <1>2 DEF Indexed, LoadsMeetLastStore, IsLoadOf
<1> HIDE DEF m
<1>5. IsList(ir') /\ Len(ir') = Len(ir)
  BY RewireSame
<1>6. ASSUME NEW k \in 1 .. Len(ir)
      PROVE  /\ OpOK(ir'[k]) /\ ir'[k].op = ir[k].op /\ ir'[k].at = ir[k].at
             /\ ir[k].op \in {"load", "store"} =>
                  ir'[k].buf = ir[k].buf /\ ir'[k].part = ir[k].part
  BY RewireSame DEF Alike
<1>7. ASSUME NEW k \in 1 .. Len(ir), NEW b
      PROVE  (IsStoreTo(k, b)' <=> IsStoreTo(k, b)) /\ (IsLoadOf(k, b)' <=> IsLoadOf(k, b))
  BY <1>6 DEF IsStoreTo, IsLoadOf
<1>8. Listing'
  BY <1>1, <1>2, <1>5, <1>6 DEF Listing
<1>9. NotYet'
  <2>1. ASSUME NEW k \in erased' PROVE ir'[k].op = "load"
    <3>1. CASE k = m.load
      BY <1>4, <1>6, <3>1
    <3>2. CASE k \in erased
      <4>1. ir[k].op = "load"
        BY <1>1, <3>2 DEF NotYet
      <4>2. k \in 1 .. Len(ir)
        BY <3>2 DEF Drawn
      <4> QED BY <1>6, <4>1, <4>2
    <3> QED BY <1>1, <2>1, <3>1, <3>2
  <2> QED BY <1>1, <2>1 DEF NotYet
<1>10. Remembered'
  BY <1>1, <1>5, <1>7 DEF Remembered
<1>11. Indexed' /\ Drawn'
  BY <1>1, <1>4, <1>5 DEF Indexed, Drawn
<1>12. LoadsMeetLastStore'
  <2> SUFFICES ASSUME NEW n \in 1 .. Len(matchList),
                      NEW s, s = matchList[n].store, NEW l, l = matchList[n].load,
                      NEW c, c = ir'[l].buf
               PROVE  /\ s < l /\ IsStoreTo(s, c)' /\ IsLoadOf(l, c)'
                      /\ InLoop(func, ir'[s].at) <=> InLoop(func, ir'[l].at)
                      /\ \A k \in s + 1 .. l - 1 : ~IsStoreTo(k, c)'
    BY <1>1 DEF LoadsMeetLastStore
  <2>1. s \in 1 .. Len(ir) /\ l \in 1 .. Len(ir)
    BY DEF Indexed
  <2> DEFINE d == ir[l].buf
  <2>2. /\ s < l /\ IsStoreTo(s, d) /\ IsLoadOf(l, d)
        /\ InLoop(func, ir[s].at) <=> InLoop(func, ir[l].at)
        /\ \A k \in s + 1 .. l - 1 : ~IsStoreTo(k, d)
    BY DEF LoadsMeetLastStore
  <2>3. c = d /\ ir'[s].at = ir[s].at /\ ir'[l].at = ir[l].at
    BY <1>6, <2>1, <2>2 DEF IsLoadOf
  <2> HIDE DEF d
  <2>4. ASSUME NEW k \in s + 1 .. l - 1 PROVE ~IsStoreTo(k, c)'
    <3>1. k \in 1 .. Len(ir) /\ ~IsStoreTo(k, c)
      BY <1>2, <2>1, <2>2, <2>3
    <3> QED BY <1>7, <3>1
  <2> QED BY <1>7, <2>1, <2>2, <2>3, <2>4
<1>13. ErasedStoresWereLast'
  <2>1. \A k \in erased' : ir'[k].op # "store"
    BY <1>1, <1>9 DEF NotYet
  <2> QED BY <2>1 DEF ErasedStoresWereLast
<1> QED BY <1>8, <1>9, <1>10, <1>11, <1>12, <1>13

\* A store is erased when no cast of its buffer is left but its own.
LEMMA EraseKeeps == ASSUME ElideInv, EraseStore PROVE ElideInv'
<1> USE DEF ElideInv
<1> DEFINE s == matchList[at].store
<1>1. /\ phase = "erase" /\ phase' = "erase" /\ at <= Len(matchList) /\ at' = at + 1
      /\ UNCHANGED <<func, ir, lastStore, matchList>>
      /\ erased' = erased \/ (erased' = erased \union {s} /\ RootIsDead(s))
  BY DEF EraseStore
<1>2. /\ at \in 1 .. Len(matchList) /\ at' \in Nat \ {0} /\ s \in 1 .. Len(ir)
  BY <1>1, Lengths DEF Listing, Indexed
<1> HIDE DEF s
<1>3. Listing' /\ NotYet'
  BY <1>1, <1>2 DEF Listing, NotYet
<1>4. Remembered' /\ Indexed' /\ LoadsMeetLastStore' /\ Drawn'
  <2>1. Remembered'
    BY <1>1 DEF Remembered, IsStoreTo
  <2>2. Indexed' /\ Drawn'
    BY <1>1, <1>2 DEF Indexed, Drawn
  <2>3. LoadsMeetLastStore'
    BY <1>1 DEF LoadsMeetLastStore, IsStoreTo, IsLoadOf
  <2> QED BY <2>1, <2>2, <2>3
<1>5. ErasedStoresWereLast'
  <2> SUFFICES ASSUME NEW x \in erased', ir[x].op = "store"
               PROVE  /\ ir[x].buf \notin func.ret
                      /\ \A k \in DOMAIN ir \ erased' :
                           ~IsStoreTo(k, ir[x].buf) /\ ~IsLoadOf(k, ir[x].buf)
    BY <1>1 DEF ErasedStoresWereLast, IsStoreTo, IsLoadOf
  <2>1. CASE x \in erased
    BY <1>1, <2>1 DEF ErasedStoresWereLast
  <2>2. CASE x \notin erased
    <3>1. x = s /\ erased' = erased \union {s} /\ RootIsDead(s)
      BY <1>1, <2>2
    <3>2. /\ ir[s].buf \notin func.ret
          /\ \A k \in UsersOf(ir[s].buf) : k = s \/ ir[k].part \in {"cols", "rows"}
      BY <3>1 DEF RootIsDead
    <3> QED BY <3>1, <3>2 DEF UsersOf, IsStoreTo, IsLoadOf
  <2> QED BY <2>1, <2>2
<1> QED BY <1>3, <1>4, <1>5

-----------------------------------------------------------------------------

\* What a step is to the pass.
LEMMA PassSteps ==
  ASSUME [Next]_compileVars
  PROVE  \/ LowerOne \/ WalkStore \/ WalkMatch \/ WalkOther \/ Rewire \/ EraseStore
         \/ Reject \/ Crash
         \/ Lowered \/ Walked \/ Rewired \/ Elided
         \/ UNCHANGED elideVars
<1>1. Elide => \/ LowerOne \/ Reject \/ Lowered \/ WalkStore \/ WalkMatch \/ WalkOther
               \/ Walked \/ Rewire \/ Rewired \/ EraseStore \/ Elided
  BY DEF Elide, ElideNext
<1>2. Canonicalize \/ Allocate \/ Emit \/ Stopped \/ UNCHANGED compileVars
         => UNCHANGED elideVars
  BY DEF Canonicalize, Allocate, Emit, Stopped, compileVars
<1> QED BY <1>1, <1>2 DEF Next

LEMMA ElideStep == ElideInv /\ [Next]_compileVars => ElideInv'
<1> SUFFICES ASSUME ElideInv, [Next]_compileVars PROVE ElideInv'
  OBVIOUS
<1>1. CASE LowerOne
  BY <1>1, LowerKeeps
<1>2. CASE WalkStore
  BY <1>2, WalkStoreKeeps
<1>3. CASE WalkMatch
  BY <1>3, WalkMatchKeeps
<1>4. CASE WalkOther
  BY <1>4, WalkOtherKeeps
<1>5. CASE Rewire
  BY <1>5, RewireKeeps
<1>6. CASE EraseStore
  BY <1>6, EraseKeeps
<1>7. CASE Reject \/ Crash
  <2>1. /\ UNCHANGED <<func, ir, at, lastStore, matchList, erased>>
        /\ (phase = "lower" /\ phase' = "rejected") \/ phase' = "crashed"
    BY <1>7 DEF Reject, Crash
  <2>2. at' \in Nat \ {0}
    BY <2>1 DEF ElideInv, Listing
  <2> QED BY <2>1, <2>2, Advancing
<1>8. CASE Lowered \/ Walked \/ Rewired \/ Elided
  <2>1. /\ UNCHANGED <<func, ir, lastStore, matchList, erased>> /\ at' = 1
        /\ \/ phase = "lower" /\ phase' = "walk"
           \/ phase = "walk" /\ phase' = "rewire"
           \/ phase = "rewire" /\ phase' = "erase"
           \/ phase = "erase" /\ phase' = "allocate"
    <3>1. CASE Lowered
      BY <3>1 DEF Lowered, StartPass
    <3>2. CASE Walked
      BY <3>2 DEF Walked, StartPass
    <3>3. CASE Rewired
      BY <3>3 DEF Rewired, StartPass
    <3>4. CASE Elided
      BY <3>4 DEF Elided, StartPass
    <3> QED BY <1>8, <3>1, <3>2, <3>3, <3>4
  <2> QED BY <2>1, Advancing
<1>9. CASE UNCHANGED elideVars
  <2>1. UNCHANGED <<func, ir, phase, at, lastStore, matchList, erased>>
    BY <1>9 DEF elideVars
  <2>2. at' \in Nat \ {0}
    BY <2>1 DEF ElideInv, Listing
  <2> QED BY <2>1, <2>2, Advancing
<1> QED BY <1>1, <1>2, <1>3, <1>4, <1>5, <1>6, <1>7, <1>8, <1>9, PassSteps

\* At every moment of every compilation, each load is paired with the last
\* store to its buffer ahead of it in its own block (the walk of
\* EclipseElideCopies::runOnOperation).
THEOREM LoadsMeetTheirStores == Spec => []LoadsMeetLastStore
<1>1. ElideInv => LoadsMeetLastStore
  BY DEF ElideInv
<1> QED BY <1>1, ElideStarts, ElideStep, PTL DEF Spec

\* Whatever the function, a store is erased only when its buffer is not
\* returned, and nothing is left that reads or writes it but through the tiles
\* of a matmul (rootIsDead).
THEOREM ErasedStoresHadNoUser == Spec => []ErasedStoresWereLast
<1>1. ElideInv => ErasedStoresWereLast
  BY DEF ElideInv
<1> QED BY <1>1, ElideStarts, ElideStep, PTL DEF Spec
-----------------------------------------------------------------------------
(* Chains.  The operations of the dialect keep to the order of the         *)
(* function, with one store for each of its operations; the walk pairs     *)
(* every load that has a store to meet, and what is paired goes.           *)

ReadBy(o, b) == \E k \in DOMAIN o.ins : o.ins[k] = b
SameInputs(l, o) == \A b : ReadBy(o, b) <=> \E k \in 1 .. Len(l.ins) : l.ins[k] = b

\* A reduction to rank 1 is stored through an expand_shape.
Flattens(sh, l, o) == l.kind = "reduce" /\ Len(sh[o.out]) = 1

StoreOf(u, k, sh, l, o) ==
  u[k].op = "store" => u[k].buf = o.out /\ (u[k].part = "whole" \/ Flattens(sh, l, o))

LoadOf(u, k, l, o) ==
  u[k].op = "load" => ReadBy(o, u[k].buf) /\ (u[k].part = "whole" \/ l.kind = "matmul")

\* Operation i is stored once, and reads its whole operands.
StoredOnce(u, i) ==
  /\ \E e \in 1 .. Len(u) : u[e].op = "store" /\ u[e].at = i
  /\ \A k, m \in 1 .. Len(u) :
       u[k].op = "store" /\ u[m].op = "store" /\ u[k].at = i /\ u[m].at = i => k = m

Loaded(u, i, l, o) ==
  l.kind # "matmul" =>
    \A b : ReadBy(o, b) => \E k \in 1 .. Len(u) : u[k].op = "load" /\ u[k].at = i /\ u[k].buf = b

\* The operations u of the dialect are what operation i of the function, o,
\* recognised as l, becomes.
Becomes(u, i, sh, l, o) ==
  /\ IsList(u)
  /\ \A k \in 1 .. Len(u) : u[k].at = i /\ StoreOf(u, k, sh, l, o) /\ LoadOf(u, k, l, o)
  /\ StoredOnce(u, i) /\ Loaded(u, i, l, o)

\* A pattern keeps the output, and the inputs up to their order.
LEMMA Operands ==
  ASSUME NEW f \in Functions, NEW i \in 1 .. Len(f.ops), NEW l \in Accepted(f.shape, f.ops[i]),
         NEW o, o = f.ops[i]
  PROVE  l.out = o.out /\ SameInputs(l, o)
<1> DEFINE sh == f.shape
<1>1. /\ o.form \in {"named", "reduce", "generic"} /\ o.ins \in Seq(Buffers)
      /\ l \in Recognised(sh, o)
  BY FunctionAssumption DEF Accepted
<1>2. DOMAIN o.ins = 1 .. Len(o.ins) /\ Len(o.ins) \in Nat
  BY <1>1
<1> HIDE DEF sh
<1>3. CASE l.ins = o.ins /\ l.out = o.out
  BY <1>2, <1>3 DEF ReadBy, SameInputs
<1>4. CASE o.form = "named"
  <2>1. l \in NamedLowering(o)
    BY <1>1, <1>4 DEF Recognised
  <2> QED BY <1>3, <2>1 DEF NamedLowering, Linalg
<1>5. CASE o.form = "reduce"
  <2>1. l \in NamedReduceLowering(sh, o)
    BY <1>1, <1>5 DEF Recognised
  <2> QED BY <1>3, <2>1 DEF NamedReduceLowering, Linalg
<1>6. CASE o.form = "generic"
  <2>1. l \in EwiseBroadcastLowering(sh, o) \union GenericReduceLowering(o) \union ActLowering(o)
    BY <1>1, <1>6 DEF Recognised
  <2>2. CASE l \in EwiseBroadcastLowering(sh, o)
    <3> DEFINE big   == IF sh[o.ins[1]] = sh[o.out] THEN 1 ELSE 2
               pair == <<o.ins[big], o.ins[3 - big]>>
    <3>1. Len(o.ins) = 2 /\ l = Linalg("ewise", o.body.fn, pair, o.out)
      BY <2>2 DEF EwiseBroadcastLowering
    <3>2. big = 1 \/ big = 2
      OBVIOUS
    <3>3. Len(pair) = 2 /\ pair[1] = o.ins[big] /\ pair[2] = o.ins[3 - big]
      OBVIOUS
    <3>4. l.ins = pair /\ l.out = o.out
      BY <3>1 DEF Linalg
    <3> HIDE DEF big, pair
    <3>5. \A c : ReadBy(o, c) <=> c = o.ins[1] \/ c = o.ins[2]
      <4>1. DOMAIN o.ins = 1 .. 2
        BY <1>2, <3>1
      <4> QED BY <4>1 DEF ReadBy
    <3>6. \A c : (\E k \in 1 .. Len(l.ins) : l.ins[k] = c) <=> c = pair[1] \/ c = pair[2]
      <4>1. 1 .. Len(l.ins) = 1 .. 2
        BY <3>3, <3>4
      <4>2. \A k \in 1 .. 2 : k = 1 \/ k = 2
        OBVIOUS
      <4> QED BY <3>4, <4>1, <4>2
    <3>7. \A c : (c = pair[1] \/ c = pair[2]) <=> (c = o.ins[1] \/ c = o.ins[2])
      BY <3>2, <3>3
    <3> QED BY <3>4, <3>5, <3>6, <3>7, Zenon DEF SameInputs
  <2>3. CASE l \in GenericReduceLowering(o)
    BY <1>3, <2>3 DEF GenericReduceLowering, Linalg
  <2>4. CASE l \in ActLowering(o)
    BY <1>3, <2>4 DEF ActLowering, Linalg
  <2> QED BY <2>1, <2>2, <2>3, <2>4
<1> QED BY <1>1, <1>4, <1>5, <1>6

LEMMA WholeBecomes ==
  ASSUME NEW l, NEW i, NEW part, IsList(l.ins), NEW o, l.out = o.out,
         SameInputs(l, o),
         NEW sh, part = "whole" \/ Flattens(sh, l, o),
         NEW u, u = Whole(l, i, part)
  PROVE  Becomes(u, i, sh, l, o)
<1> DEFINE n == Len(l.ins)
<1>1. ListsWhole(u, n, l, i, part)
  BY WholeIs
<1>2. IsList(u) /\ n \in Nat /\ Len(u) = n + 4
  BY <1>1 DEF ListsWhole
<1>3. ASSUME NEW k \in 1 .. n
      PROVE  /\ u[k].op = "load" /\ u[k].at = i /\ u[k].buf = l.ins[k] /\ u[k].part = "whole"
  <2>1. u[k] = Load(i, l.ins[k], "whole", 0, <<i, k>>)
    BY <1>1 DEF ListsWhole
  <2> QED BY <2>1 DEF Load
<1>4. /\ u[n + 1].op = "sync" /\ u[n + 2].op = "compute" /\ u[n + 3].op = "sync"
      /\ u[n + 1].at = i /\ u[n + 2].at = i /\ u[n + 3].at = i
  BY <1>1 DEF ListsWhole, Sync, Compute
<1>5. /\ u[n + 4].op = "store" /\ u[n + 4].at = i /\ u[n + 4].buf = o.out /\ u[n + 4].part = part
  BY <1>1 DEF ListsWhole, Store
<1>6. \A k \in 1 .. n : ReadBy(o, l.ins[k])
  BY DEF SameInputs
<1>7. \A b : ReadBy(o, b) => \E k \in 1 .. n : l.ins[k] = b
  BY DEF SameInputs
<1> HIDE DEF n
<1>8. \A k \in 1 .. Len(u) : k \in 1 .. n \/ k = n + 1 \/ k = n + 2 \/ k = n + 3 \/ k = n + 4
  BY <1>2
<1>9. ASSUME NEW k \in 1 .. Len(u)
      PROVE  /\ u[k].at = i /\ StoreOf(u, k, sh, l, o) /\ LoadOf(u, k, l, o)
             /\ u[k].op = "store" => k = n + 4
  BY <1>3, <1>4, <1>5, <1>6, <1>8 DEF StoreOf, LoadOf
<1>10. n + 4 \in 1 .. Len(u)
  BY <1>2
<1>11. StoredOnce(u, i)
  BY <1>5, <1>9, <1>10 DEF StoredOnce
<1>12. Loaded(u, i, l, o)
  <2> SUFFICES ASSUME NEW b, ReadBy(o, b)
               PROVE  \E k \in 1 .. Len(u) : u[k].op = "load" /\ u[k].at = i /\ u[k].buf = b
    BY DEF Loaded
  <2>1. PICK k \in 1 .. n : l.ins[k] = b
    BY <1>7
  <2>2. k \in 1 .. Len(u)
    BY <1>2
  <2> QED BY <1>3, <2>1, <2>2
<1> QED BY <1>2, <1>9, <1>11, <1>12 DEF Becomes

LEMMA TiledBecomes ==
  ASSUME NEW sh, NEW l, NEW i, TilesOf(sh, l) \in Nat, l.kind = "matmul", NEW o, l.out = o.out,
         ReadBy(o, l.ins[1]), ReadBy(o, l.ins[2]), NEW u, u = LowerMatmul(sh, l, i)
  PROVE  Becomes(u, i, sh, l, o)
<1>1. /\ IsList(u) /\ Len(u) \in Nat \ {0}
      /\ u[Len(u)] = Store(i, <<i, 3>>, l.out, "whole")
      /\ \A n \in 1 .. Len(u) - 1 : \E t, k : k \in 1 .. 5 /\ u[n] = TileStep(l, i, t, k)
  BY TiledIs
<1>2. /\ u[Len(u)].op = "store" /\ u[Len(u)].at = i /\ u[Len(u)].buf = o.out
      /\ u[Len(u)].part = "whole"
  BY <1>1 DEF Store
<1>3. ASSUME NEW t, NEW k \in 1 .. 5, NEW e, e = TileStep(l, i, t, k)
      PROVE  /\ e.at = i /\ e.op # "store"
             /\ e.op = "load" => e.buf = l.ins[1] \/ e.buf = l.ins[2]
  <2>1. k = 1 \/ k = 2 \/ k = 3 \/ k = 4 \/ k = 5
    OBVIOUS
  <2>2. CASE k = 1
    BY <1>3, <2>2 DEF TileStep, Load
  <2>3. CASE k = 2
    BY <1>3, <2>3 DEF TileStep, Load
  <2>4. CASE k = 3 \/ k = 5
    BY <1>3, <2>4 DEF TileStep, Sync
  <2>5. CASE k = 4
    BY <1>3, <2>5 DEF TileStep, Compute
  <2> QED BY <2>1, <2>2, <2>3, <2>4, <2>5
<1>4. ASSUME NEW n \in 1 .. Len(u)
      PROVE  /\ u[n].at = i /\ StoreOf(u, n, sh, l, o) /\ LoadOf(u, n, l, o)
             /\ u[n].op = "store" => n = Len(u)
  <2>1. CASE n = Len(u)
    BY <1>2, <2>1 DEF StoreOf, LoadOf
  <2>2. CASE n # Len(u)
    <3>1. n \in 1 .. Len(u) - 1
      BY <1>1, <2>2
    <3>2. PICK t, k : k \in 1 .. 5 /\ u[n] = TileStep(l, i, t, k)
      BY <1>1, <3>1
    <3>3. /\ u[n].at = i /\ u[n].op # "store"
          /\ u[n].op = "load" => u[n].buf = l.ins[1] \/ u[n].buf = l.ins[2]
      BY <1>3, <3>2
    <3> QED BY <3>3 DEF StoreOf, LoadOf
  <2> QED BY <2>1, <2>2
<1>5. Len(u) \in 1 .. Len(u)
  BY <1>1
<1>6. StoredOnce(u, i)
  BY <1>2, <1>4, <1>5 DEF StoredOnce
<1> QED BY <1>1, <1>4, <1>6 DEF Becomes, Loaded

LEMMA LoweringBecomes ==
  ASSUME NEW f \in Functions, NEW i \in 1 .. Len(f.ops), NEW l \in Accepted(f.shape, f.ops[i]),
         NEW u, u = Lower(f.shape, l, i)
  PROVE  Becomes(u, i, f.shape, l, f.ops[i])
<1> DEFINE o == f.ops[i]
           sh == f.shape
<1>1. /\ l.kind \in {"matmul", "ewise", "act", "reduce"} /\ IsList(l.ins)
      /\ l.kind = "matmul" => TilesOf(sh, l) \in Nat \ {0} /\ Len(l.ins) = 2
  BY Offers
<1>2. l.out = o.out /\ SameInputs(l, o)
  BY Operands
<1> HIDE DEF o, sh
<1>3. CASE l.kind = "matmul"
  <2>1. ReadBy(o, l.ins[1]) /\ ReadBy(o, l.ins[2])
    BY <1>1, <1>2, <1>3 DEF SameInputs
  <2>2. u = LowerMatmul(sh, l, i)
    BY <1>3 DEF Lower, sh
  <2> QED BY <1>1, <1>2, <1>3, <2>1, <2>2, TiledBecomes DEF o, sh
<1>4. CASE l.kind # "matmul"
  <2>1. PICK part : u = Whole(l, i, part) /\ (part = "whole" \/ Flattens(sh, l, o))
    BY <1>1, <1>2, <1>4 DEF Lower, LowerEwise, LowerAct, LowerReduce, Flattens, sh
  <2>2. Becomes(u, i, sh, l, o)
    BY <1>1, <1>2, <2>1, WholeBecomes
  <2> QED BY <2>2 DEF o, sh
<1> QED BY <1>3, <1>4
-----------------------------------------------------------------------------
(* The invariant of chains.                                                *)

Recognition ==
  /\ IsList(low) /\ Len(low) <= Len(func.ops)
  /\ phase = "lower" => at = Len(low) + 1
  /\ phase \in {"walk", "rewire", "erase", "allocate"} => Len(low) = Len(func.ops)

\* Operations of the dialect in the order of the first n of the function.
OrderOf(u, n) ==
  /\ \A k \in 1 .. Len(u) : u[k].at \in 1 .. n
  /\ \A k, m \in 1 .. Len(u) : k < m => u[k].at <= u[m].at

\* They are what the operations of f, recognised as lo, become.
TraceOf(u, lo, f) ==
  /\ \A k \in 1 .. Len(u) :
       LET i == u[k].at
       IN  StoreOf(u, k, f.shape, lo[i], f.ops[i]) /\ LoadOf(u, k, lo[i], f.ops[i])
  /\ \A i \in 1 .. Len(lo) : StoredOnce(u, i) /\ Loaded(u, i, lo[i], f.ops[i])

InOrder == OrderOf(ir, Len(low))
Traced == TraceOf(ir, low, func)

Latest ==
  phase = "walk" =>
    \A b \in Buffers, s \in 1 .. Len(ir) : s < at /\ IsStoreTo(s, b) => lastStore[b] >= s

\* Load k is to be paired with store s.
Meets(s, k) ==
  /\ s < k /\ IsLoadOf(k, ir[k].buf) /\ IsStoreTo(s, ir[k].buf) /\ SameBlock(s, k)
  /\ \A m \in s + 1 .. k - 1 : ~IsStoreTo(m, ir[k].buf)

IsPaired(k) == \E n \in 1 .. Len(matchList) : matchList[n].load = k

Paired ==
  phase \notin {"lower", "rejected"} =>
    \A s, k \in 1 .. Len(ir) : Meets(s, k) /\ (phase = "walk" => k < at) => IsPaired(k)

LoadsGone ==
  \A n \in 1 .. Len(matchList) :
    (phase = "rewire" /\ n < at) \/ phase \in {"erase", "allocate"} => matchList[n].load \in erased

\* Nothing but the loads paired with it, and no return, uses what s stored.
HasNoUser(s) ==
  /\ ir[s].buf \notin func.ret
  /\ \A k \in 1 .. Len(ir) :
       ir[k].op \in {"load", "store"} /\ ir[k].buf = ir[s].buf => k = s \/ IsPaired(k)

StoresGone ==
  \A n \in 1 .. Len(matchList) :
    ((phase = "erase" /\ n < at) \/ phase = "allocate") /\ HasNoUser(matchList[n].store)
      => matchList[n].store \in erased

ChainInv ==
  ElideInv /\ Recognition /\ InOrder /\ Traced /\ Latest /\ Paired /\ LoadsGone /\ StoresGone

LEMMA ChainStarts == Init => ChainInv
<1> SUFFICES ASSUME Init PROVE ChainInv
  OBVIOUS
<1>1. /\ func \in Functions /\ ir = <<>> /\ low = <<>> /\ phase = "lower" /\ at = 1
      /\ matchList = <<>>
  BY DEF Init, ElideInit
<1>2. Len(func.ops) \in Nat
  BY <1>1, FunctionAssumption
<1>3. IsList(low) /\ Len(low) = 0 /\ Len(ir) = 0 /\ Len(matchList) = 0
  BY <1>1 DEF IsList, RangeOf
<1>4. Recognition
  BY <1>1, <1>2, <1>3 DEF Recognition
<1>5. InOrder /\ Traced
  BY <1>3 DEF InOrder, Traced, OrderOf, TraceOf
<1>6. Latest /\ Paired /\ LoadsGone /\ StoresGone
  BY <1>1, <1>3 DEF Latest, Paired, LoadsGone, StoresGone
<1> QED BY <1>4, <1>5, <1>6, ElideStarts DEF ChainInv

\* r is what the operations of f recognised so far, lo, have become; u is r and
\* what operation n, recognised as l, becomes.
Translates(r, lo, f) == IsList(r) /\ IsList(lo) /\ OrderOf(r, Len(lo)) /\ TraceOf(r, lo, f)
Appends(r, lo, t, l, n, u, hi) == u = r \o t /\ n = Len(lo) + 1 /\ hi = Append(lo, l)
Counted(hi, n) == IsList(hi) /\ Len(hi) = n

\* convert-linalg-to-eclipse appends what an operation becomes.
LEMMA AppendingKeepsOrder ==
  ASSUME NEW r, NEW t, NEW u, NEW lo, NEW hi, NEW l, NEW f, NEW n,
         Translates(r, lo, f), Appends(r, lo, t, l, n, u, hi),
         Becomes(t, n, f.shape, l, f.ops[n])
  PROVE  Counted(hi, n) /\ OrderOf(u, n) /\ TraceOf(u, hi, f)
<1> USE DEF Translates, Appends, Counted
<1>1. /\ IsList(hi) /\ Len(lo) \in Nat /\ Len(hi) = n /\ hi[n] = l
      /\ \A i \in 1 .. Len(lo) : hi[i] = lo[i]
  BY Adding
<1>2. /\ IsList(t) /\ StoredOnce(t, n) /\ Loaded(t, n, l, f.ops[n])
      /\ \A k \in 1 .. Len(t) : /\ t[k].at = n /\ StoreOf(t, k, f.shape, l, f.ops[n])
                                /\ LoadOf(t, k, l, f.ops[n])
  BY DEF Becomes
<1>3. /\ Len(r) \in Nat /\ Len(t) \in Nat /\ Len(u) = Len(r) + Len(t)
      /\ \A k \in 1 .. Len(r) : u[k] = r[k]
      /\ \A k \in 1 .. Len(t) : u[Len(r) + k] = t[k]
  BY <1>2, Joining
<1>4. \A k \in 1 .. Len(u) : k \in 1 .. Len(r) \/ \E j \in 1 .. Len(t) : k = Len(r) + j
  <2> SUFFICES ASSUME NEW k \in 1 .. Len(u), k \notin 1 .. Len(r)
               PROVE  \E j \in 1 .. Len(t) : k = Len(r) + j
    OBVIOUS
  <2>1. k - Len(r) \in 1 .. Len(t) /\ k = Len(r) + (k - Len(r))
    BY <1>3
  <2> QED BY <2>1
<1>5. ASSUME NEW k \in 1 .. Len(r)
      PROVE  /\ k \in 1 .. Len(u) /\ u[k].at \in 1 .. Len(lo)
             /\ StoreOf(u, k, f.shape, hi[u[k].at], f.ops[u[k].at])
             /\ LoadOf(u, k, hi[u[k].at], f.ops[u[k].at])
  <2> DEFINE i == r[k].at
  <2>1. u[k] = r[k] /\ i \in 1 .. Len(lo) /\ hi[i] = lo[i] /\ k \in 1 .. Len(u)
    BY <1>1, <1>3 DEF OrderOf
  <2>2. StoreOf(r, k, f.shape, lo[i], f.ops[i]) /\ LoadOf(r, k, lo[i], f.ops[i])
    BY DEF TraceOf
  <2> HIDE DEF i
  <2>3. StoreOf(u, k, f.shape, hi[i], f.ops[i]) /\ LoadOf(u, k, hi[i], f.ops[i])
    BY <2>1, <2>2 DEF StoreOf, LoadOf
  <2> QED BY <2>1, <2>3 DEF i
<1>6. ASSUME NEW j \in 1 .. Len(t), NEW k, k = Len(r) + j
      PROVE  /\ k \in 1 .. Len(u) /\ u[k].at = n
             /\ StoreOf(u, k, f.shape, hi[n], f.ops[n]) /\ LoadOf(u, k, hi[n], f.ops[n])
  <2>1. u[k] = t[j] /\ k \in 1 .. Len(u)
    BY <1>3, <1>6
  <2> QED BY <1>1, <1>2, <2>1 DEF StoreOf, LoadOf
<1>7. ASSUME NEW k \in 1 .. Len(u)
      PROVE  /\ u[k].at \in 1 .. n
             /\ StoreOf(u, k, f.shape, hi[u[k].at], f.ops[u[k].at])
             /\ LoadOf(u, k, hi[u[k].at], f.ops[u[k].at])
  <2>1. CASE k \in 1 .. Len(r)
    BY <1>1, <1>5, <2>1
  <2>2. CASE \E j \in 1 .. Len(t) : k = Len(r) + j
    <3>1. /\ u[k].at = n
          /\ StoreOf(u, k, f.shape, hi[n], f.ops[n]) /\ LoadOf(u, k, hi[n], f.ops[n])
      BY <1>6, <2>2
    <3> QED BY <1>1, <3>1
  <2> QED BY <1>4, <2>1, <2>2
<1>8. ASSUME NEW k \in 1 .. Len(u), NEW m \in 1 .. Len(u), k < m
      PROVE  u[k].at <= u[m].at
  <2>1. CASE m \in 1 .. Len(r)
    <3>1. k \in 1 .. Len(r)
      BY <1>3, <1>8, <2>1
    <3> QED BY <1>3, <1>8, <2>1, <3>1 DEF OrderOf
  <2>2. CASE m \notin 1 .. Len(r)
    <3>1. u[m].at = n
      BY <1>4, <1>6, <2>2
    <3>2. u[k].at \in 1 .. n
      BY <1>7
    <3> QED BY <1>1, <3>1, <3>2
  <2> QED BY <2>1, <2>2
<1>9. ASSUME NEW i \in 1 .. Len(lo) PROVE StoredOnce(u, i) /\ Loaded(u, i, hi[i], f.ops[i])
  <2>1. StoredOnce(r, i) /\ Loaded(r, i, hi[i], f.ops[i]) /\ i # n
    BY <1>1 DEF TraceOf
  <2>2. \A k \in 1 .. Len(u) : u[k].at = i => k \in 1 .. Len(r) /\ u[k] = r[k]
    BY <1>3, <1>4, <1>6, <2>1
  <2>3. \A k \in 1 .. Len(r) : k \in 1 .. Len(u) /\ u[k] = r[k]
    BY <1>3
  <2>4. StoredOnce(u, i)
    BY <2>1, <2>2, <2>3 DEF StoredOnce
  <2>5. Loaded(u, i, hi[i], f.ops[i])
    BY <2>1, <2>3 DEF Loaded
  <2> QED BY <2>4, <2>5
<1>10. StoredOnce(u, n) /\ Loaded(u, n, hi[n], f.ops[n])
  <2>1. \A j \in 1 .. Len(t) : Len(r) + j \in 1 .. Len(u) /\ u[Len(r) + j] = t[j] /\ t[j].at = n
    BY <1>2, <1>3
  <2>2. \A k \in 1 .. Len(u) : u[k].at = n => \E j \in 1 .. Len(t) : k = Len(r) + j
    BY <1>1, <1>4, <1>5
  <2>3. \E e \in 1 .. Len(u) : u[e].op = "store" /\ u[e].at = n
    <3>1. PICK e \in 1 .. Len(t) : t[e].op = "store" /\ t[e].at = n
      BY <1>2 DEF StoredOnce
    <3> QED BY <2>1, <3>1
  <2>4. ASSUME NEW k \in 1 .. Len(u), NEW m \in 1 .. Len(u), u[k].op = "store", u[m].op = "store",
               u[k].at = n, u[m].at = n
        PROVE  k = m
    <3>1. PICK x \in 1 .. Len(t) : k = Len(r) + x
      BY <2>2, <2>4
    <3>2. PICK y \in 1 .. Len(t) : m = Len(r) + y
      BY <2>2, <2>4
    <3>3. t[x].op = "store" /\ t[y].op = "store" /\ t[x].at = n /\ t[y].at = n
      BY <2>1, <2>4, <3>1, <3>2
    <3>4. x = y
      BY <1>2, <3>3 DEF StoredOnce
    <3> QED BY <3>1, <3>2, <3>4
  <2>5. Loaded(u, n, hi[n], f.ops[n])
    <3> SUFFICES ASSUME l.kind # "matmul", NEW b, ReadBy(f.ops[n], b)
                 PROVE  \E k \in 1 .. Len(u) : u[k].op = "load" /\ u[k].at = n /\ u[k].buf = b
      BY <1>1 DEF Loaded
    <3>1. PICK j \in 1 .. Len(t) : t[j].op = "load" /\ t[j].at = n /\ t[j].buf = b
      BY <1>2 DEF Loaded
    <3> QED BY <2>1, <3>1
  <2> QED BY <2>3, <2>4, <2>5 DEF StoredOnce
<1>11. \A i \in 1 .. n : StoredOnce(u, i) /\ Loaded(u, i, hi[i], f.ops[i])
  <2>1. \A i \in 1 .. n : i \in 1 .. Len(lo) \/ i = n
    BY <1>1
  <2> QED BY <1>9, <1>10, <2>1
<1> QED BY <1>1, <1>7, <1>8, <1>11 DEF OrderOf, TraceOf

LEMMA TracedStep ==
  ASSUME ChainInv, [Next]_compileVars
  PROVE  Recognition' /\ InOrder' /\ Traced'
<1> USE DEF ChainInv
<1>1. func \in Functions /\ IsList(ir) /\ Len(ir) \in Nat /\ Len(func.ops) \in Nat /\ at \in Nat \ {0}
  BY Lengths DEF ElideInv, Listing
<1>2. IsList(low) /\ Len(low) \in Nat
  <2>1. IsList(low)
    BY DEF Recognition
  <2> QED BY <2>1, ListOf DEF IsList
<1>3. CASE LowerOne
  <2>1. /\ phase = "lower" /\ phase' = "lower" /\ at' = at + 1 /\ at = Len(low) + 1
        /\ at <= Len(func.ops) /\ func' = func
    BY <1>3 DEF LowerOne, Recognition
  <2>2. at \in 1 .. Len(func.ops)
    BY <1>1, <2>1
  <2>3. PICK l \in Accepted(func.shape, func.ops[at]) :
          low' = Append(low, l) /\ ir' = ir \o Lower(func.shape, l, at)
    BY <1>3 DEF LowerOne
  <2> DEFINE t == Lower(func.shape, l, at)
  <2>4. Becomes(t, at, func.shape, l, func.ops[at])
    BY <1>1, <2>2, LoweringBecomes
  <2> HIDE DEF t
  <2>5. ir' = ir \o t
    BY <2>3 DEF t
  <2>6. /\ IsList(low') /\ Len(low') = at /\ OrderOf(ir', at) /\ TraceOf(ir', low', func)
    <3> DEFINE u == ir'
               hi == low'
    <3>1. Translates(ir, low, func)
      BY <1>1, <1>2 DEF Translates, InOrder, Traced
    <3>2. Appends(ir, low, t, l, at, u, hi)
      BY <2>1, <2>3, <2>5 DEF Appends
    <3> HIDE DEF u, hi
    <3>3. Counted(hi, at) /\ OrderOf(u, at) /\ TraceOf(u, hi, func)
      BY <2>4, <3>1, <3>2, AppendingKeepsOrder
    <3> QED BY <3>3 DEF u, hi, Counted
  <2> QED BY <2>1, <2>6 DEF Recognition, InOrder, Traced
<1>4. CASE Rewire
  <2>1. /\ phase' = "rewire" /\ UNCHANGED <<func, low>> /\ phase = "rewire"
    BY <1>4 DEF Rewire
  <2>2. /\ Len(ir') = Len(ir) /\ \A k \in 1 .. Len(ir) : Alike(ir'[k], ir[k])
    BY <1>4, RewireSame
  <2>3. Recognition'
    BY <2>1 DEF Recognition
  <2>4. InOrder'
    BY <2>1, <2>2 DEF InOrder, OrderOf, Alike
  <2>5. ASSUME NEW k \in 1 .. Len(ir), NEW l, NEW o, NEW sh
        PROVE  /\ StoreOf(ir, k, sh, l, o) => StoreOf(ir', k, sh, l, o)
               /\ LoadOf(ir, k, l, o) => LoadOf(ir', k, l, o)
    BY <2>2 DEF StoreOf, LoadOf, Alike
  <2>6. ASSUME NEW i, NEW l, NEW o, StoredOnce(ir, i), Loaded(ir, i, l, o)
        PROVE  StoredOnce(ir', i) /\ Loaded(ir', i, l, o)
    <3>1. StoredOnce(ir', i)
      BY <2>2, <2>6 DEF StoredOnce, Alike
    <3>2. Loaded(ir', i, l, o)
      BY <2>2, <2>6 DEF Loaded, Alike
    <3> QED BY <3>1, <3>2
  <2>7. Traced'
    <3>1. ASSUME NEW k \in 1 .. Len(ir), NEW i, i = ir'[k].at
          PROVE  /\ StoreOf(ir', k, func.shape, low[i], func.ops[i])
                 /\ LoadOf(ir', k, low[i], func.ops[i])
      <4>1. i = ir[k].at
        BY <2>2, <3>1 DEF Alike
      <4>2. StoreOf(ir, k, func.shape, low[i], func.ops[i]) /\ LoadOf(ir, k, low[i], func.ops[i])
        BY <4>1 DEF Traced, TraceOf
      <4> QED BY <2>5, <4>2
    <3>2. \A i \in 1 .. Len(low) :
            StoredOnce(ir', i) /\ Loaded(ir', i, low[i], func.ops[i])
      BY <2>6 DEF Traced, TraceOf
    <3> QED BY <2>1, <2>2, <3>1, <3>2 DEF Traced, TraceOf
  <2> QED BY <2>3, <2>4, <2>7
<1>5. CASE ~LowerOne /\ ~Rewire
  <2>1. /\ UNCHANGED <<func, low, ir>>
        /\ \/ phase' = phase /\ (phase = "lower" => at' = at)
           \/ phase' \in {"rejected", "crashed"}
           \/ phase = "lower" /\ at = Len(func.ops) + 1 /\ phase' = "walk"
           \/ phase \in {"walk", "rewire", "erase"} /\ phase' \in {"rewire", "erase", "allocate"}
    <3>1. CASE WalkStore \/ WalkMatch \/ WalkOther \/ EraseStore
      BY <3>1 DEF WalkStore, WalkMatch, WalkOther, Visit, EraseStore
    <3>2. CASE Reject \/ Crash
      BY <3>2 DEF Reject, Crash
    <3>3. CASE Lowered \/ Walked \/ Rewired \/ Elided
      BY <3>3 DEF Lowered, Walked, Rewired, Elided, StartPass
    <3>4. CASE UNCHANGED elideVars
      BY <3>4 DEF elideVars
    <3> QED BY <1>5, <3>1, <3>2, <3>3, <3>4, PassSteps
  <2>2. Recognition'
    BY <1>1, <1>2, <2>1 DEF Recognition
  <2> QED BY <2>1, <2>2 DEF InOrder, Traced
<1> QED BY <1>3, <1>4, <1>5

\* The walk pairs every load that has a store to meet.
LEMMA PairedStep ==
  ASSUME ChainInv, [Next]_compileVars
  PROVE  Latest' /\ Paired'
<1> USE DEF ChainInv
<1>1. /\ Len(ir) \in Nat /\ at \in Nat \ {0} /\ Len(matchList) \in Nat
      /\ IsList(matchList) /\ lastStore = [b \in Buffers |-> lastStore[b]]
  BY Lengths DEF ElideInv, Listing
<1>2. CASE LowerOne \/ Reject
  BY <1>2 DEF LowerOne, Reject, Latest, Paired
<1>3. CASE Lowered
  <2>1. phase' = "walk" /\ at' = 1 /\ ir' = ir /\ func' = func
    BY <1>3 DEF Lowered, StartPass
  <2> QED BY <1>1, <2>1 DEF Latest, Paired
<1>4. CASE WalkStore
  <2>1. /\ phase = "walk" /\ phase' = "walk" /\ at <= Len(ir) /\ at' = at + 1
        /\ UNCHANGED <<func, ir, matchList>> /\ ir[at].op = "store"
        /\ lastStore' = IF ir[at].part = "whole" THEN [lastStore EXCEPT ![ir[at].buf] = at]
                        ELSE lastStore
    BY <1>4 DEF WalkStore, Visit
  <2>2. at \in 1 .. Len(ir)
    BY <1>1, <2>1
  <2>3. ASSUME NEW b \in Buffers, NEW s \in 1 .. Len(ir), s < at + 1, IsStoreTo(s, b)
        PROVE  lastStore'[b] >= s
    <3>1. CASE ir[at].part = "whole" /\ ir[at].buf = b
      <4>1. lastStore'[b] = at
        BY <1>1, <2>1, <3>1
      <4> QED BY <1>1, <2>3, <4>1
    <3>2. CASE ~(ir[at].part = "whole" /\ ir[at].buf = b)
      <4>1. lastStore'[b] = lastStore[b]
        BY <1>1, <2>1, <3>2
      <4>2. s # at
        BY <2>3, <3>2 DEF IsStoreTo
      <4>3. s < at
        BY <1>1, <2>3, <4>2
      <4> QED BY <2>1, <2>3, <4>1, <4>3 DEF Latest
    <3> QED BY <3>1, <3>2
  <2>4. Latest'
    BY <2>1, <2>3 DEF Latest, IsStoreTo
  <2>5. ASSUME NEW s \in 1 .. Len(ir), NEW k \in 1 .. Len(ir), Meets(s, k), k < at + 1
        PROVE  IsPaired(k)
    <3>1. k # at
      BY <2>1, <2>5 DEF Meets, IsLoadOf
    <3>2. k < at
      BY <1>1, <2>5, <3>1
    <3> QED BY <2>1, <2>5, <3>2 DEF Paired
  <2>6. \A s, k : (Meets(s, k)' <=> Meets(s, k)) /\ (IsPaired(k)' <=> IsPaired(k))
    BY <2>1 DEF Meets, IsPaired, IsLoadOf, IsStoreTo, SameBlock
  <2> QED BY <2>1, <2>4, <2>5, <2>6 DEF Paired
<1>5. CASE WalkMatch
  <2> DEFINE m == [store |-> lastStore[ir[at].buf], load |-> at]
  <2>1. /\ phase = "walk" /\ phase' = "walk" /\ at <= Len(ir) /\ at' = at + 1
        /\ UNCHANGED <<func, ir, lastStore>> /\ ir[at].op = "load"
        /\ matchList' = Append(matchList, m)
    BY <1>5 DEF WalkMatch, Visit, IsMatch
  <2>2. m.load = at
    OBVIOUS
  <2> HIDE DEF m
  <2>3. /\ Len(matchList') = Len(matchList) + 1 /\ matchList'[Len(matchList) + 1] = m
        /\ \A n \in 1 .. Len(matchList) : matchList'[n] = matchList[n]
    BY <1>1, <2>1, Adding
  <2>4. \A k : IsPaired(k) \/ k = at => IsPaired(k)'
    BY <1>1, <2>2, <2>3 DEF IsPaired
  <2>5. Latest'
    <3>1. \A s \in 1 .. Len(ir) : s < at + 1 /\ ir[s].op = "store" => s < at
      BY <1>1, <2>1
    <3> QED BY <2>1, <3>1 DEF Latest, IsStoreTo
  <2>6. ASSUME NEW s \in 1 .. Len(ir), NEW k \in 1 .. Len(ir), Meets(s, k), k < at + 1
        PROVE  IsPaired(k)'
    <3>1. k = at \/ k < at
      BY <1>1, <2>6
    <3> QED BY <2>1, <2>4, <2>6, <3>1 DEF Paired
  <2>7. \A s, k : Meets(s, k)' <=> Meets(s, k)
    BY <2>1 DEF Meets, IsLoadOf, IsStoreTo, SameBlock
  <2> QED BY <2>1, <2>5, <2>6, <2>7 DEF Paired
<1>6. CASE WalkOther
  <2>1. /\ phase = "walk" /\ phase' = "walk" /\ at <= Len(ir) /\ at' = at + 1
        /\ UNCHANGED <<func, ir, lastStore, matchList>> /\ ir[at].op # "store" /\ ~IsMatch(at)
    BY <1>6 DEF WalkOther, Visit
  <2>2. at \in 1 .. Len(ir)
    BY <1>1, <2>1
  <2>3. Latest'
    <3>1. \A s \in 1 .. Len(ir) : s < at + 1 /\ ir[s].op = "store" => s < at
      BY <1>1, <2>1
    <3> QED BY <2>1, <3>1 DEF Latest, IsStoreTo
  <2>4. ASSUME NEW s \in 1 .. Len(ir), Meets(s, at) PROVE FALSE
    <3> DEFINE b == ir[at].buf
    <3>1. /\ s < at /\ ir[at].op = "load" /\ ir[at].part = "whole" /\ IsStoreTo(s, b)
          /\ SameBlock(s, at) /\ \A m \in s + 1 .. at - 1 : ~IsStoreTo(m, b)
      BY <2>4 DEF Meets, IsLoadOf
    <3>2. b \in Buffers
      BY <2>2, <3>1, OnBuffers DEF ElideInv
    <3> HIDE DEF b
    <3>3. lastStore[b] >= s
      BY <2>1, <3>1, <3>2 DEF Latest
    <3>4. lastStore[b] # 0 => /\ lastStore[b] \in 1 .. Len(ir) /\ IsStoreTo(lastStore[b], b)
                              /\ lastStore[b] < at
      BY <2>1, <3>2 DEF ElideInv, Remembered
    <3>5. lastStore[b] = s
      BY <1>1, <3>1, <3>3, <3>4
    <3>6. s # 0
      OBVIOUS
    <3> QED BY <2>1, <3>1, <3>5, <3>6 DEF IsMatch, b
  <2>5. ASSUME NEW s \in 1 .. Len(ir), NEW k \in 1 .. Len(ir), Meets(s, k), k < at + 1
        PROVE  IsPaired(k)
    <3>1. k # at
      BY <2>4, <2>5
    <3>2. k < at
      BY <1>1, <2>5, <3>1
    <3> QED BY <2>1, <2>5, <3>2 DEF Paired
  <2>6. \A s, k : (Meets(s, k)' <=> Meets(s, k)) /\ (IsPaired(k)' <=> IsPaired(k))
    BY <2>1 DEF Meets, IsPaired, IsLoadOf, IsStoreTo, SameBlock
  <2> QED BY <2>1, <2>3, <2>5, <2>6 DEF Paired
<1>7. CASE Walked
  <2>1. /\ phase = "walk" /\ phase' = "rewire" /\ at = Len(ir) + 1
        /\ UNCHANGED <<func, ir, matchList>>
    BY <1>7 DEF Walked, StartPass
  <2>2. \A s, k : (Meets(s, k)' <=> Meets(s, k)) /\ (IsPaired(k)' <=> IsPaired(k))
    BY <2>1 DEF Meets, IsPaired, IsLoadOf, IsStoreTo, SameBlock
  <2>3. \A k \in 1 .. Len(ir) : k < at
    BY <1>1, <2>1
  <2> QED BY <2>1, <2>2, <2>3 DEF Latest, Paired
<1>8. CASE Rewire
  <2>1. phase = "rewire" /\ phase' = "rewire" /\ UNCHANGED <<func, matchList>>
    BY <1>8 DEF Rewire
  <2>2. Len(ir') = Len(ir) /\ \A k \in 1 .. Len(ir) : Alike(ir'[k], ir[k])
    BY <1>8, RewireSame
  <2>3. ASSUME NEW k \in 1 .. Len(ir), NEW b
        PROVE  (IsStoreTo(k, b)' <=> IsStoreTo(k, b)) /\ (IsLoadOf(k, b)' <=> IsLoadOf(k, b))
    BY <2>2 DEF Alike, IsStoreTo, IsLoadOf
  <2>4. ASSUME NEW s \in 1 .. Len(ir), NEW k \in 1 .. Len(ir), Meets(s, k)'
        PROVE  Meets(s, k)
    <3> PICK b : b = ir'[k].buf
      OBVIOUS
    <3>1. /\ s < k /\ IsLoadOf(k, b)' /\ IsStoreTo(s, b)' /\ SameBlock(s, k)'
          /\ \A m \in s + 1 .. k - 1 : ~IsStoreTo(m, b)'
      BY <2>4 DEF Meets
    <3>2. IsLoadOf(k, b) /\ IsStoreTo(s, b)
      BY <2>3, <3>1
    <3>3. b = ir[k].buf
      BY <3>2 DEF IsLoadOf
    <3>4. \A m \in s + 1 .. k - 1 : m \in 1 .. Len(ir) /\ ~IsStoreTo(m, b)
      BY <1>1, <2>3, <3>1
    <3>5. SameBlock(s, k)
      BY <2>1, <2>2, <3>1 DEF SameBlock, Alike
    <3> QED BY <3>1, <3>2, <3>3, <3>4, <3>5 DEF Meets
  <2>5. \A k : IsPaired(k)' <=> IsPaired(k)
    BY <2>1 DEF IsPaired
  <2> QED BY <2>1, <2>2, <2>4, <2>5 DEF Latest, Paired
<1>9. CASE Rewired \/ Elided \/ EraseStore \/ Crash \/ UNCHANGED elideVars
  <2>1. /\ UNCHANGED <<func, ir, matchList, lastStore>>
        /\ \/ phase' = phase /\ at' = at
           \/ phase \in {"rewire", "erase", "allocate"}
              /\ phase' \in {"erase", "allocate", "crashed"}
    <3>1. CASE Rewired \/ Elided
      BY <3>1 DEF Rewired, Elided, StartPass
    <3>2. CASE EraseStore
      BY <3>2 DEF EraseStore
    <3>3. CASE Crash
      BY <3>3 DEF Crash, ReadyToEmit
    <3>4. CASE UNCHANGED elideVars
      BY <3>4 DEF elideVars
    <3> QED BY <1>9, <3>1, <3>2, <3>3, <3>4
  <2>2. \A s, k : (Meets(s, k)' <=> Meets(s, k)) /\ (IsPaired(k)' <=> IsPaired(k))
    BY <2>1 DEF Meets, IsPaired, IsLoadOf, IsStoreTo, SameBlock
  <2>3. Latest'
    BY <2>1 DEF Latest, IsStoreTo
  <2> QED BY <2>1, <2>2, <2>3 DEF Paired
<1> QED BY <1>2, <1>3, <1>4, <1>5, <1>6, <1>7, <1>8, <1>9, PassSteps

\* What only paired loads use is dead once they are erased.
LEMMA DeadWithoutUsers ==
  ASSUME ElideInv, LoadsGone, phase = "erase", NEW s, HasNoUser(s)
  PROVE  RootIsDead(s)
<1> DEFINE b == ir[s].buf
<1>1. b \notin func.ret
  BY DEF HasNoUser
<1>2. \A k \in 1 .. Len(ir) :
        ir[k].op \in {"load", "store"} /\ ir[k].buf = b => k = s \/ IsPaired(k)
  BY DEF HasNoUser
<1> HIDE DEF b
<1>3. DOMAIN ir = 1 .. Len(ir)
  BY Lengths DEF ElideInv
<1>4. \A k : IsPaired(k) => k \in erased
  BY DEF IsPaired, LoadsGone
<1>5. ASSUME NEW k \in UsersOf(b) PROVE k = s
  <2>1. k \in 1 .. Len(ir) /\ k \notin erased /\ ir[k].op \in {"load", "store"} /\ ir[k].buf = b
    BY <1>3, <1>5 DEF UsersOf
  <2> QED BY <1>2, <1>4, <2>1
<1> QED BY <1>1, <1>5 DEF RootIsDead, b

\* Every paired load goes, and then every store nothing else uses.
LEMMA GoneStep ==
  ASSUME ChainInv, [Next]_compileVars
  PROVE  LoadsGone' /\ StoresGone'
<1> USE DEF ChainInv
<1>1. at \in Nat \ {0} /\ Len(matchList) \in Nat
  BY Lengths DEF ElideInv, Listing
<1>2. CASE \/ LowerOne \/ Reject \/ WalkStore \/ WalkMatch \/ WalkOther \/ Crash
           \/ Lowered \/ Walked
  <2>1. phase' \notin {"rewire", "erase", "allocate"} \/ (phase' = "rewire" /\ at' = 1)
    <3>1. CASE LowerOne \/ Reject \/ Crash
      BY <3>1 DEF LowerOne, Reject, Crash
    <3>2. CASE WalkStore \/ WalkMatch \/ WalkOther
      BY <3>2 DEF WalkStore, WalkMatch, WalkOther, Visit
    <3>3. CASE Lowered \/ Walked
      BY <3>3 DEF Lowered, Walked, StartPass
    <3> QED BY <1>2, <3>1, <3>2, <3>3
  <2> QED BY <2>1 DEF LoadsGone, StoresGone
<1>3. CASE Rewire
  <2>1. /\ phase = "rewire" /\ phase' = "rewire" /\ at' = at + 1 /\ matchList' = matchList
        /\ erased' = erased \union {matchList[at].load}
    BY <1>3 DEF Rewire
  <2>2. ASSUME NEW n \in 1 .. Len(matchList), n < at + 1 PROVE matchList[n].load \in erased'
    <3>1. n = at \/ n < at
      BY <1>1, <2>2
    <3> QED BY <2>1, <3>1 DEF LoadsGone
  <2> QED BY <2>1, <2>2 DEF LoadsGone, StoresGone
<1>4. CASE Rewired
  <2>1. /\ phase = "rewire" /\ phase' = "erase" /\ at = Len(matchList) + 1 /\ at' = 1
        /\ UNCHANGED <<matchList, erased>>
    BY <1>4 DEF Rewired, StartPass
  <2>2. \A n \in 1 .. Len(matchList) : n < at /\ ~(n < 1)
    BY <1>1, <2>1
  <2> QED BY <2>1, <2>2 DEF LoadsGone, StoresGone
<1>5. CASE EraseStore
  <2> DEFINE s == matchList[at].store
             first == \A n \in 1 .. at - 1 : matchList[n].store # s
  <2>1. /\ phase = "erase" /\ phase' = "erase" /\ at <= Len(matchList) /\ at' = at + 1
        /\ UNCHANGED <<func, ir, matchList>>
        /\ erased' = IF first /\ RootIsDead(s) THEN erased \union {s} ELSE erased
    BY <1>5 DEF EraseStore
  <2>2. erased \subseteq erased'
    BY <2>1
  <2>3. LoadsGone'
    BY <2>1, <2>2 DEF LoadsGone
  <2>4. \A x : HasNoUser(x)' <=> HasNoUser(x)
    BY <2>1 DEF HasNoUser, IsPaired
  <2>5. ASSUME NEW n \in 1 .. Len(matchList), n < at, HasNoUser(matchList[n].store)
        PROVE  matchList[n].store \in erased
    BY <2>1, <2>5 DEF StoresGone
  <2>6. ASSUME HasNoUser(s) PROVE s \in erased'
    <3>1. RootIsDead(s)
      BY <2>1, <2>6, DeadWithoutUsers
    <3>2. CASE first
      BY <2>1, <3>1, <3>2
    <3>3. CASE ~first
      <4>1. PICK n \in 1 .. at - 1 : matchList[n].store = s
        BY <3>3
      <4>2. n \in 1 .. Len(matchList) /\ n < at
        BY <1>1, <2>1
      <4> QED BY <2>2, <2>5, <2>6, <4>1, <4>2
    <3> QED BY <3>2, <3>3
  <2>7. ASSUME NEW n \in 1 .. Len(matchList), n < at + 1, HasNoUser(matchList[n].store)
        PROVE  matchList[n].store \in erased'
    <3>1. n = at \/ n < at
      BY <1>1, <2>7
    <3> QED BY <2>2, <2>5, <2>6, <2>7, <3>1
  <2> HIDE DEF s, first
  <2>8. StoresGone'
    BY <2>1, <2>4, <2>7 DEF StoresGone
  <2> QED BY <2>3, <2>8
<1>6. CASE Elided
  <2>1. /\ phase = "erase" /\ phase' = "allocate" /\ at = Len(matchList) + 1
        /\ UNCHANGED <<func, ir, matchList, erased>>
    BY <1>6 DEF Elided, StartPass
  <2>2. \A x : HasNoUser(x)' <=> HasNoUser(x)
    BY <2>1 DEF HasNoUser, IsPaired
  <2>3. \A n \in 1 .. Len(matchList) : n < at
    BY <1>1, <2>1
  <2> QED BY <2>1, <2>2, <2>3 DEF LoadsGone, StoresGone
<1>7. CASE UNCHANGED elideVars
  <2>1. UNCHANGED <<func, ir, phase, at, matchList, erased>>
    BY <1>7 DEF elideVars
  <2>2. \A x : HasNoUser(x)' <=> HasNoUser(x)
    BY <2>1 DEF HasNoUser, IsPaired
  <2> QED BY <2>1, <2>2 DEF LoadsGone, StoresGone
<1> QED BY <1>2, <1>3, <1>4, <1>5, <1>6, <1>7, PassSteps

LEMMA ChainStep == ChainInv /\ [Next]_compileVars => ChainInv'
<1> SUFFICES ASSUME ChainInv, [Next]_compileVars PROVE ChainInv'
  OBVIOUS
<1>1. ElideInv'
  BY ElideStep DEF ChainInv
<1> QED BY <1>1, TracedStep, PairedStep, GoneStep DEF ChainInv

\* Once the pass has ended, a temporary that stays inside its block is neither
\* loaded nor stored to: its only store meets every load of it.
LEMMA ChainIsResident ==
  ASSUME ChainInv, phase = "allocate", NEW i \in 1 .. Len(func.ops), NEW b, b = func.ops[i].out,
         SoleWriter(b, i), b \notin func.ret, Consumers(b) # {},
         ~Flattens(func.shape, low[i], func.ops[i]),
         \A j \in Consumers(b) : /\ j > i /\ low[j].kind # "matmul"
                                 /\ InLoop(func, j) <=> InLoop(func, i)
  PROVE  \A k \in 1 .. Len(ir) : ir[k].op \in {"load", "store"} /\ ir[k].buf = b => k \in erased
<1> USE DEF ChainInv
<1>1. Len(low) = Len(func.ops) /\ Len(ir) \in Nat /\ Len(func.ops) \in Nat
  BY Lengths DEF Recognition, ElideInv
<1>2. \A j \in 1 .. Len(func.ops) :
        StoredOnce(ir, j) /\ Loaded(ir, j, low[j], func.ops[j])
  BY <1>1 DEF Traced, TraceOf
<1>3. ASSUME NEW k \in 1 .. Len(ir), NEW j, j = ir[k].at
      PROVE  /\ j \in 1 .. Len(func.ops)
             /\ StoreOf(ir, k, func.shape, low[j], func.ops[j])
             /\ LoadOf(ir, k, low[j], func.ops[j])
  BY <1>1, <1>3 DEF Traced, TraceOf, InOrder, OrderOf
<1>4. PICK s \in 1 .. Len(ir) : ir[s].op = "store" /\ ir[s].at = i
  BY <1>2 DEF StoredOnce
<1>5. IsStoreTo(s, b)
  BY <1>3, <1>4 DEF StoreOf, IsStoreTo
<1>6. ASSUME NEW k \in 1 .. Len(ir), ir[k].op = "store", ir[k].buf = b
      PROVE  k = s
  <2>1. ir[k].at \in 1 .. Len(func.ops) /\ func.ops[ir[k].at].out = b
    BY <1>3, <1>6 DEF StoreOf
  <2>2. ir[k].at = i
    BY <2>1 DEF SoleWriter
  <2> QED BY <1>2, <1>4, <1>6, <2>2 DEF StoredOnce
<1>7. ASSUME NEW k \in 1 .. Len(ir), ir[k].op = "load", ir[k].buf = b
      PROVE  k \in erased /\ IsPaired(k) /\ IsLoadOf(k, b)
  <2> DEFINE j == ir[k].at
  <2>1. j \in 1 .. Len(func.ops) /\ ReadBy(func.ops[j], b)
        /\ (ir[k].part = "whole" \/ low[j].kind = "matmul")
    BY <1>3, <1>7 DEF LoadOf
  <2>2. j \in Consumers(b)
    BY <2>1 DEF Consumers, ReadBy
  <2>3. j > i /\ low[j].kind # "matmul" /\ (InLoop(func, j) <=> InLoop(func, i))
    BY <2>2
  <2>4. IsLoadOf(k, b)
    BY <1>7, <2>1, <2>3 DEF IsLoadOf
  <2>5. s < k
    <3>1. k # s
      BY <1>4, <1>7
    <3>2. k < s => j <= i
      BY <1>4 DEF InOrder, OrderOf
    <3> QED BY <2>1, <2>3, <3>1, <3>2
  <2>6. SameBlock(s, k)
    BY <1>4, <2>3 DEF SameBlock, InLoop
  <2>7. ASSUME NEW m \in s + 1 .. k - 1 PROVE ~IsStoreTo(m, b)
    <3>1. m \in 1 .. Len(ir) /\ m # s
      BY <1>1
    <3> QED BY <1>6, <3>1 DEF IsStoreTo
  <2>8. Meets(s, k)
    BY <1>5, <1>7, <2>4, <2>5, <2>6, <2>7 DEF Meets
  <2>9. IsPaired(k)
    BY <2>8 DEF Paired
  <2>10. k \in erased
    BY <2>9 DEF IsPaired, LoadsGone
  <2> QED BY <2>4, <2>9, <2>10
<1>8. HasNoUser(s)
  <2>1. ir[s].buf = b
    BY <1>5 DEF IsStoreTo
  <2>2. ASSUME NEW k \in 1 .. Len(ir), ir[k].op \in {"load", "store"}, ir[k].buf = b
        PROVE  k = s \/ IsPaired(k)
    BY <1>6, <1>7, <2>2
  <2> QED BY <2>1, <2>2 DEF HasNoUser
<1>9. s \in erased
  <2>1. PICK j \in Consumers(b) : TRUE
    OBVIOUS
  <2>2. j \in 1 .. Len(func.ops) /\ ReadBy(func.ops[j], b) /\ low[j].kind # "matmul"
    BY <2>1 DEF Consumers, ReadBy
  <2>3. PICK k \in 1 .. Len(ir) : ir[k].op = "load" /\ ir[k].at = j /\ ir[k].buf = b
    <3>1. Loaded(ir, j, low[j], func.ops[j])
      BY <1>2, <2>2
    <3> QED BY <2>2, <3>1 DEF Loaded
  <2>4. PICK n \in 1 .. Len(matchList) : matchList[n].load = k
    BY <1>7, <2>3 DEF IsPaired
  <2>5. matchList[n].store \in 1 .. Len(ir) /\ IsStoreTo(matchList[n].store, b)
    BY <2>3, <2>4 DEF ElideInv, Indexed, LoadsMeetLastStore
  <2>6. matchList[n].store = s
    BY <1>6, <2>5 DEF IsStoreTo
  <2> QED BY <1>8, <2>6 DEF StoresGone
<1> QED BY <1>6, <1>7, <1>9

\* Whatever the function, a temporary written once and then read as a whole
\* only, in the block that writes it, never touches the DDR, unless it is a
\* reduction to rank 1 (what eclipse-elide-copies promises).
THEOREM ChainsResident == Spec => []ChainsStayResident
<1>1. ASSUME ChainInv PROVE ChainsStayResident
  <2> SUFFICES ASSUME phase = "allocate", NEW i \in 1 .. Len(func.ops),
                      NEW b, b = func.ops[i].out,
                      SoleWriter(b, i), b \notin func.ret, Consumers(b) # {},
                      ~(low[i].kind = "reduce" /\ Len(func.shape[b]) = 1),
                      \A j \in Consumers(b) : /\ j > i /\ low[j].kind # "matmul"
                                              /\ InLoop(func, j) <=> InLoop(func, i),
                      NEW n \in DOMAIN Remaining, Remaining[n].op \in {"load", "store"}
               PROVE  Remaining[n].buf # b
    BY DEF ChainsStayResident
  <2>1. ir \in Seq(RangeOf(ir))
    BY <1>1 DEF ChainInv, ElideInv, Listing, IsList
  <2>2. PICK k \in 1 .. Len(ir) : k \notin erased /\ Remaining[n] = ir[k]
    BY <2>1, WithoutLeaves DEF Remaining
  <2>3. ~Flattens(func.shape, low[i], func.ops[i])
    BY DEF Flattens
  <2>4. \A m \in 1 .. Len(ir) : ir[m].op \in {"load", "store"} /\ ir[m].buf = b => m \in erased
    BY <1>1, <2>3, ChainIsResident
  <2> QED BY <2>2, <2>4
<1> QED BY <1>1, ChainStarts, ChainStep, PTL DEF Spec

-----------------------------------------------------------------------------
(* Running a list of operations.                                           *)

Runs(g, m, s) == g[0] = m /\ \A n \in 1 .. Len(s) : g[n] = Perform(g[n - 1], s[n])

LEMMA RunIs ==
  ASSUME NEW m, NEW s, IsList(s), NEW g, Runs(g, m, s)
  PROVE  RunFrom(m, s) = g[Len(s)]
<1> DEFINE z == Len(s)
           Step(h, n) == IF n = 0 THEN m ELSE Perform(h[n - 1], s[n])
           after[n \in 0 .. Len(s)] == IF n = 0 THEN m ELSE Perform(after[n - 1], s[n])
           h == [n \in 0 .. z |-> g[n]]
<1>1. z \in Nat /\ g[0] = m /\ \A n \in 1 .. z : g[n] = Perform(g[n - 1], s[n])
  BY ListOf DEF IsList, Runs
<1>2. RunFrom(m, s) = after[Len(s)]
  BY DEF RunFrom
<1>3. h = [n \in 0 .. Len(s) |-> IF n = 0 THEN m ELSE Perform(h[n - 1], s[n])]
  <2>1. ASSUME NEW n \in 0 .. z
        PROVE  g[n] = IF n = 0 THEN m ELSE Perform(h[n - 1], s[n])
    <3>1. CASE n = 0
      BY <1>1, <3>1
    <3>2. CASE n # 0
      <4>1. n \in 1 .. z /\ n - 1 \in 0 .. z
        BY <1>1, <3>2
      <4>2. h[n - 1] = g[n - 1]
        BY <4>1
      <4> QED BY <1>1, <3>2, <4>1, <4>2
    <3> QED BY <3>1, <3>2
  <2> QED BY <2>1
<1>4. after = [n \in 0 .. Len(s) |-> IF n = 0 THEN m ELSE Perform(after[n - 1], s[n])]
  <2> HIDE DEF h
  <2> QED BY <1>3
<1> HIDE DEF after, h
<1> DEFINE S == {n \in Nat : n <= z => after[n] = g[n]}
<1>5. 0 \in S
  BY <1>1, <1>4
<1>6. ASSUME NEW n \in Nat, n \in S PROVE n + 1 \in S
  <2> SUFFICES ASSUME n + 1 <= z PROVE after[n + 1] = g[n + 1]
    OBVIOUS
  <2>1. n + 1 \in 1 .. z /\ n + 1 \in 0 .. Len(s) /\ n + 1 # 0 /\ (n + 1) - 1 = n /\ after[n] = g[n]
    BY <1>1, <1>6
  <2>2. after[n + 1] = Perform(after[n], s[n + 1])
    BY <1>4, <2>1
  <2>3. g[n + 1] = Perform(g[n], s[n + 1])
    BY <1>1, <2>1
  <2> QED BY <2>1, <2>2, <2>3
<1>7. \A n \in Nat : n \in S
  <2> HIDE DEF S
  <2> QED BY <1>5, <1>6, Induction
<1> QED BY <1>1, <1>2, <1>7

LEMMA RunExists == ASSUME NEW m, NEW s, IsList(s) PROVE \E g : Runs(g, m, s)
<1> DEFINE z == Len(s)
           Upto(g, k) == g[0] = m /\ \A n \in 1 .. k : g[n] = Perform(g[n - 1], s[n])
           S == {k \in Nat : \E g : Upto(g, k)}
<1>1. z \in Nat
  BY ListOf DEF IsList
<1>2. 0 \in S
  <2> DEFINE g == [n \in 0 .. 0 |-> m]
  <2>1. Upto(g, 0)
    OBVIOUS
  <2> QED BY <2>1
<1>3. ASSUME NEW k \in Nat, k \in S PROVE k + 1 \in S
  <2>1. PICK g : Upto(g, k)
    BY <1>3
  <2> DEFINE h == [n \in 0 .. k + 1 |-> IF n <= k THEN g[n] ELSE Perform(g[k], s[k + 1])]
  <2>2. h[0] = m
    BY <2>1
  <2>3. ASSUME NEW n \in 1 .. k + 1 PROVE h[n] = Perform(h[n - 1], s[n])
    <3>1. CASE n = k + 1
      <4>1. h[n] = Perform(g[k], s[k + 1]) /\ n - 1 = k /\ h[n - 1] = g[k]
        BY <3>1
      <4> QED BY <3>1, <4>1
    <3>2. CASE n # k + 1
      <4>1. n \in 1 .. k /\ h[n] = g[n] /\ h[n - 1] = g[n - 1]
        BY <3>2
      <4> QED BY <2>1, <4>1
    <3> QED BY <3>1, <3>2
  <2> HIDE DEF h
  <2>4. Upto(h, k + 1)
    BY <2>2, <2>3
  <2> QED BY <2>4
<1>4. z \in S
  <2> HIDE DEF S
  <2>1. \A n \in Nat : n \in S
    BY <1>2, <1>3, Induction
  <2> QED BY <1>1, <2>1
<1>5. PICK g : Upto(g, z)
  BY <1>4
<1> QED BY <1>5 DEF Runs

LEMMA RunNothing == ASSUME NEW m PROVE RunFrom(m, <<>>) = m
<1> DEFINE s == <<>>
<1>1. IsList(s) /\ Len(s) = 0
  BY DEF IsList, RangeOf
<1> HIDE DEF s
<1>2. PICK g : Runs(g, m, s)
  BY <1>1, RunExists
<1>3. RunFrom(m, s) = g[0]
  BY <1>1, <1>2, RunIs
<1> QED BY <1>2, <1>3 DEF Runs, s

LEMMA RunJoin ==
  ASSUME NEW m, NEW s, NEW t, IsList(s), IsList(t)
  PROVE  RunFrom(m, s \o t) = RunFrom(RunFrom(m, s), t)
<1> DEFINE u == s \o t
           x == Len(s)
           y == Len(t)
<1>1. /\ IsList(u) /\ x \in Nat /\ y \in Nat /\ Len(u) = x + y
      /\ \A k \in 1 .. x : u[k] = s[k]
      /\ \A k \in 1 .. y : u[x + k] = t[k]
  BY Joining
<1>2. PICK g : Runs(g, m, s)
  BY RunExists
<1>3. PICK h : Runs(h, g[x], t)
  BY RunExists
<1>4. RunFrom(m, s) = g[x] /\ RunFrom(g[x], t) = h[y]
  BY <1>2, <1>3, RunIs
<1>5. /\ g[0] = m /\ \A n \in 1 .. x : g[n] = Perform(g[n - 1], s[n])
      /\ h[0] = g[x] /\ \A n \in 1 .. y : h[n] = Perform(h[n - 1], t[n])
  BY <1>2, <1>3 DEF Runs
<1> HIDE DEF u, x, y
<1> DEFINE f == [n \in 0 .. x + y |-> IF n <= x THEN g[n] ELSE h[n - x]]
<1>6. /\ \A n \in 0 .. x : f[n] = g[n]
      /\ \A n \in 0 .. y : x + n \in 0 .. x + y /\ f[x + n] = h[n]
  <2>1. ASSUME NEW n \in 0 .. y PROVE x + n \in 0 .. x + y /\ f[x + n] = h[n]
    <3>1. x + n \in 0 .. x + y /\ (x + n) - x = n
      BY <1>1
    <3>2. x + n <= x => n = 0
      BY <1>1
    <3> QED BY <1>1, <1>5, <3>1, <3>2
  <2> QED BY <1>1, <2>1
<1> HIDE DEF f
<1>7. ASSUME NEW n \in 1 .. x + y PROVE f[n] = Perform(f[n - 1], u[n])
  <2>1. CASE n <= x
    <3>1. n \in 1 .. x /\ n - 1 \in 0 .. x /\ n \in 0 .. x
      BY <1>1, <2>1
    <3> QED BY <1>1, <1>5, <1>6, <3>1
  <2>2. CASE n > x
    <3> DEFINE k == n - x
    <3>1. k \in 1 .. y /\ k - 1 \in 0 .. y /\ k \in 0 .. y /\ n = x + k /\ n - 1 = x + (k - 1)
      BY <1>1, <2>2
    <3> HIDE DEF k
    <3>2. f[n] = h[k] /\ f[n - 1] = h[k - 1] /\ u[n] = t[k]
      BY <1>1, <1>6, <3>1
    <3> QED BY <1>5, <3>1, <3>2
  <2> QED BY <1>1, <2>1, <2>2
<1>8. Runs(f, m, u)
  <2>1. f[0] = m
    BY <1>1, <1>5, <1>6
  <2> QED BY <1>1, <1>7, <2>1 DEF Runs
<1>9. RunFrom(m, u) = f[x + y]
  BY <1>1, <1>8, RunIs
<1>10. f[x + y] = h[y]
  BY <1>1, <1>6
<1> QED BY <1>4, <1>9, <1>10 DEF u

LEMMA RunLast ==
  ASSUME NEW m, NEW s, NEW e, IsList(s)
  PROVE  RunFrom(m, Append(s, e)) = Perform(RunFrom(m, s), e)
<1> DEFINE u == Append(s, e)
           x == Len(s)
<1>1. /\ IsList(u) /\ x \in Nat /\ Len(u) = x + 1 /\ u[x + 1] = e /\ \A k \in 1 .. x : u[k] = s[k]
  BY Adding
<1>2. PICK g : Runs(g, m, u)
  BY <1>1, RunExists
<1>3. Runs(g, m, s)
  BY <1>1, <1>2 DEF Runs
<1>4. RunFrom(m, s) = g[x] /\ RunFrom(m, u) = g[x + 1]
  BY <1>1, <1>2, <1>3, RunIs
<1>5. g[x + 1] = Perform(g[x], e)
  <2>1. x + 1 \in 1 .. Len(u) /\ (x + 1) - 1 = x
    BY <1>1
  <2>2. g[x + 1] = Perform(g[(x + 1) - 1], u[x + 1])
    BY <1>2, <2>1 DEF Runs
  <2> QED BY <1>1, <2>1, <2>2
<1> QED BY <1>4, <1>5

-----------------------------------------------------------------------------
(* The order of a function with a loop.                                    *)

LEMMA Ordering ==
  ASSUME NEW f \in Functions, NEW ord, ord = Order(f), NEW n, n = Len(f.ops)
  PROVE  /\ IsList(ord) /\ \A k \in 1 .. Len(ord) : ord[k] \in 1 .. n
         /\ \A k \in 1 .. Len(ord), i \in 1 .. n :
              i < ord[k] /\ (InLoop(f, i) <=> InLoop(f, ord[k])) =>
                \E p \in 1 .. k - 1 :
                  ord[p] = i /\ \A q \in p + 1 .. k - 1 : ord[q] \in i + 1 .. ord[k] - 1
<1> DEFINE a == f.from
           w == f.to - f.from + 1
           P == Trips * w
           z == n + (Trips - 1) * w
<1>1. n \in Nat /\ a \in 1 .. n + 1 /\ w \in Nat /\ a + w <= n + 1 /\ f.to = a + w - 1
  BY FunctionAssumption
<1>2. Trips \in Nat \ {0}
  BY IRAssumption
<1>3. ord = [k \in 1 .. z |-> IF k < a THEN k
                              ELSE IF k < a + P THEN a + ((k - a) % w)
                              ELSE k - (Trips - 1) * w]
  BY DEF Order
<1>4. P \in Nat /\ (Trips - 1) * w = P - w /\ P >= w /\ (w = 0 => P = 0)
  <2> HIDE DEF w
  <2> SUFFICES ASSUME NEW t \in Nat \ {0}, t = Trips
               PROVE  t * w \in Nat /\ (t - 1) * w = t * w - w /\ t * w >= w /\ (w = 0 => t * w = 0)
    BY <1>2
  <2>1. t * w \in Nat /\ (t - 1) * w \in Nat /\ (t - 1) * w = t * w - w
    BY <1>1
  <2> QED BY <1>1, <2>1
<1>5. \A i : InLoop(f, i) <=> a <= i /\ i <= a + w - 1
  BY <1>1 DEF InLoop
<1> HIDE DEF a, w, P, z
<1>6. z = n + P - w /\ z \in Nat
  BY <1>1, <1>4 DEF z
<1>7. ord = [k \in 1 .. z |-> IF k < a THEN k
                              ELSE IF k < a + P THEN a + ((k - a) % w) ELSE k - (P - w)]
  BY <1>3, <1>4 DEF P
<1>8. IsList(ord) /\ Len(ord) = z
  <2>1. ord = [k \in 1 .. z |-> ord[k]]
    BY <1>7
  <2> QED BY <1>6, <2>1, Listed
<1>9. \A k \in 1 .. z : /\ k < a => ord[k] = k
                        /\ a <= k /\ k < a + P => ord[k] = a + ((k - a) % w)
                        /\ a + P <= k => ord[k] = k - (P - w)
  BY <1>1, <1>4, <1>7
<1>10. ASSUME NEW k \in 1 .. z, a <= k, k < a + P
       PROVE  \E d \in Nat, r \in 0 .. w - 1 : ord[k] = a + r /\ k - a = d * w + r /\ w \in Nat \ {0}
  <2>1. w \in Nat \ {0} /\ k - a \in Nat
    BY <1>1, <1>4, <1>10
  <2>2. (k - a) % w \in 0 .. w - 1 /\ k - a = ((k - a) \div w) * w + ((k - a) % w)
    <3> DEFINE x == k - a
    <3>1. x \in Int
      BY <2>1
    <3> HIDE DEF x
    <3>2. x % w \in 0 .. w - 1 /\ x = (x \div w) * w + (x % w)
      BY <2>1, <3>1, Remainder
    <3> QED BY <3>2 DEF x
  <2>3. (k - a) \div w \in Nat
    BY <2>1
  <2>4. ord[k] = a + ((k - a) % w)
    BY <1>1, <1>9, <1>10
  <2> QED BY <2>1, <2>2, <2>3, <2>4
<1>11. ASSUME NEW k \in 1 .. z PROVE ord[k] \in 1 .. n
  <2>1. CASE k < a
    BY <1>1, <1>9, <2>1
  <2>2. CASE a <= k /\ k < a + P
    <3>1. PICK r \in 0 .. w - 1 : ord[k] = a + r
      BY <1>10, <2>2
    <3> QED BY <1>1, <3>1
  <2>3. CASE a + P <= k
    BY <1>1, <1>4, <1>6, <1>9, <2>3
  <2> QED BY <1>1, <1>4, <2>1, <2>2, <2>3
<1>12. ASSUME NEW k \in 1 .. z, NEW i \in 1 .. n, NEW j, j = ord[k], i < j,
              InLoop(f, i) <=> InLoop(f, j)
       PROVE  \E p \in 1 .. k - 1 :
                ord[p] = i /\ \A q \in p + 1 .. k - 1 : ord[q] \in i + 1 .. j - 1
  <2>0. j \in 1 .. n
    BY <1>11, <1>12
  <2>1. CASE k < a
    <3>1. j = k /\ i \in 1 .. k - 1
      BY <1>9, <1>12, <2>1
    <3>2. \A q \in i .. k - 1 : q \in 1 .. z /\ q < a
      BY <1>1, <1>6, <2>1
    <3>3. \A q \in i .. k - 1 : ord[q] = q
      BY <1>9, <3>2
    <3>4. \A q \in i + 1 .. k - 1 : ord[q] \in i + 1 .. j - 1
      BY <3>1, <3>3
    <3>5. ord[i] = i
      BY <3>1, <3>3
    <3> QED BY <3>1, <3>4, <3>5
  <2>2. CASE a <= k /\ k < a + P
    <3>1. PICK d \in Nat, r \in 0 .. w - 1 : j = a + r /\ k - a = d * w + r /\ w \in Nat \ {0}
      BY <1>10, <1>12, <2>2
    <3>2. a <= i /\ i <= a + r - 1
      <4>1. InLoop(f, j)
        BY <1>1, <1>5, <3>1
      <4> QED BY <1>1, <1>5, <1>12, <3>1, <4>1
    <3> DEFINE p == k - (j - i)
               D == d * w
    <3>3. D \in Nat /\ k = a + D + r
      BY <1>1, <3>1
    <3> HIDE DEF D
    <3>4. p \in 1 .. k - 1 /\ p >= a + D /\ p = a + D + (i - a)
      BY <1>1, <3>1, <3>2, <3>3
    <3>5. ASSUME NEW q \in p .. k - 1 PROVE ord[q] = i + (q - p)
      <4>1. q \in 1 .. z /\ a <= q /\ q < a + P
        <5> HIDE DEF p
        <5>1. p \in 1 .. k - 1 /\ p >= a /\ q \in Int /\ q >= p /\ q < k
          BY <1>1, <3>3, <3>4
        <5> QED BY <1>1, <1>4, <1>6, <2>2, <5>1
      <4> DEFINE e == q - a - D
      <4>2. e \in 0 .. w - 1 /\ q - a = D + e /\ q - a \in Int /\ a + e = i + (q - p)
        BY <1>1, <3>1, <3>2, <3>3, <3>4
      <4> HIDE DEF e, p
      <4>3. (q - a) % w = e
        <5>1. q - a = d * w + e /\ d \in Int
          BY <4>2 DEF D
        <5> QED BY <3>1, <4>2, <5>1, RemainderUnique
      <4> QED BY <1>9, <4>1, <4>2, <4>3
    <3>6. ord[p] = i
      <4>1. p \in p .. k - 1
        BY <3>4
      <4>2. ord[p] = i + (p - p)
        BY <3>5, <4>1
      <4> QED BY <3>4, <4>2
    <3>7. ASSUME NEW q \in p + 1 .. k - 1 PROVE ord[q] \in i + 1 .. j - 1
      <4>1. q \in p .. k - 1
        BY <3>4
      <4>2. ord[q] = i + (q - p)
        BY <3>5, <4>1
      <4> QED BY <2>0, <3>4, <4>2
    <3> HIDE DEF p
    <3> QED BY <3>4, <3>6, <3>7
  <2>3. CASE a + P <= k
    <3>1. j = k - (P - w) /\ j >= a + w
      BY <1>1, <1>4, <1>9, <1>12, <2>3
    <3>2. i < a \/ i >= a + w
      <4>1. ~InLoop(f, j)
        BY <1>1, <1>5, <3>1
      <4> QED BY <1>1, <1>5, <1>12, <4>1
    <3>3. CASE i >= a + w
      <4> DEFINE p == i + (P - w)
      <4>1. p \in 1 .. k - 1 /\ p >= a + P
        BY <1>1, <1>4, <1>12, <3>1, <3>3
      <4>2. ASSUME NEW q \in p .. k - 1 PROVE ord[q] = q - (P - w)
        <5>1. q \in 1 .. z /\ a + P <= q
          BY <1>1, <1>4, <1>6, <4>1
        <5> QED BY <1>9, <5>1
      <4>3. ord[p] = i
        <5>1. p \in p .. k - 1
          BY <4>1
        <5>2. ord[p] = p - (P - w)
          BY <4>2, <5>1
        <5> QED BY <1>1, <1>4, <5>2
      <4>4. ASSUME NEW q \in p + 1 .. k - 1 PROVE ord[q] \in i + 1 .. j - 1
        <5>1. q \in p .. k - 1
          BY <4>1
        <5>2. ord[q] = q - (P - w)
          BY <4>2, <5>1
        <5> QED BY <1>1, <1>4, <3>1, <4>1, <5>2
      <4> HIDE DEF p
      <4> QED BY <4>1, <4>3, <4>4
    <3>4. CASE i < a
      <4>1. i \in 1 .. k - 1 /\ i \in 1 .. z /\ ord[i] = i
        BY <1>1, <1>4, <1>6, <1>9, <2>3, <3>4
      <4>2. ASSUME NEW q \in i + 1 .. k - 1 PROVE ord[q] \in i + 1 .. j - 1
        <5>1. q \in 1 .. z
          BY <1>6
        <5>2. CASE q < a
          BY <1>1, <1>9, <3>1, <5>1, <5>2
        <5>3. CASE a <= q /\ q < a + P
          <6>1. PICK r \in 0 .. w - 1 : ord[q] = a + r
            BY <1>10, <5>1, <5>3
          <6> QED BY <1>1, <2>0, <3>1, <3>4, <6>1
        <5>4. CASE a + P <= q
          <6>1. ord[q] = q - (P - w)
            BY <1>9, <5>1, <5>4
          <6> QED BY <1>1, <1>4, <2>0, <3>1, <3>4, <5>4, <6>1
        <5> QED BY <1>1, <1>4, <5>2, <5>3, <5>4
      <4> QED BY <4>1, <4>2
    <3> QED BY <3>2, <3>3, <3>4
  <2> QED BY <1>1, <1>4, <2>1, <2>2, <2>3
<1> QED BY <1>8, <1>11, <1>12

-----------------------------------------------------------------------------
(* The sections of a list, and a run of it section by section.             *)

LEMMA SectionNothing == ASSUME NEW i PROVE Section(<<>>, i) = <<>>
BY WithoutNothing DEF Section

LEMMA SectionLast ==
  ASSUME NEW T, NEW s \in Seq(T), NEW e \in T, NEW i
  PROVE  Section(Append(s, e), i) = IF e.at # i THEN Section(s, i) ELSE Append(Section(s, i), e)
<1> DEFINE u == Append(s, e)
           K == {n \in DOMAIN s : s[n].at # i}
           J == {n \in DOMAIN u : u[n].at # i}
           m == Len(s)
<1>1. /\ m \in Nat /\ DOMAIN s = 1 .. m /\ DOMAIN u = 1 .. m + 1 /\ u[m + 1] = e
      /\ \A n \in 1 .. m : u[n] = s[n]
  OBVIOUS
<1> HIDE DEF u, m
<1>2. \A n \in 1 .. m : n \in J <=> n \in K
  <2>1. \A n \in 1 .. m : n \in 1 .. m + 1
    BY <1>1
  <2> QED BY <1>1, <2>1
<1>3. m + 1 \in J <=> e.at # i
  <2>1. m + 1 \in 1 .. m + 1
    BY <1>1
  <2> QED BY <1>1, <2>1
<1> HIDE DEF J, K
<1>4. Without(u, J) = IF m + 1 \in J THEN Without(s, K) ELSE Append(Without(s, K), e)
  BY <1>2, WithoutLast DEF u, m
<1>5. Section(u, i) = Without(u, J) /\ Section(s, i) = Without(s, K)
  BY DEF Section, J, K
<1> QED BY <1>3, <1>4, <1>5 DEF u

LEMMA SectionListed ==
  ASSUME NEW T, NEW s \in Seq(T), NEW i
  PROVE  Section(s, i) \in Seq(T)
<1> DEFINE K == {n \in DOMAIN s : s[n].at # i}
<1>1. Section(s, i) = Without(s, K)
  BY DEF Section
<1> HIDE DEF K
<1>2. PICK keep : Keeps(keep, s, K, T)
  BY WithoutSteps
<1>3. Without(s, K) \in Seq(T)
  <2>1. keep \in [0 .. Len(s) -> Seq(T)] /\ Without(s, K) = keep[Len(s)]
    BY <1>2 DEF Keeps
  <2>2. Len(s) \in 0 .. Len(s)
    OBVIOUS
  <2> QED BY <2>1, <2>2
<1> QED BY <1>1, <1>3

\* What is left of section i of s, run from m: the positions in E, and those of
\* other sections, are passed over.
Passes(g, m, s, E, i) ==
  /\ g[0] = m
  /\ \A n \in 1 .. Len(s) :
       g[n] = IF n \in E \/ s[n].at # i THEN g[n - 1] ELSE Perform(g[n - 1], s[n])

LEMMA SectionRuns ==
  ASSUME NEW T, NEW s \in Seq(T), NEW E, NEW i, NEW m
  PROVE  \E g : Passes(g, m, s, E, i) /\ RunFrom(m, Section(Without(s, E), i)) = g[Len(s)]
<1> DEFINE z == Len(s)
<1>1. PICK keep : Keeps(keep, s, E, T)
  BY WithoutSteps
<1>2. /\ z \in Nat /\ keep \in [0 .. z -> Seq(T)] /\ keep[0] = <<>> /\ Without(s, E) = keep[z]
      /\ \A n \in 1 .. z : keep[n] = IF n \in E THEN keep[n - 1] ELSE Append(keep[n - 1], s[n])
  BY <1>1 DEF Keeps
<1>3. \A n \in 1 .. z : s[n] \in T
  OBVIOUS
<1> HIDE DEF z
<1> DEFINE g == [n \in 0 .. z |-> RunFrom(m, Section(keep[n], i))]
<1>4. \A n \in 0 .. z : g[n] = RunFrom(m, Section(keep[n], i))
  OBVIOUS
<1> HIDE DEF g
<1>5. g[0] = m
  BY <1>2, <1>4, SectionNothing, RunNothing
<1>6. ASSUME NEW n \in 1 .. z
      PROVE  g[n] = IF n \in E \/ s[n].at # i THEN g[n - 1] ELSE Perform(g[n - 1], s[n])
  <2> DEFINE k == keep[n - 1]
             e == s[n]
  <2>1. n - 1 \in 0 .. z /\ n \in 0 .. z /\ k \in Seq(T) /\ e \in T
    BY <1>2, <1>3
  <2>2. g[n - 1] = RunFrom(m, Section(k, i)) /\ g[n] = RunFrom(m, Section(keep[n], i))
    BY <1>4, <2>1
  <2>3. keep[n] = IF n \in E THEN k ELSE Append(k, e)
    BY <1>2
  <2> HIDE DEF k, e
  <2>4. Section(Append(k, e), i) = IF e.at # i THEN Section(k, i) ELSE Append(Section(k, i), e)
    BY <2>1, SectionLast
  <2>5. RunFrom(m, Append(Section(k, i), e)) = Perform(RunFrom(m, Section(k, i)), e)
    <3>1. IsList(Section(k, i))
      BY <2>1, SectionListed, ListOf
    <3> QED BY <3>1, RunLast
  <2> QED BY <2>2, <2>3, <2>4, <2>5 DEF e
<1>7. Passes(g, m, s, E, i)
  BY <1>5, <1>6 DEF Passes, z
<1>8. RunFrom(m, Section(Without(s, E), i)) = g[z]
  BY <1>2, <1>4
<1> QED BY <1>7, <1>8 DEF z

\* The unrolled list, section by section.
Unrolling(g, f, ord, list, T) ==
  /\ g \in [0 .. Len(ord) -> Seq(T)] /\ g[0] = <<>>
  /\ \A k \in 1 .. Len(ord) : g[k] = g[k - 1] \o Section(list, ord[k])
  /\ Unrolled(f, list) = g[Len(ord)]

LEMMA UnrolledIs ==
  ASSUME NEW f, NEW ord, ord = Order(f), IsList(ord), NEW T, NEW list \in Seq(T)
  PROVE  \E g : Unrolling(g, f, ord, list, T)
<1> DEFINE z == Len(ord)
           F == [k \in 1 .. z |-> [x \in Seq(T) |-> x \o Section(list, ord[k])]]
           joined[k \in 0 .. Len(ord)] ==
             IF k = 0 THEN <<>> ELSE joined[k - 1] \o Section(list, ord[k])
<1>1. z \in Nat /\ <<>> \in Seq(T)
  BY ListOf DEF IsList
<1>2. \A k \in 1 .. z, x \in Seq(T) :
        F[k][x] \in Seq(T) /\ F[k][x] = x \o Section(list, ord[k])
  <2>1. \A k : Section(list, ord[k]) \in Seq(T)
    BY SectionListed
  <2> QED BY <2>1
<1>3. PICK g : Unrolls(g, F, z, Seq(T), <<>>)
  <2> DEFINE V == Seq(T)
  <2>1. <<>> \in V
    OBVIOUS
  <2> HIDE DEF F, V
  <2>2. StepsIn(F, z, V)
    BY <1>2 DEF StepsIn, V
  <2>3. z \in Nat
    BY <1>1
  <2> HIDE DEF z
  <2>4. \E g : Unrolls(g, F, z, V, <<>>)
    BY <2>1, <2>2, <2>3, RecursionExists
  <2> QED BY <2>4 DEF V
<1>4. /\ g \in [0 .. z -> Seq(T)] /\ g[0] = <<>>
      /\ \A n \in 1 .. z : g[n] = g[n - 1] \o Section(list, ord[n])
  <2>1. \A n \in 1 .. z : n - 1 \in 0 .. z
    BY <1>1
  <2> HIDE DEF F, z, joined
  <2>2. g \in [0 .. z -> Seq(T)] /\ g[0] = <<>> /\ \A n \in 1 .. z : g[n] = F[n][g[n - 1]]
    BY <1>3 DEF Unrolls
  <2>3. \A n \in 1 .. z : g[n - 1] \in Seq(T)
    BY <2>1, <2>2
  <2> QED BY <1>2, <2>2, <2>3
<1>5. g = [n \in 0 .. Len(ord) |-> IF n = 0 THEN <<>> ELSE g[n - 1] \o Section(list, ord[n])]
  <2>1. \A n \in 0 .. z : n # 0 => n \in 1 .. z
    BY <1>1, SMTT(30)
  <2> HIDE DEF F, joined
  <2> QED BY <1>4, <2>1
<1>6. joined = [n \in 0 .. Len(ord) |->
                  IF n = 0 THEN <<>> ELSE joined[n - 1] \o Section(list, ord[n])]
  <2> HIDE DEF F
  <2> QED BY <1>5
<1>7. Unrolled(f, list) = joined[Len(ord)]
  BY DEF Unrolled
<1> HIDE DEF F, joined
<1>8. \A n \in 0 .. z : joined[n] = g[n]
  <2> DEFINE S == {n \in Nat : n <= z => joined[n] = g[n]}
  <2>1. 0 \in S
    BY <1>1, <1>4, <1>6
  <2>2. ASSUME NEW n \in Nat, n \in S
        PROVE  n + 1 \in S
    <3> SUFFICES ASSUME n + 1 <= z PROVE joined[n + 1] = g[n + 1]
      OBVIOUS
    <3>1. n + 1 \in 1 .. z /\ n + 1 \in 0 .. Len(ord) /\ n + 1 # 0 /\ (n + 1) - 1 = n /\ joined[n] = g[n]
      BY <1>1, <2>2
    <3>2. joined[n + 1] = joined[n] \o Section(list, ord[n + 1])
      BY <1>6, <3>1
    <3> QED BY <1>4, <3>1, <3>2
  <2>3. \A n \in Nat : n \in S
    <3> HIDE DEF S
    <3> QED BY <2>1, <2>2, Induction
  <2> QED BY <1>1, <2>3
<1>9. Unrolled(f, list) = g[z]
  BY <1>1, <1>7, <1>8
<1>10. Unrolling(g, f, ord, list, T)
  BY <1>4, <1>9 DEF z, Unrolling
<1> QED BY <1>10

\* A run from m, the sections of list one after the other as ord says.
Sections(g, m, list, ord) ==
  g[0] = m /\ \A k \in 1 .. Len(ord) : g[k] = RunFrom(g[k - 1], Section(list, ord[k]))

\* The unrolled list runs section by section.
LEMMA UnrolledRuns ==
  ASSUME NEW f, NEW ord, ord = Order(f), IsList(ord), NEW T, NEW list \in Seq(T), NEW m
  PROVE  \E g : Sections(g, m, list, ord) /\ RunFrom(m, Unrolled(f, list)) = g[Len(ord)]
<1> DEFINE z == Len(ord)
<1>1. z \in Nat
  BY ListOf DEF IsList
<1>2. PICK g : Unrolling(g, f, ord, list, T)
  BY UnrolledIs
<1>4. /\ g \in [0 .. z -> Seq(T)] /\ g[0] = <<>>
      /\ \A n \in 1 .. z : g[n] = g[n - 1] \o Section(list, ord[n])
  BY <1>2 DEF Unrolling
<1>9. Unrolled(f, list) = g[z]
  BY <1>2 DEF Unrolling
<1> HIDE DEF z
<1> DEFINE h == [n \in 0 .. z |-> RunFrom(m, g[n])]
<1>10. \A n \in 0 .. z : h[n] = RunFrom(m, g[n])
  OBVIOUS
<1> HIDE DEF h
<1>11. h[0] = m
  BY <1>1, <1>4, <1>10, RunNothing
<1>12. ASSUME NEW k \in 1 .. z PROVE h[k] = RunFrom(h[k - 1], Section(list, ord[k]))
  <2> DEFINE s == g[k - 1]
             t == Section(list, ord[k])
  <2>1. k - 1 \in 0 .. z /\ k \in 0 .. z
    BY <1>1
  <2>2. s \in Seq(T) /\ t \in Seq(T)
    BY <1>4, <2>1, SectionListed
  <2>3. g[k] = s \o t
    BY <1>4
  <2> HIDE DEF s, t
  <2>4. IsList(s) /\ IsList(t)
    BY <2>2, ListOf
  <2>5. RunFrom(m, s \o t) = RunFrom(RunFrom(m, s), t)
    BY <2>4, RunJoin
  <2> QED BY <1>10, <2>1, <2>3, <2>5 DEF s, t
<1>13. Sections(h, m, list, ord)
  BY <1>11, <1>12 DEF Sections, z
<1>14. RunFrom(m, Unrolled(f, list)) = h[z]
  BY <1>1, <1>9, <1>10
<1> QED BY <1>13, <1>14 DEF z

-----------------------------------------------------------------------------
(* One operation of the dialect.                                           *)

IsMemory(m, f) ==
  /\ m = [sram |-> m.sram, ddr |-> m.ddr]
  /\ m.sram = [s \in SramIds(f) |-> m.sram[s]]
  /\ m.ddr = [b \in Buffers |-> m.ddr[b]]

\* r is m with the SRAM buffer s, or the DDR buffer b, replaced by v.
PutsSram(m, r, f, s, v) ==
  /\ IsMemory(r, f) /\ r.ddr = m.ddr /\ r.sram[s] = v
  /\ \A x \in SramIds(f) \ {s} : r.sram[x] = m.sram[x]
PutsDdr(m, r, f, b, v) ==
  /\ IsMemory(r, f) /\ r.sram = m.sram /\ r.ddr[b] = v
  /\ \A c \in Buffers \ {b} : r.ddr[c] = m.ddr[c]

LEMMA Putting ==
  ASSUME NEW f, NEW m, IsMemory(m, f), NEW s \in SramIds(f), NEW v,
         NEW r, r = [m EXCEPT !.sram[s] = v]
  PROVE  PutsSram(m, r, f, s, v)
<1> DEFINE a == m.sram
           d == m.ddr
           I == SramIds(f)
<1>1. m = [sram |-> a, ddr |-> d] /\ a = [x \in I |-> a[x]] /\ d = [b \in Buffers |-> d[b]]
  BY DEF IsMemory
<1>2. r = [m EXCEPT !.sram = [a EXCEPT ![s] = v]]
  OBVIOUS
<1> HIDE DEF a, d, I
<1> DEFINE e == [a EXCEPT ![s] = v]
<1> HIDE DEF e
<1>3. r = [sram |-> e, ddr |-> d]
  BY <1>1, <1>2 DEF e
<1>4. r.sram = [a EXCEPT ![s] = v] /\ r.ddr = d /\ r = [sram |-> r.sram, ddr |-> r.ddr]
  <2>1. r.sram = e /\ r.ddr = d
    BY <1>3
  <2>2. r = [sram |-> r.sram, ddr |-> r.ddr]
    BY <1>3, <2>1
  <2> QED BY <2>1, <2>2 DEF e
<1>5. s \in I
  BY DEF I
<1>6. /\ r.sram[s] = v /\ \A x \in I \ {s} : r.sram[x] = a[x]
      /\ r.sram = [x \in I |-> r.sram[x]]
  BY <1>1, <1>4, <1>5
<1>7. IsMemory(r, f)
  BY <1>1, <1>4, <1>6 DEF IsMemory, I
<1> QED BY <1>4, <1>6, <1>7 DEF PutsSram, a, d, I

LEMMA Writing ==
  ASSUME NEW f, NEW m, IsMemory(m, f), NEW b \in Buffers, NEW v,
         NEW r, r = [m EXCEPT !.ddr[b] = v]
  PROVE  PutsDdr(m, r, f, b, v)
<1> DEFINE a == m.sram
           d == m.ddr
           I == SramIds(f)
<1>1. m = [sram |-> a, ddr |-> d] /\ a = [x \in I |-> a[x]] /\ d = [c \in Buffers |-> d[c]]
  BY DEF IsMemory
<1>2. r = [m EXCEPT !.ddr = [d EXCEPT ![b] = v]]
  OBVIOUS
<1> HIDE DEF a, d, I
<1> DEFINE e == [d EXCEPT ![b] = v]
<1> HIDE DEF e
<1>3. r = [sram |-> a, ddr |-> e]
  BY <1>1, <1>2 DEF e
<1>4. r.ddr = [d EXCEPT ![b] = v] /\ r.sram = a /\ r = [sram |-> r.sram, ddr |-> r.ddr]
  <2>1. r.sram = a /\ r.ddr = e
    BY <1>3
  <2>2. r = [sram |-> r.sram, ddr |-> r.ddr]
    BY <1>3, <2>1
  <2> QED BY <2>1, <2>2 DEF e
<1>5. /\ r.ddr[b] = v /\ \A c \in Buffers \ {b} : r.ddr[c] = d[c]
      /\ r.ddr = [c \in Buffers |-> r.ddr[c]]
  BY <1>1, <1>4
<1>6. IsMemory(r, f)
  BY <1>1, <1>4, <1>5 DEF IsMemory, I
<1> QED BY <1>4, <1>5, <1>6 DEF PutsDdr, a, d

LEMMA LoadPuts ==
  ASSUME NEW f, NEW m, IsMemory(m, f), NEW i, NEW b, NEW part, NEW t, NEW s \in SramIds(f)
  PROVE  PutsSram(m, Perform(m, Load(i, b, part, t, s)), f, s,
                  IF part = "whole" THEN m.ddr[b] ELSE <<part, t, m.ddr[b]>>)
<1> DEFINE o == Load(i, b, part, t, s)
           v == IF part = "whole" THEN m.ddr[b] ELSE <<part, t, m.ddr[b]>>
<1>1. o.op = "load" /\ o.buf = b /\ o.part = part /\ o.tile = t /\ o.sram = s
  BY DEF Load
<1> HIDE DEF o
<1>2. Perform(m, o) = [m EXCEPT !.sram[s] = v]
  BY <1>1 DEF Perform, Execute
<1> HIDE DEF v
<1>3. PutsSram(m, Perform(m, o), f, s, v)
  BY <1>2, Putting
<1> QED BY <1>3 DEF o, v

LEMMA StoreWrites ==
  ASSUME NEW f, NEW m, IsMemory(m, f), NEW i, NEW s, NEW b \in Buffers, NEW part
  PROVE  PutsDdr(m, Perform(m, Store(i, s, b, part)), f, b, m.sram[s])
<1> DEFINE o == Store(i, s, b, part)
<1>1. o.op = "store" /\ o.buf = b /\ o.sram = s
  BY DEF Store
<1> HIDE DEF o
<1>2. Perform(m, o) = [m EXCEPT !.ddr[b] = m.sram[s]]
  BY <1>1 DEF Perform, Execute
<1>3. PutsDdr(m, Perform(m, o), f, b, m.sram[s])
  BY <1>2, Writing
<1> QED BY <1>3 DEF o

LEMMA ComputePuts ==
  ASSUME NEW f, NEW m, IsMemory(m, f), NEW i, NEW l, NEW srcs, NEW dst \in SramIds(f), NEW acc,
         NEW args, args = [k \in 1 .. Len(srcs) |-> m.sram[srcs[k]]]
  PROVE  PutsSram(m, Perform(m, Compute(i, l, srcs, dst, acc)), f, dst,
                  IF l.kind = "matmul"
                  THEN Append(IF acc THEN m.sram[dst] ELSE <<"matmul">>, args)
                  ELSE <<l.fn>> \o args)
<1> DEFINE o == Compute(i, l, srcs, dst, acc)
           v == IF l.kind = "matmul"
                THEN Append(IF acc THEN m.sram[dst] ELSE <<"matmul">>, args)
                ELSE <<l.fn>> \o args
<1>1. /\ o.op = "compute" /\ o.kind = l.kind /\ o.fn = l.fn /\ o.srcs = srcs /\ o.dst = dst
      /\ o.acc = acc
  BY DEF Compute
<1> HIDE DEF o
<1>2. Perform(m, o) = [m EXCEPT !.sram[dst] = v]
  BY <1>1 DEF Perform, Execute
<1> HIDE DEF v
<1>3. PutsSram(m, Perform(m, o), f, dst, v)
  BY <1>2, Putting
<1> QED BY <1>3 DEF o, v

LEMMA SyncStays == ASSUME NEW m, NEW i PROVE Perform(m, Sync(i)) = m
BY DEF Perform, Execute, Sync

\* One operation of the function, as the reference has it.
LEMMA DirectWrites ==
  ASSUME NEW f, NEW m, IsMemory(m, f), NEW sh, NEW l, l.out \in Buffers
  PROVE  PutsDdr(m, Perform(m, Direct(sh, l)), f, l.out,
                Outcome(m.ddr, l, IF l.kind = "matmul" THEN TilesOf(sh, l) ELSE 0))
<1> DEFINE o == Direct(sh, l)
           x == IF l.kind = "matmul" THEN TilesOf(sh, l) ELSE 0
           v == Outcome(m.ddr, l, x)
<1>1. o.op = "linalg" /\ o.whole = l /\ o.tiles = x
  BY DEF Direct
<1> HIDE DEF o, x
<1>2. Perform(m, o) = [m EXCEPT !.ddr[l.out] = v]
  BY <1>1 DEF Perform
<1> HIDE DEF v
<1>3. PutsDdr(m, Perform(m, o), f, l.out, v)
  BY <1>2, Writing
<1> QED BY <1>3 DEF o, v, x

-----------------------------------------------------------------------------
(* The sum of a tiled product.                                             *)

LEMMA ListsEqual ==
  ASSUME NEW s, NEW t, IsList(s), IsList(t), Len(s) = Len(t),
         \A k \in 1 .. Len(s) : s[k] = t[k]
  PROVE  s = t
<1> DEFINE S == RangeOf(s)
           R == RangeOf(t)
<1>1. s \in Seq(S) /\ t \in Seq(R)
  BY DEF IsList
<1> HIDE DEF S, R
<1>2. s = [k \in 1 .. Len(s) |-> s[k]] /\ t = [k \in 1 .. Len(t) |-> t[k]]
  BY <1>1
<1>3. [k \in 1 .. Len(s) |-> s[k]] = [k \in 1 .. Len(t) |-> t[k]]
  OBVIOUS
<1> QED BY <1>2, <1>3

Product(t, x, y) == << <<"cols", t, x>>, <<"rows", t, y>> >>

LEMMA SumGrows ==
  ASSUME NEW x, NEW y, NEW n \in Nat
  PROVE  /\ SumOfTiles(0, x, y) = <<"matmul">>
         /\ SumOfTiles(n + 1, x, y) = Append(SumOfTiles(n, x, y), Product(n + 1, x, y))
<1> DEFINE one == <<"matmul">>
           terms(k) == [t \in 1 .. k |-> Product(t, x, y)]
<1>1. \A k : SumOfTiles(k, x, y) = one \o terms(k)
  BY DEF SumOfTiles, Product
<1>2. IsList(one) /\ Len(one) = 1
  <2>1. one \in Seq({"matmul"}) /\ Len(one) = 1
    OBVIOUS
  <2> QED BY <2>1, ListOf
<1>3. \A k \in Nat : IsList(terms(k)) /\ Len(terms(k)) = k
  <2> SUFFICES ASSUME NEW k \in Nat PROVE IsList(terms(k)) /\ Len(terms(k)) = k
    OBVIOUS
  <2> DEFINE g == terms(k)
  <2>1. g = [t \in 1 .. k |-> g[t]]
    OBVIOUS
  <2> HIDE DEF g
  <2>2. IsList(g) /\ Len(g) = k
    BY <2>1, Listed
  <2> QED BY <2>2 DEF g
<1>4. \A k \in Nat : \A t \in 1 .. k : terms(k)[t] = Product(t, x, y)
  OBVIOUS
<1> HIDE DEF one, terms
<1>5. ASSUME NEW k \in Nat, NEW u, u = SumOfTiles(k, x, y)
      PROVE  /\ IsList(u) /\ Len(u) = k + 1 /\ u[1] = one[1]
             /\ \A t \in 1 .. k : u[1 + t] = Product(t, x, y)
  <2> DEFINE s == terms(k)
  <2>1. IsList(s) /\ Len(s) = k /\ \A t \in 1 .. k : s[t] = Product(t, x, y)
    BY <1>3, <1>4
  <2> HIDE DEF s
  <2>2. u = one \o s
    BY <1>1, <1>5 DEF s
  <2>3. /\ IsList(u) /\ Len(u) = Len(one) + Len(s)
        /\ \A t \in 1 .. Len(one) : u[t] = one[t]
        /\ \A t \in 1 .. Len(s) : u[Len(one) + t] = s[t]
    <3>1. IsList(one) /\ IsList(s)
      BY <1>2, <2>1
    <3>2. /\ IsList(one \o s) /\ Len(one \o s) = Len(one) + Len(s)
          /\ \A t \in 1 .. Len(one) : (one \o s)[t] = one[t]
          /\ \A t \in 1 .. Len(s) : (one \o s)[Len(one) + t] = s[t]
      BY <3>1, Joining
    <3> QED BY <2>2, <3>2
  <2>4. Len(u) = k + 1
    BY <1>2, <2>1, <2>3
  <2>5. u[1] = one[1]
    <3>1. 1 \in 1 .. Len(one)
      BY <1>2
    <3> QED BY <2>3, <3>1
  <2>6. ASSUME NEW t \in 1 .. k PROVE u[1 + t] = Product(t, x, y)
    BY <1>2, <2>1, <2>3
  <2> QED BY <2>3, <2>4, <2>5, <2>6
<1>6. SumOfTiles(0, x, y) = one
  <2> DEFINE u == SumOfTiles(0, x, y)
  <2>1. IsList(u) /\ Len(u) = 1 /\ u[1] = one[1]
    <3>1. 0 \in Nat /\ 0 + 1 = 1
      OBVIOUS
    <3> QED BY <1>5, <3>1
  <2> HIDE DEF u
  <2>2. \A k \in 1 .. Len(u) : u[k] = one[k]
    BY <2>1
  <2> QED BY <1>2, <2>1, <2>2, ListsEqual DEF u
<1>7. SumOfTiles(n + 1, x, y) = Append(SumOfTiles(n, x, y), Product(n + 1, x, y))
  <2> DEFINE u == SumOfTiles(n + 1, x, y)
             s == SumOfTiles(n, x, y)
             e == Product(n + 1, x, y)
             v == Append(s, e)
  <2>1. /\ IsList(u) /\ Len(u) = n + 2 /\ u[1] = one[1]
        /\ \A t \in 1 .. n + 1 : u[1 + t] = Product(t, x, y)
    <3> DEFINE m == n + 1
    <3>1. m \in Nat /\ m + 1 = n + 2 /\ u = SumOfTiles(m, x, y)
      OBVIOUS
    <3> HIDE DEF m, u
    <3>2. /\ IsList(u) /\ Len(u) = m + 1 /\ u[1] = one[1]
          /\ \A t \in 1 .. m : u[1 + t] = Product(t, x, y)
      BY <1>5, <3>1
    <3> QED BY <3>1, <3>2 DEF m
  <2>2. /\ IsList(s) /\ Len(s) = n + 1 /\ s[1] = one[1]
        /\ \A t \in 1 .. n : s[1 + t] = Product(t, x, y)
    BY <1>5
  <2> HIDE DEF u, s
  <2>3. IsList(v) /\ Len(v) = Len(s) + 1 /\ v[Len(s) + 1] = e /\ \A k \in 1 .. Len(s) : v[k] = s[k]
    BY <2>2, Adding
  <2> HIDE DEF v
  <2>4. ASSUME NEW k \in 1 .. Len(u) PROVE u[k] = v[k]
    <3>1. CASE k = 1
      BY <2>1, <2>2, <2>3, <3>1
    <3>2. CASE k = n + 2
      <4>1. n + 1 \in 1 .. n + 1 /\ 1 + (n + 1) = n + 2 /\ (n + 1) + 1 = n + 2
        OBVIOUS
      <4>2. u[n + 2] = e
        BY <2>1, <4>1
      <4> QED BY <2>2, <2>3, <3>2, <4>1, <4>2
    <3>3. CASE k # 1 /\ k # n + 2
      <4>1. k - 1 \in 1 .. n /\ k - 1 \in 1 .. n + 1 /\ 1 + (k - 1) = k /\ k \in 1 .. Len(s)
        BY <2>1, <2>2, <3>3
      <4> QED BY <2>1, <2>2, <2>3, <4>1
    <3> QED BY <3>1, <3>2, <3>3
  <2>5. Len(u) = Len(v)
    BY <2>1, <2>2, <2>3
  <2>6. u = v
    BY <2>1, <2>3, <2>4, <2>5, ListsEqual
  <2> QED BY <2>6 DEF u, v, s
<1> QED BY <1>6, <1>7 DEF one

-----------------------------------------------------------------------------
(* The operations that one operation of the function became lie together.  *)

\* Operation j became the z operations behind position a of u.
LiesAt(u, j, a, z) ==
  /\ a \in Nat /\ z \in Nat /\ a + z <= Len(u)
  /\ \A n \in 1 .. Len(u) : u[n].at = j <=> n \in a + 1 .. a + z

LEMMA PassedOver ==
  ASSUME NEW g, NEW m, NEW s, NEW E, NEW j, Passes(g, m, s, E, j), Len(s) \in Nat,
         NEW c \in Nat, NEW d \in Nat, c <= d, d <= Len(s),
         \A n \in c + 1 .. d : s[n].at # j
  PROVE  g[d] = g[c]
<1> DEFINE S == {n \in Nat : c <= n /\ n <= d => g[n] = g[c]}
<1>1. 0 \in S
  OBVIOUS
<1>2. ASSUME NEW n \in Nat, n \in S PROVE n + 1 \in S
  <2> SUFFICES ASSUME c <= n + 1, n + 1 <= d, n + 1 # c PROVE g[n + 1] = g[c]
    OBVIOUS
  <2>1. n + 1 \in c + 1 .. d /\ n + 1 \in 1 .. Len(s) /\ (n + 1) - 1 = n /\ c <= n /\ n <= d
    OBVIOUS
  <2>2. g[n + 1] = g[n]
    BY <2>1 DEF Passes
  <2> QED BY <1>2, <2>1, <2>2
<1>3. \A n \in Nat : n \in S
  <2> HIDE DEF S
  <2> QED BY <1>1, <1>2, Induction
<1> QED BY <1>3

\* A run of the operations left of those: the erased ones are passed over.
RunsLeft(e, m, u, E, a, z) ==
  /\ e[0] = m
  /\ \A x \in 1 .. z : e[x] = IF a + x \in E THEN e[x - 1] ELSE Perform(e[x - 1], u[a + x])

LEMMA SectionIsBlock ==
  ASSUME NEW u, IsList(u), NEW E, NEW j, NEW a, NEW z, LiesAt(u, j, a, z), NEW m
  PROVE  \E e : RunsLeft(e, m, u, E, a, z) /\ RunFrom(m, Section(Without(u, E), j)) = e[z]
<1> DEFINE T == RangeOf(u)
           L == Len(u)
<1>1. u \in Seq(T) /\ L \in Nat
  BY DEF IsList
<1>2. a \in Nat /\ z \in Nat /\ a + z <= L
      /\ \A n \in 1 .. L : u[n].at = j <=> n \in a + 1 .. a + z
  BY DEF LiesAt
<1> HIDE DEF T
<1>3. PICK g : Passes(g, m, u, E, j) /\ RunFrom(m, Section(Without(u, E), j)) = g[L]
  BY <1>1, SectionRuns
<1> HIDE DEF L
<1>4. g[a] = m
  <2>1. \A n \in 0 + 1 .. a : u[n].at # j
    BY <1>1, <1>2
  <2>2. g[a] = g[0]
    BY <1>1, <1>2, <1>3, <2>1, PassedOver DEF L
  <2> QED BY <1>3, <2>2 DEF Passes
<1>5. g[L] = g[a + z]
  <2>1. \A n \in (a + z) + 1 .. L : u[n].at # j
    BY <1>1, <1>2
  <2>2. a + z \in Nat /\ a + z <= L
    BY <1>2
  <2> DEFINE c == a + z
  <2> HIDE DEF c
  <2>3. g[L] = g[c]
    <3>1. c \in Nat /\ c <= L /\ \A n \in c + 1 .. L : u[n].at # j
      BY <2>1, <2>2 DEF c
    <3> QED BY <1>1, <1>3, <3>1, PassedOver DEF L
  <2> QED BY <2>3 DEF c
<1> DEFINE e == [x \in 0 .. z |-> g[a + x]]
<1>6. \A x \in 0 .. z : e[x] = g[a + x]
  OBVIOUS
<1> HIDE DEF e
<1>7. e[0] = m /\ e[z] = g[a + z]
  BY <1>2, <1>4, <1>6
<1>8. ASSUME NEW x \in 1 .. z
      PROVE  e[x] = IF a + x \in E THEN e[x - 1] ELSE Perform(e[x - 1], u[a + x])
  <2>1. /\ x \in 0 .. z /\ x - 1 \in 0 .. z /\ a + x \in 1 .. L /\ a + x \in a + 1 .. a + z
        /\ (a + x) - 1 = a + (x - 1)
    BY <1>1, <1>2
  <2>2. e[x] = g[a + x] /\ e[x - 1] = g[(a + x) - 1]
    BY <1>6, <2>1
  <2>3. u[a + x].at = j
    BY <1>2, <2>1
  <2>4. g[a + x] = IF a + x \in E \/ u[a + x].at # j THEN g[(a + x) - 1]
                   ELSE Perform(g[(a + x) - 1], u[a + x])
    BY <1>3, <2>1 DEF Passes, L
  <2> QED BY <2>2, <2>3, <2>4
<1>9. RunsLeft(e, m, u, E, a, z)
  BY <1>7, <1>8 DEF RunsLeft
<1> QED BY <1>3, <1>5, <1>7, <1>9

-----------------------------------------------------------------------------
(* What becomes of one operation of the function, run.                     *)

Home(l, i) == IF l.kind = "matmul" THEN <<i, 3>> ELSE <<i, Len(l.ins) + 1>>

\* Only loads and stores of whole buffers are erased.
OnlyMoves(u, E) == \A k \in E : u[k].op \in {"load", "store"} /\ u[k].part = "whole"

\* From a on, u has what operation j, recognised as l, became unless it is a
\* matmul.  A load keeps its SRAM buffer until it is erased.
WholeAt(u, E, l, j, a) ==
  LET n == Len(l.ins)
  IN  /\ LiesAt(u, j, a, n + 4)
      /\ \A y \in 1 .. n : /\ u[a + y] = Load(j, l.ins[y], "whole", 0, u[a + y].sram)
                           /\ a + y \notin E => u[a + y].sram = <<j, y>>
      /\ u[a + (n + 1)] = Sync(j) /\ u[a + (n + 3)] = Sync(j)
      /\ u[a + (n + 2)] = Compute(j, l, u[a + (n + 2)].srcs, <<j, n + 1>>, FALSE)
      /\ Len(u[a + (n + 2)].srcs) = n
      /\ \E part : u[a + (n + 4)] = Store(j, <<j, n + 1>>, l.out, part)

\* Source y of operation j, whose load is at k, holds what D has for buffer b:
\* from the DDR, or, if the load is erased, in the SRAM of another operation.
Holds(s, j, y, k, E, m, D, b, f) ==
  IF k \in E THEN s \in SramIds(f) /\ s[1] # j /\ m.sram[s] = D[b]
  ELSE s = <<j, y>> /\ m.ddr[b] = D[b]

\* From m to r, operation j has computed v, and stored it if stored.
Effect(m, r, f, l, j, v, stored) ==
  /\ IsMemory(r, f)
  /\ \A s \in SramIds(f) : s[1] # j => r.sram[s] = m.sram[s]
  /\ r.sram[Home(l, j)] = v
  /\ \A b \in Buffers \ {l.out} : r.ddr[b] = m.ddr[b]
  /\ stored => r.ddr[l.out] = v

\* From m to r, nothing but SRAM buffers of operation j.
Own(m, r, f, j) ==
  /\ IsMemory(r, f) /\ r.ddr = m.ddr
  /\ \A s \in SramIds(f) : s[1] # j => r.sram[s] = m.sram[s]

LEMMA PuttingOwn ==
  ASSUME NEW f, NEW j, NEW y, NEW m, NEW p, NEW r, NEW v, Own(m, p, f, j),
         PutsSram(p, r, f, <<j, y>>, v)
  PROVE  Own(m, r, f, j)
<1>1. \A s \in SramIds(f) : s[1] # j => s # <<j, y>>
  OBVIOUS
<1> QED BY <1>1 DEF Own, PutsSram

LEMMA IdsOf ==
  ASSUME NEW f \in Functions, NEW j \in 1 .. Len(f.ops), NEW y \in 1 .. 3
  PROVE  <<j, y>> \in SramIds(f)
BY DEF SramIds

LEMMA WholeRuns ==
  ASSUME NEW f \in Functions, NEW j \in 1 .. Len(f.ops), NEW l,
         l.kind # "matmul", l.out \in Buffers, Len(l.ins) \in 1 .. 2,
         NEW u, IsList(u), NEW E, OnlyMoves(u, E), NEW a, WholeAt(u, E, l, j, a),
         NEW m, IsMemory(m, f), NEW D, NEW srcs, srcs = u[a + (Len(l.ins) + 2)].srcs,
         \A y \in 1 .. Len(l.ins) : Holds(srcs[y], j, y, a + y, E, m, D, l.ins[y], f),
         NEW r, r = RunFrom(m, Section(Without(u, E), j))
  PROVE  Effect(m, r, f, l, j, Outcome(D, l, 0), a + (Len(l.ins) + 4) \notin E)
<1> DEFINE n == Len(l.ins)
           z == n + 4
           I == SramIds(f)
<1>1. n \in 1 .. 2 /\ z \in Nat
  OBVIOUS
<1>2. /\ LiesAt(u, j, a, z) /\ a \in Nat
      /\ \A y \in 1 .. n : /\ u[a + y] = Load(j, l.ins[y], "whole", 0, u[a + y].sram)
                           /\ a + y \notin E => u[a + y].sram = <<j, y>>
      /\ u[a + (n + 1)] = Sync(j) /\ u[a + (n + 3)] = Sync(j)
      /\ u[a + (n + 2)] = Compute(j, l, srcs, <<j, n + 1>>, FALSE) /\ Len(srcs) = n
      /\ \E part : u[a + (n + 4)] = Store(j, <<j, n + 1>>, l.out, part)
  BY DEF WholeAt, LiesAt
<1>3. PICK e : RunsLeft(e, m, u, E, a, z) /\ RunFrom(m, Section(Without(u, E), j)) = e[z]
  BY <1>2, SectionIsBlock
<1>4. /\ e[0] = m /\ r = e[z]
      /\ \A x \in 1 .. z : e[x] = IF a + x \in E THEN e[x - 1] ELSE Perform(e[x - 1], u[a + x])
  BY <1>3 DEF RunsLeft
<1>5. \A y \in 1 .. 3 : <<j, y>> \in I
  BY IdsOf
<1>6. \A y \in 1 .. n : Holds(srcs[y], j, y, a + y, E, m, D, l.ins[y], f)
  OBVIOUS
<1> HIDE DEF n, z, I
<1> DEFINE In(x) == /\ Own(m, e[x], f, j)
                    /\ \A y \in 1 .. x : a + y \notin E => e[x].sram[<<j, y>>] = D[l.ins[y]]
           S == {x \in Nat : x <= n => In(x)}
<1>7. 0 \in S
  BY <1>4 DEF Own
<1>8. ASSUME NEW x \in Nat, x \in S PROVE x + 1 \in S
  <2> SUFFICES ASSUME x + 1 <= n PROVE In(x + 1)
    OBVIOUS
  <2>1. x + 1 \in 1 .. z /\ x + 1 \in 1 .. n /\ (x + 1) - 1 = x /\ x + 1 \in 1 .. 3
    BY <1>1 DEF z
  <2>2. /\ Own(m, e[x], f, j)
        /\ \A y \in 1 .. x : a + y \notin E => e[x].sram[<<j, y>>] = D[l.ins[y]]
    BY <1>1, <1>8
  <2> DEFINE w == x + 1
  <2>3. e[w] = IF a + w \in E THEN e[x] ELSE Perform(e[x], u[a + w])
    BY <1>4, <2>1
  <2>4. \A y \in 1 .. w : y \in 1 .. x \/ y = w
    OBVIOUS
  <2>0. w \in 1 .. 3 /\ w \in 1 .. n /\ \A y \in 1 .. x : y # w /\ y \in 1 .. 3
    BY <1>1, <2>1
  <2> HIDE DEF w
  <2>5. CASE a + w \in E
    BY <2>2, <2>3, <2>4, <2>5 DEF w
  <2>6. CASE a + w \notin E
    <3> DEFINE p == e[x]
               q == e[w]
               b == l.ins[w]
    <3>1. u[a + w] = Load(j, b, "whole", 0, <<j, w>>) /\ <<j, w>> \in I
      BY <1>2, <1>5, <2>0, <2>6
    <3>2. m.ddr[b] = D[b]
      BY <1>6, <2>0, <2>6 DEF Holds
    <3>3. IsMemory(p, f) /\ p.ddr = m.ddr /\ Own(m, p, f, j)
      BY <2>2 DEF Own
    <3>4. q = Perform(p, Load(j, b, "whole", 0, <<j, w>>))
      BY <2>3, <2>6, <3>1
    <3>5. \A y \in 1 .. x : a + y \notin E => p.sram[<<j, y>>] = D[l.ins[y]]
      BY <2>2
    <3> HIDE DEF p, q, b
    <3>6. PutsSram(p, q, f, <<j, w>>, p.ddr[b])
      <4>1. <<j, w>> \in SramIds(f)
        BY <3>1 DEF I
      <4>2. PutsSram(p, Perform(p, Load(j, b, "whole", 0, <<j, w>>)), f, <<j, w>>,
                     IF "whole" = "whole" THEN p.ddr[b] ELSE <<"whole", 0, p.ddr[b]>>)
        BY <3>3, <4>1, LoadPuts
      <4> QED BY <3>4, <4>2
    <3>7. Own(m, q, f, j)
      BY <3>3, <3>6, PuttingOwn
    <3>8. q.sram[<<j, w>>] = D[b]
      BY <3>2, <3>3, <3>6 DEF PutsSram
    <3>9. \A y \in 1 .. x : q.sram[<<j, y>>] = p.sram[<<j, y>>]
      <4>1. \A y \in 1 .. x : <<j, y>> \in I \ {<<j, w>>}
        BY <1>5, <2>0
      <4> QED BY <3>6, <4>1 DEF PutsSram, I
    <3>10. \A y \in 1 .. w : a + y \notin E => q.sram[<<j, y>>] = D[l.ins[y]]
      BY <2>4, <3>5, <3>8, <3>9 DEF b
    <3> QED BY <3>7, <3>10 DEF q, w
  <2> QED BY <2>5, <2>6
<1>9. In(n)
  <2>1. \A x \in Nat : x \in S
    <3> HIDE DEF S
    <3> QED BY <1>7, <1>8, Induction
  <2> QED BY <1>1, <2>1
<1> HIDE DEF S
<1>10. \A k \in {a + (n + 1), a + (n + 2), a + (n + 3)} : k \notin E
  <2>1. /\ u[a + (n + 1)].op = "sync" /\ u[a + (n + 3)].op = "sync"
        /\ u[a + (n + 2)].op = "compute"
    BY <1>2 DEF Sync, Compute
  <2> QED BY <2>1 DEF OnlyMoves
<1>11. /\ n + 1 \in 1 .. z /\ n + 2 \in 1 .. z /\ n + 3 \in 1 .. z /\ n + 4 \in 1 .. z
       /\ (n + 1) - 1 = n /\ (n + 2) - 1 = n + 1 /\ (n + 3) - 1 = n + 2 /\ (n + 4) - 1 = n + 3
  BY <1>1 DEF z
<1>12. ASSUME NEW x \in 1 .. z, a + x \notin E, NEW w, w = x - 1, NEW o, u[a + x] = o
       PROVE  e[x] = Perform(e[w], o)
  BY <1>4, <1>12
<1>13. e[n + 2] = Perform(e[n], Compute(j, l, srcs, <<j, n + 1>>, FALSE))
  <2>1. e[n + 1] = Perform(e[n], Sync(j))
    <3>1. /\ n + 1 \in 1 .. z /\ n = (n + 1) - 1 /\ a + (n + 1) \notin E
          /\ u[a + (n + 1)] = Sync(j)
      BY <1>2, <1>10, <1>11
    <3> QED BY <1>12, <3>1
  <2>2. e[n + 2] = Perform(e[n + 1], Compute(j, l, srcs, <<j, n + 1>>, FALSE))
    <3>1. /\ n + 2 \in 1 .. z /\ n + 1 = (n + 2) - 1 /\ a + (n + 2) \notin E
          /\ u[a + (n + 2)] = Compute(j, l, srcs, <<j, n + 1>>, FALSE)
      BY <1>2, <1>10, <1>11
    <3> QED BY <1>12, <3>1
  <2> QED BY <2>1, <2>2, SyncStays
<1>14. e[n + 3] = e[n + 2]
  <2>1. e[n + 3] = Perform(e[n + 2], Sync(j))
    <3>1. /\ n + 3 \in 1 .. z /\ n + 2 = (n + 3) - 1 /\ a + (n + 3) \notin E
          /\ u[a + (n + 3)] = Sync(j)
      BY <1>2, <1>10, <1>11
    <3> QED BY <1>12, <3>1
  <2> QED BY <2>1, SyncStays
<1> DEFINE p == e[n]
           q == e[n + 2]
           v == Outcome(D, l, 0)
           h == <<j, n + 1>>
           args == [k \in 1 .. Len(srcs) |-> p.sram[srcs[k]]]
<1>15. Own(m, p, f, j) /\ \A y \in 1 .. n : a + y \notin E => p.sram[<<j, y>>] = D[l.ins[y]]
  BY <1>9
<1>16. h \in I /\ h = Home(l, j) /\ h[1] = j
  <2>1. n + 1 \in 1 .. 3
    BY <1>1
  <2>2. h = Home(l, j)
    BY DEF Home, n
  <2>3. h[1] = j
    OBVIOUS
  <2> QED BY <1>5, <2>1, <2>2, <2>3
<1>17. <<l.fn>> \o args = v
  <2>1. ASSUME NEW y \in 1 .. n PROVE p.sram[srcs[y]] = D[l.ins[y]]
    BY <1>6, <1>15 DEF Holds, Own
  <2>2. args = [y \in 1 .. n |-> D[l.ins[y]]]
    BY <1>2, <2>1
  <2> HIDE DEF args
  <2> QED BY <2>2 DEF Outcome, n
<1> HIDE DEF p, q, v, h, args
<1>18. PutsSram(p, q, f, h, v)
  <2>1. /\ IsMemory(p, f) /\ q = Perform(p, Compute(j, l, srcs, h, FALSE))
        /\ args = [k \in 1 .. Len(srcs) |-> p.sram[srcs[k]]] /\ h \in SramIds(f)
    BY <1>13, <1>15, <1>16 DEF Own, p, q, h, args, I
  <2>2. PutsSram(p, Perform(p, Compute(j, l, srcs, h, FALSE)), f, h,
                 IF l.kind = "matmul"
                 THEN Append(IF FALSE THEN p.sram[h] ELSE <<"matmul">>, args)
                 ELSE <<l.fn>> \o args)
    BY <2>1, ComputePuts
  <2> QED BY <1>17, <2>1, <2>2
<1>19. Own(m, q, f, j) /\ q.sram[h] = v
  <2>1. PutsSram(p, q, f, <<j, n + 1>>, v)
    BY <1>18 DEF h
  <2>2. Own(m, q, f, j)
    BY <1>15, <2>1, PuttingOwn
  <2> QED BY <1>18, <2>2 DEF PutsSram
<1>20. CASE a + z \in E
  <2>1. r = q
    BY <1>4, <1>11, <1>14, <1>20 DEF q, z
  <2> QED BY <1>16, <1>19, <1>20, <2>1 DEF Effect, Own, v, z, n
<1>21. CASE a + z \notin E
  <2>1. PICK part : u[a + z] = Store(j, h, l.out, part)
    BY <1>2 DEF z, h
  <2>2. r = Perform(q, Store(j, h, l.out, part))
    BY <1>4, <1>11, <1>14, <1>21, <2>1 DEF q, z
  <2>3. PutsDdr(q, r, f, l.out, q.sram[h])
    <3>1. IsMemory(q, f)
      BY <1>19 DEF Own
    <3> QED BY <2>2, <3>1, StoreWrites
  <2> QED BY <1>16, <1>19, <2>3 DEF Effect, Own, PutsDdr, v
<1> QED BY <1>20, <1>21

\* Steps 1, 2 and 4 of tile n + 1; steps 3 and 5 change nothing.
LEMMA TileRuns ==
  ASSUME NEW f \in Functions, NEW j \in 1 .. Len(f.ops), NEW l, l.kind = "matmul",
         NEW m, NEW p, Own(m, p, f, j), NEW n \in Nat, NEW x, NEW y,
         m.ddr[l.ins[1]] = x, m.ddr[l.ins[2]] = y,
         n >= 1 => p.sram[<<j, 3>>] = SumOfTiles(n, x, y),
         NEW q, q = Perform(p, TileStep(l, j, n + 1, 1)),
         NEW r, r = Perform(q, TileStep(l, j, n + 1, 2)),
         NEW s, s = Perform(r, TileStep(l, j, n + 1, 4))
  PROVE  Own(m, s, f, j) /\ s.sram[<<j, 3>>] = SumOfTiles(n + 1, x, y)
<1> DEFINE I == SramIds(f)
           a == <<j, 1>>
           b == <<j, 2>>
           c == <<j, 3>>
           w == n + 1
           A == <<"cols", w, x>>
           B == <<"rows", w, y>>
<1>1. a \in I /\ b \in I /\ c \in I /\ a # b /\ a # c /\ b # c
  <2>1. a \in I /\ b \in I /\ c \in I
    BY IdsOf
  <2> QED BY <2>1
<1>2. IsMemory(p, f) /\ p.ddr = m.ddr
  BY DEF Own
<1>3. /\ q = Perform(p, Load(j, l.ins[1], "cols", w, a))
      /\ r = Perform(q, Load(j, l.ins[2], "rows", w, b))
      /\ s = Perform(r, Compute(j, l, <<a, b>>, c, w > 1))
  BY DEF TileStep
<1>4. PutsSram(p, q, f, a, A)
  <2>1. PutsSram(p, Perform(p, Load(j, l.ins[1], "cols", w, a)), f, a,
                 IF "cols" = "whole" THEN p.ddr[l.ins[1]] ELSE <<"cols", w, p.ddr[l.ins[1]]>>)
    <3> HIDE DEF a, w
    <3> QED BY <1>1, <1>2, LoadPuts
  <2> QED BY <1>2, <1>3, <2>1
<1>5. Own(m, q, f, j)
  BY <1>4, PuttingOwn
<1>6. PutsSram(q, r, f, b, B)
  <2>1. IsMemory(q, f) /\ q.ddr = m.ddr
    BY <1>5 DEF Own
  <2>2. PutsSram(q, Perform(q, Load(j, l.ins[2], "rows", w, b)), f, b,
                 IF "rows" = "whole" THEN q.ddr[l.ins[2]] ELSE <<"rows", w, q.ddr[l.ins[2]]>>)
    <3> HIDE DEF b, w
    <3> QED BY <1>1, <2>1, LoadPuts
  <2> QED BY <1>3, <2>1, <2>2
<1>7. Own(m, r, f, j)
  BY <1>5, <1>6, PuttingOwn
<1>8. r.sram[a] = A /\ r.sram[b] = B /\ r.sram[c] = p.sram[c]
  <2> HIDE DEF a, b, c, A, B, I
  <2>1. q.sram[a] = A /\ q.sram[c] = p.sram[c]
    BY <1>1, <1>4 DEF PutsSram, I
  <2>2. r.sram[b] = B /\ r.sram[a] = q.sram[a] /\ r.sram[c] = q.sram[c]
    BY <1>1, <1>6 DEF PutsSram, I
  <2> QED BY <2>1, <2>2
<1> DEFINE srcs == <<a, b>>
           args == [k \in 1 .. Len(srcs) |-> r.sram[srcs[k]]]
<1>9. args = Product(w, x, y)
  <2> HIDE DEF a, b, c, A, B, I
  <2>1. Len(srcs) = 2 /\ srcs[1] = a /\ srcs[2] = b
    OBVIOUS
  <2> HIDE DEF srcs
  <2>2. args = [k \in 1 .. 2 |-> r.sram[srcs[k]]]
    BY <2>1
  <2>3. args = <<A, B>>
    <3>1. \A k \in 1 .. 2 : r.sram[srcs[k]] = <<A, B>>[k]
      <4>1. \A k \in 1 .. 2 : k = 1 \/ k = 2
        OBVIOUS
      <4> QED BY <1>8, <2>1, <4>1
    <3>2. <<A, B>> = [k \in 1 .. 2 |-> <<A, B>>[k]]
      OBVIOUS
    <3> QED BY <2>2, <3>1, <3>2
  <2> QED BY <2>3 DEF A, B, Product
<1> DEFINE v == Append(IF w > 1 THEN r.sram[c] ELSE <<"matmul">>, args)
<1>10. v = SumOfTiles(w, x, y)
  <2> HIDE DEF args, c, I
  <2>0. w = n + 1 /\ args = Product(n + 1, x, y)
    BY <1>9
  <2>1. SumOfTiles(w, x, y) = Append(SumOfTiles(n, x, y), args) /\ SumOfTiles(0, x, y) = <<"matmul">>
    <3>1. SumOfTiles(n + 1, x, y) = Append(SumOfTiles(n, x, y), Product(n + 1, x, y))
      BY SumGrows
    <3>2. SumOfTiles(0, x, y) = <<"matmul">>
      BY SumGrows
    <3> QED BY <2>0, <3>1, <3>2
  <2>2. CASE n = 0
    <3>1. ~(w > 1)
      BY <2>2
    <3>2. SumOfTiles(n, x, y) = <<"matmul">>
      BY <2>1, <2>2
    <3> HIDE DEF w
    <3> QED BY <2>1, <3>1, <3>2
  <2>3. CASE n >= 1
    <3>1. w > 1 /\ r.sram[c] = SumOfTiles(n, x, y)
      BY <1>8, <2>3 DEF c
    <3> QED BY <2>1, <3>1
  <2> QED BY <2>2, <2>3
<1>11. PutsSram(r, s, f, c, v)
  <2>1. IsMemory(r, f) /\ s = Perform(r, Compute(j, l, srcs, c, w > 1))
    BY <1>3, <1>7 DEF Own
  <2>2. PutsSram(r, Perform(r, Compute(j, l, srcs, c, w > 1)), f, c,
                 IF l.kind = "matmul"
                 THEN Append(IF w > 1 THEN r.sram[c] ELSE <<"matmul">>, args)
                 ELSE <<l.fn>> \o args)
    <3> DEFINE acc == w > 1
    <3> HIDE DEF srcs, c, acc
    <3> QED BY <1>1, <2>1, ComputePuts
  <2> QED BY <2>1, <2>2
<1>12. Own(m, s, f, j)
  <2> HIDE DEF v
  <2> QED BY <1>7, <1>11, PuttingOwn
<1> QED BY <1>10, <1>11, <1>12 DEF PutsSram

\* The operations of a tiled product, one by one.
ListsTiles(u, T, l, i) ==
  /\ IsList(u) /\ Len(u) = 5 * T + 1
  /\ u[5 * T + 1] = Store(i, <<i, 3>>, l.out, "whole")
  /\ \A t \in 1 .. T, k \in 1 .. 5 : u[5 * (t - 1) + k] = TileStep(l, i, t, k)

LEMMA TiledSteps ==
  ASSUME NEW sh, NEW l, NEW i, NEW T \in Nat, T = TilesOf(sh, l), NEW u, u = LowerMatmul(sh, l, i)
  PROVE  ListsTiles(u, T, l, i)
<1> DEFINE m == 5 * T + 1
<1>1. m \in Nat \ {0}
  OBVIOUS
<1>2. u = [n \in 1 .. m |->
             IF n = m THEN Store(i, <<i, 3>>, l.out, "whole")
             ELSE TileStep(l, i, 1 + ((n - 1) \div 5), 1 + ((n - 1) % 5))]
  BY DEF LowerMatmul, Tiled
<1> HIDE DEF m
<1>4. IsList(u) /\ Len(u) = m
  <2>1. u = [n \in 1 .. m |-> u[n]]
    BY <1>2
  <2> QED BY <1>1, <2>1, Listed
<1>5. u[m] = Store(i, <<i, 3>>, l.out, "whole")
  BY <1>1, <1>2
<1>6. ASSUME NEW t \in 1 .. T, NEW k \in 1 .. 5
      PROVE  u[5 * (t - 1) + k] = TileStep(l, i, t, k)
  <2> PICK n : n = 5 * (t - 1) + k
    OBVIOUS
  <2>1. n \in 1 .. m /\ n # m /\ 1 + ((n - 1) \div 5) = t /\ 1 + ((n - 1) % 5) = k
    <3>1. n \in 1 .. m /\ n # m
      BY DEF m
    <3>2. n - 1 = 5 * (t - 1) + (k - 1) /\ k - 1 \in 0 .. 4 /\ t - 1 \in Nat
      OBVIOUS
    <3>3. (n - 1) \div 5 = t - 1 /\ (n - 1) % 5 = k - 1
      BY <3>2
    <3> QED BY <3>1, <3>2, <3>3
  <2>2. u[n] = TileStep(l, i, t, k)
    BY <1>2, <2>1
  <2> QED BY <2>2
<1> QED BY <1>4, <1>5, <1>6 DEF m, ListsTiles

\* From a on, u has what operation j, a matmul, became.
TiledAt(u, sh, l, j, a) ==
  LET t == LowerMatmul(sh, l, j)
  IN  LiesAt(u, j, a, Len(t)) /\ \A x \in 1 .. Len(t) : u[a + x] = t[x]

LEMMA TiledRuns ==
  ASSUME NEW f \in Functions, NEW j \in 1 .. Len(f.ops), NEW sh, NEW l,
         l.kind = "matmul", l.out \in Buffers, NEW T \in Nat \ {0}, T = TilesOf(sh, l),
         NEW u, IsList(u), NEW E, OnlyMoves(u, E), NEW a, TiledAt(u, sh, l, j, a),
         NEW m, IsMemory(m, f), NEW D,
         m.ddr[l.ins[1]] = D[l.ins[1]], m.ddr[l.ins[2]] = D[l.ins[2]],
         NEW r, r = RunFrom(m, Section(Without(u, E), j))
  PROVE  Effect(m, r, f, l, j, Outcome(D, l, T), a + (5 * T + 1) \notin E)
<1> DEFINE t == LowerMatmul(sh, l, j)
           z == 5 * T + 1
           X == D[l.ins[1]]
           Y == D[l.ins[2]]
           c == <<j, 3>>
<1>1. /\ Len(t) = z /\ t[z] = Store(j, c, l.out, "whole") /\ z \in Nat
      /\ \A n \in 1 .. T, k \in 1 .. 5 : t[5 * (n - 1) + k] = TileStep(l, j, n, k)
  <2>1. t = LowerMatmul(sh, l, j) /\ z \in Nat /\ T \in Nat
    OBVIOUS
  <2> HIDE DEF t
  <2>2. ListsTiles(t, T, l, j)
    BY <2>1, TiledSteps
  <2> QED BY <2>1, <2>2 DEF ListsTiles
<1>2. LiesAt(u, j, a, z) /\ a \in Nat /\ \A x \in 1 .. z : u[a + x] = t[x]
  BY <1>1 DEF TiledAt, LiesAt
<1> HIDE DEF t
<1>3. PICK e : RunsLeft(e, m, u, E, a, z) /\ RunFrom(m, Section(Without(u, E), j)) = e[z]
  BY <1>2, SectionIsBlock
<1>4. /\ e[0] = m /\ r = e[z]
      /\ \A x \in 1 .. z : e[x] = IF a + x \in E THEN e[x - 1] ELSE Perform(e[x - 1], u[a + x])
  BY <1>3 DEF RunsLeft
<1>5. ASSUME NEW n \in 1 .. T, NEW k \in 1 .. 5, NEW x, x = 5 * (n - 1) + k, NEW w, w = x - 1
      PROVE  e[x] = Perform(e[w], TileStep(l, j, n, k))
  <2>1. x \in 1 .. z
    BY <1>5
  <2>2. u[a + x] = TileStep(l, j, n, k)
    BY <1>1, <1>2, <1>5, <2>1
  <2>3. a + x \notin E
    <3> DEFINE o == u[a + x]
    <3>1. k = 1 \/ k = 2 \/ k = 3 \/ k = 4 \/ k = 5
      OBVIOUS
    <3>2. ~(o.op \in {"load", "store"} /\ o.part = "whole")
      BY <2>2, <3>1 DEF TileStep, Load, Sync, Compute
    <3> QED BY <3>2 DEF OnlyMoves
  <2> QED BY <1>4, <1>5, <2>1, <2>2, <2>3
<1> DEFINE In(n) == /\ Own(m, e[5 * n], f, j)
                    /\ n >= 1 => e[5 * n].sram[c] = SumOfTiles(n, X, Y)
           S == {n \in Nat : n <= T => In(n)}
<1> HIDE DEF z
<1>6. 0 \in S
  <2>1. Own(m, e[0], f, j)
    BY <1>4 DEF Own
  <2> QED BY <2>1
<1>7. ASSUME NEW n \in Nat, n \in S PROVE n + 1 \in S
  <2> SUFFICES ASSUME n + 1 <= T PROVE In(n + 1)
    OBVIOUS
  <2>1. In(n) /\ n + 1 \in 1 .. T
    BY <1>7
  <2> DEFINE p == 5 * n
             N == n + 1
  <2>2. /\ p + 1 = 5 * (N - 1) + 1 /\ p = (p + 1) - 1
        /\ p + 2 = 5 * (N - 1) + 2 /\ p + 1 = (p + 2) - 1
        /\ p + 3 = 5 * (N - 1) + 3 /\ p + 2 = (p + 3) - 1
        /\ p + 4 = 5 * (N - 1) + 4 /\ p + 3 = (p + 4) - 1
        /\ p + 5 = 5 * (N - 1) + 5 /\ p + 4 = (p + 5) - 1
        /\ 5 * N = p + 5
    OBVIOUS
  <2>3. /\ Own(m, e[p], f, j) /\ N \in 1 .. T
        /\ n >= 1 => e[p].sram[c] = SumOfTiles(n, X, Y)
    BY <2>1
  <2> HIDE DEF p, N, S
  <2>0. ASSUME NEW k \in 1 .. 5, NEW x, x = p + k, x = 5 * (N - 1) + k, NEW w, w = x - 1
        PROVE  e[x] = Perform(e[w], TileStep(l, j, N, k))
    <3>1. N \in 1 .. T
      BY <2>3
    <3>2. \A v \in 1 .. 5 : \A y : y = 5 * (N - 1) + v =>
            \A z0 : z0 = y - 1 => e[y] = Perform(e[z0], TileStep(l, j, N, v))
      BY <1>5, <3>1
    <3> QED BY <2>0, <3>2
  <2>4. e[p + 1] = Perform(e[p], TileStep(l, j, N, 1))
    <3>1. 1 \in 1 .. 5
      OBVIOUS
    <3> QED BY <2>2, <2>0, <3>1
  <2>5. e[p + 2] = Perform(e[p + 1], TileStep(l, j, N, 2))
    <3>1. 2 \in 1 .. 5
      OBVIOUS
    <3> QED BY <2>2, <2>0, <3>1
  <2>6. e[p + 3] = e[p + 2]
    <3>0. 3 \in 1 .. 5
      OBVIOUS
    <3>1. e[p + 3] = Perform(e[p + 2], TileStep(l, j, N, 3))
      BY <2>2, <2>0, <3>0
    <3>2. TileStep(l, j, N, 3) = Sync(j)
      BY DEF TileStep
    <3> QED BY <3>1, <3>2, SyncStays
  <2>7. e[p + 4] = Perform(e[p + 2], TileStep(l, j, N, 4))
    <3>0. 4 \in 1 .. 5
      OBVIOUS
    <3>1. e[p + 4] = Perform(e[p + 3], TileStep(l, j, N, 4))
      BY <2>2, <2>0, <3>0
    <3> QED BY <2>6, <3>1
  <2>8. e[p + 5] = e[p + 4]
    <3>0. 5 \in 1 .. 5
      OBVIOUS
    <3>1. e[p + 5] = Perform(e[p + 4], TileStep(l, j, N, 5))
      BY <2>2, <2>0, <3>0
    <3>2. TileStep(l, j, N, 5) = Sync(j)
      BY DEF TileStep
    <3> QED BY <3>1, <3>2, SyncStays
  <2>9. Own(m, e[p + 4], f, j) /\ e[p + 4].sram[c] = SumOfTiles(n + 1, X, Y)
    <3>1. m.ddr[l.ins[1]] = X /\ m.ddr[l.ins[2]] = Y
      OBVIOUS
    <3>2. Own(m, e[p], f, j) /\ (n >= 1 => e[p].sram[<<j, 3>>] = SumOfTiles(n, X, Y))
      BY <2>3
    <3> HIDE DEF X, Y, In
    <3> QED BY <2>4, <2>5, <2>7, <3>1, <3>2, TileRuns DEF N
  <2>10. Own(m, e[5 * N], f, j) /\ e[5 * N].sram[c] = SumOfTiles(N, X, Y)
    BY <2>2, <2>8, <2>9 DEF N
  <2> QED BY <2>10 DEF N
<1>8. In(T)
  <2>1. \A n \in Nat : n \in S
    <3> HIDE DEF S
    <3> QED BY <1>6, <1>7, Induction
  <2> QED BY <2>1
<1> DEFINE q == e[5 * T]
           v == Outcome(D, l, T)
<1>9. Own(m, q, f, j) /\ q.sram[c] = v
  BY <1>8 DEF Outcome
<1>10. c = Home(l, j) /\ c[1] = j
  BY DEF Home
<1>11. z \in 1 .. z /\ z - 1 = 5 * T
  BY <1>1 DEF z
<1>12. e[z] = IF a + z \in E THEN q ELSE Perform(q, Store(j, c, l.out, "whole"))
  BY <1>1, <1>2, <1>4, <1>11
<1> HIDE DEF q, v, c
<1>13. CASE a + z \in E
  <2>1. r = q
    BY <1>4, <1>12, <1>13
  <2> QED BY <1>9, <1>10, <1>13, <2>1 DEF Effect, Own, v, z
<1>14. CASE a + z \notin E
  <2>1. PutsDdr(q, r, f, l.out, q.sram[c])
    <3>1. IsMemory(q, f)
      BY <1>9 DEF Own
    <3> QED BY <1>4, <1>12, <1>14, <3>1, StoreWrites
  <2> QED BY <1>9, <1>10, <2>1 DEF Effect, Own, PutsDdr, v
<1> QED BY <1>13, <1>14

-----------------------------------------------------------------------------
(* The code that is left follows the reference.                            *)

\* Source y of operation j is what an operation i ahead of it in its block left
\* in SRAM, and no operation between the two writes the buffer.
Met(f, lo, j, y, s) ==
  \E i \in 1 .. j - 1 :
    /\ s = Home(lo[i], i) /\ lo[i].out = lo[j].ins[y]
    /\ InLoop(f, i) <=> InLoop(f, j)
    /\ \A q \in i + 1 .. j - 1 : lo[q].out # lo[i].out

\* What is left in u of operation j loads no buffer of G, and stores its result
\* unless that goes to G.
SoundWhole(f, u, E, lo, j, G) ==
  \E a :
    LET l == lo[j]
        n == Len(l.ins)
        srcs == u[a + (n + 2)].srcs
    IN  /\ WholeAt(u, E, l, j, a)
        /\ \A y \in 1 .. n : IF a + y \in E THEN Met(f, lo, j, y, srcs[y])
                             ELSE srcs[y] = <<j, y>> /\ l.ins[y] \notin G
        /\ a + (n + 4) \in E => l.out \in G
SoundTiled(f, u, E, lo, j, G) ==
  \E a :
    LET l == lo[j]
    IN  /\ TiledAt(u, f.shape, l, j, a)
        /\ l.ins[1] \notin G /\ l.ins[2] \notin G
        /\ a + (5 * TilesOf(f.shape, l) + 1) \in E => l.out \in G

\* The functions recognised as lo, and what is left of its code.
Recognises(f, lo) ==
  /\ f \in Functions /\ Len(lo) = Len(f.ops)
  /\ \A i \in 1 .. Len(lo) : lo[i] \in Accepted(f.shape, f.ops[i])
Sound(f, u, E, lo, G) ==
  /\ IsList(u) /\ OnlyMoves(u, E)
  /\ \A j \in 1 .. Len(lo) : IF lo[j].kind = "matmul" THEN SoundTiled(f, u, E, lo, j, G)
                             ELSE SoundWhole(f, u, E, lo, j, G)

\* g, reached by the code, agrees with h, reached by the reference, outside G.
Agree(g, h, G) == \A b \in Buffers \ G : g.ddr[b] = h.ddr[b]

\* Every source of operation j that is met holds in g what h has for the buffer.
MetHolds(f, lo, j, g, h) ==
  \A y, s : Met(f, lo, j, y, s) => g.sram[s] = h.ddr[lo[j].ins[y]]

TileCount(f, l) == IF l.kind = "matmul" THEN TilesOf(f.shape, l) ELSE 0

LEMMA OneMore == ASSUME NEW x \in 1 .. 2 PROVE x + 1 \in 1 .. 3 /\ 3 \in 1 .. 3
OBVIOUS

LEMMA WholeFollows ==
  ASSUME NEW f, NEW lo, Recognises(f, lo), NEW u, NEW E, NEW G, Sound(f, u, E, lo, G),
         NEW j \in 1 .. Len(lo), NEW l, l = lo[j], l.kind # "matmul",
         NEW g, NEW h, IsMemory(g, f), Agree(g, h, G), MetHolds(f, lo, j, g, h),
         NEW r, r = RunFrom(g, Section(Without(u, E), j))
  PROVE  \E stored : Effect(g, r, f, l, j, Outcome(h.ddr, l, 0), stored) /\ (stored \/ l.out \in G)
<1> DEFINE n == Len(l.ins)
           D == h.ddr
<1>1. /\ f \in Functions /\ Len(lo) = Len(f.ops) /\ Len(f.ops) \in Nat
      /\ \A i \in 1 .. Len(lo) : lo[i] \in Accepted(f.shape, f.ops[i])
  BY FunctionAssumption DEF Recognises
<1>2. \A i \in 1 .. Len(lo) : Len(lo[i].ins) \in 1 .. 2
  <2> TAKE i \in 1 .. Len(lo)
  <2>1. i \in 1 .. Len(f.ops) /\ lo[i] \in Accepted(f.shape, f.ops[i])
    BY <1>1
  <2> QED BY <1>1, <2>1, Offers
<1>3. l.out \in Buffers /\ n \in 1 .. 2 /\ \A y \in 1 .. n : l.ins[y] \in Buffers
  <2>1. j \in 1 .. Len(f.ops) /\ l \in Accepted(f.shape, f.ops[j])
    BY <1>1
  <2> QED BY <1>1, <2>1, Offers
<1>4. IsList(u) /\ OnlyMoves(u, E) /\ SoundWhole(f, u, E, lo, j, G)
  BY DEF Sound
<1> DEFINE Fits(a) == /\ WholeAt(u, E, l, j, a)
                      /\ \A y \in 1 .. n :
                           IF a + y \in E THEN Met(f, lo, j, y, u[a + (n + 2)].srcs[y])
                           ELSE u[a + (n + 2)].srcs[y] = <<j, y>> /\ l.ins[y] \notin G
                      /\ a + (n + 4) \in E => l.out \in G
<1>5. PICK a : Fits(a)
  BY <1>4 DEF SoundWhole
<1> PICK srcs : srcs = u[a + (n + 2)].srcs
  OBVIOUS
<1>6. ASSUME NEW y \in 1 .. n PROVE Holds(srcs[y], j, y, a + y, E, g, D, l.ins[y], f)
  <2>1. CASE a + y \in E
    <3>1. Met(f, lo, j, y, srcs[y])
      BY <1>5, <2>1
    <3>2. PICK i \in 1 .. j - 1 : srcs[y] = Home(lo[i], i)
      BY <3>1 DEF Met
    <3>3. g.sram[srcs[y]] = D[l.ins[y]]
      BY <3>1 DEF MetHolds
    <3>4. i \in 1 .. Len(lo) /\ i \in 1 .. Len(f.ops) /\ i # j
      BY <1>1
    <3>5. srcs[y] = <<i, 3>> \/ srcs[y] = <<i, Len(lo[i].ins) + 1>>
      BY <3>2 DEF Home
    <3>6. srcs[y][1] = i
      BY <3>5
    <3>7. Len(lo[i].ins) + 1 \in 1 .. 3 /\ 3 \in 1 .. 3
      <4> PICK x : x = Len(lo[i].ins)
        OBVIOUS
      <4>1. x \in 1 .. 2
        BY <1>2, <3>4
      <4> QED BY <4>1, OneMore
    <3>8. srcs[y] \in SramIds(f)
      BY <1>1, <3>4, <3>5, <3>7, IdsOf
    <3> QED BY <2>1, <3>3, <3>4, <3>6, <3>8 DEF Holds
  <2>2. CASE a + y \notin E
    <3>1. srcs[y] = <<j, y>> /\ l.ins[y] \notin G /\ l.ins[y] \in Buffers
      BY <1>3, <1>5, <2>2
    <3>2. g.ddr[l.ins[y]] = D[l.ins[y]]
      BY <3>1 DEF Agree
    <3> QED BY <2>2, <3>1, <3>2 DEF Holds
  <2> QED BY <2>1, <2>2
<1>7. Effect(g, r, f, l, j, Outcome(D, l, 0), a + (Len(l.ins) + 4) \notin E)
  <2>1. /\ j \in 1 .. Len(f.ops) /\ l.kind # "matmul" /\ l.out \in Buffers
        /\ Len(l.ins) \in 1 .. 2 /\ WholeAt(u, E, l, j, a)
        /\ srcs = u[a + (Len(l.ins) + 2)].srcs
    BY <1>1, <1>3, <1>5
  <2>2. \A y \in 1 .. Len(l.ins) : Holds(srcs[y], j, y, a + y, E, g, D, l.ins[y], f)
    BY <1>6
  <2> HIDE DEF D, Fits
  <2> QED BY <1>1, <1>4, <2>1, <2>2, WholeRuns
<1> QED BY <1>5, <1>7

LEMMA TiledFollows ==
  ASSUME NEW f, NEW lo, Recognises(f, lo), NEW u, NEW E, NEW G, Sound(f, u, E, lo, G),
         NEW j \in 1 .. Len(lo), NEW l, l = lo[j], l.kind = "matmul",
         NEW g, NEW h, IsMemory(g, f), Agree(g, h, G),
         NEW r, r = RunFrom(g, Section(Without(u, E), j))
  PROVE  \E stored : /\ Effect(g, r, f, l, j, Outcome(h.ddr, l, TilesOf(f.shape, l)), stored)
                     /\ stored \/ l.out \in G
<1> DEFINE T == TilesOf(f.shape, l)
           D == h.ddr
           sh == f.shape
<1>1. f \in Functions /\ j \in 1 .. Len(f.ops) /\ l \in Accepted(f.shape, f.ops[j])
  BY DEF Recognises
<1>2. /\ l.out \in Buffers /\ T \in Nat \ {0} /\ l.ins[1] \in Buffers /\ l.ins[2] \in Buffers
  BY <1>1, Offers
<1>3. IsList(u) /\ OnlyMoves(u, E) /\ SoundTiled(f, u, E, lo, j, G)
  BY DEF Sound
<1>4. PICK a : /\ TiledAt(u, sh, l, j, a) /\ l.ins[1] \notin G /\ l.ins[2] \notin G
               /\ a + (5 * T + 1) \in E => l.out \in G
  BY <1>3 DEF SoundTiled
<1>5. g.ddr[l.ins[1]] = D[l.ins[1]] /\ g.ddr[l.ins[2]] = D[l.ins[2]]
  BY <1>2, <1>4 DEF Agree
<1>6. T = TilesOf(sh, l)
  OBVIOUS
<1> HIDE DEF T, D, sh
<1>7. Effect(g, r, f, l, j, Outcome(D, l, T), a + (5 * T + 1) \notin E)
  BY <1>1, <1>2, <1>3, <1>4, <1>5, <1>6, TiledRuns
<1> QED BY <1>4, <1>7 DEF T, D

-----------------------------------------------------------------------------
(* The two runs, side by side.                                             *)

\* After k operations, none since the p-th has written its buffer, and then its
\* result is still in SRAM.
LastOf(lo, ord, k, p) == \A q \in p + 1 .. k : lo[ord[q]].out # lo[ord[p]].out
HomesHold(g, h, lo, ord, k) ==
  \A p \in 1 .. k : LastOf(lo, ord, k, p) =>
    g.sram[Home(lo[ord[p]], ord[p])] = h.ddr[lo[ord[p]].out]

Follows(g, h, f, lo, ord, k, G) ==
  IsMemory(g, f) /\ IsMemory(h, f) /\ Agree(g, h, G) /\ HomesHold(g, h, lo, ord, k)

LEMMA MetInOrder ==
  ASSUME NEW f, NEW lo, Recognises(f, lo), NEW ord, ord = Order(f), NEW k \in 1 .. Len(ord),
         NEW g, NEW h, HomesHold(g, h, lo, ord, k - 1)
  PROVE  MetHolds(f, lo, ord[k], g, h)
<1> PICK j : j = ord[k]
  OBVIOUS
<1> SUFFICES ASSUME NEW y, NEW s, Met(f, lo, j, y, s) PROVE g.sram[s] = h.ddr[lo[j].ins[y]]
  BY DEF MetHolds
<1>1. PICK i \in 1 .. j - 1 :
        /\ s = Home(lo[i], i) /\ lo[i].out = lo[j].ins[y] /\ (InLoop(f, i) <=> InLoop(f, j))
        /\ \A q \in i + 1 .. j - 1 : lo[q].out # lo[i].out
  BY DEF Met
<1>2. f \in Functions /\ Len(f.ops) \in Nat
  BY FunctionAssumption DEF Recognises
<1>3. PICK n : n = Len(f.ops)
  OBVIOUS
<1>4. /\ IsList(ord) /\ \A x \in 1 .. Len(ord) : ord[x] \in 1 .. n
      /\ \A x \in 1 .. Len(ord), b \in 1 .. n :
           b < ord[x] /\ (InLoop(f, b) <=> InLoop(f, ord[x])) =>
             \E p \in 1 .. x - 1 :
               ord[p] = b /\ \A q \in p + 1 .. x - 1 : ord[q] \in b + 1 .. ord[x] - 1
  BY <1>2, <1>3, Ordering
<1>5. j \in 1 .. n /\ i \in 1 .. n /\ i < j
  BY <1>2, <1>3, <1>4
<1>6. PICK p \in 1 .. k - 1 : ord[p] = i /\ \A q \in p + 1 .. k - 1 : ord[q] \in i + 1 .. j - 1
  BY <1>1, <1>4, <1>5
<1>7. LastOf(lo, ord, k - 1, p)
  BY <1>1, <1>6 DEF LastOf
<1>8. g.sram[Home(lo[i], i)] = h.ddr[lo[i].out]
  BY <1>6, <1>7 DEF HomesHold
<1> QED BY <1>1, <1>8

LEMMA OperationFollows ==
  ASSUME NEW f, NEW lo, Recognises(f, lo), NEW u, NEW E, NEW G, Sound(f, u, E, lo, G),
         NEW j \in 1 .. Len(lo), NEW l, l = lo[j],
         NEW g, NEW h, IsMemory(g, f), Agree(g, h, G), MetHolds(f, lo, j, g, h),
         NEW r, r = RunFrom(g, Section(Without(u, E), j)), NEW v, v = Outcome(h.ddr, l, TileCount(f, l))
  PROVE  \E stored : Effect(g, r, f, l, j, v, stored) /\ (stored \/ l.out \in G)
<1>1. CASE l.kind = "matmul"
  <2>1. TileCount(f, l) = TilesOf(f.shape, l)
    BY <1>1 DEF TileCount
  <2> QED BY <1>1, <2>1, TiledFollows
<1>2. CASE l.kind # "matmul"
  <2>1. TileCount(f, l) = 0
    BY <1>2 DEF TileCount
  <2> QED BY <1>2, <2>1, WholeFollows
<1> QED BY <1>1, <1>2

\* What Accepted offers, for every operation at once.
LEMMA Homes ==
  ASSUME NEW f, NEW lo, Recognises(f, lo), NEW i \in 1 .. Len(lo)
  PROVE  /\ i \in 1 .. Len(f.ops) /\ f \in Functions /\ lo[i].out \in Buffers
         /\ Home(lo[i], i) \in SramIds(f) /\ Home(lo[i], i)[1] = i
<1> PICK l, n : l = lo[i] /\ n = Len(l.ins)
  OBVIOUS
<1>1. /\ f \in Functions /\ Len(lo) = Len(f.ops) /\ i \in 1 .. Len(f.ops)
      /\ l \in Accepted(f.shape, f.ops[i])
  BY DEF Recognises
<1>2. l.out \in Buffers /\ n \in 1 .. 2
  BY <1>1, Offers
<1>3. n + 1 \in 1 .. 3 /\ 3 \in 1 .. 3
  BY <1>2, OneMore
<1>4. Home(l, i) = <<i, 3>> \/ Home(l, i) = <<i, n + 1>>
  BY DEF Home
<1>5. Home(l, i) \in SramIds(f) /\ Home(l, i)[1] = i
  <2>1. \A y \in 1 .. 3 : <<i, y>> \in SramIds(f)
    BY <1>1, IdsOf
  <2> QED BY <1>3, <1>4, <2>1
<1> QED BY <1>1, <1>2, <1>5

LEMMA StepFollows ==
  ASSUME NEW f, NEW lo, Recognises(f, lo), NEW u, NEW E, NEW G, Sound(f, u, E, lo, G),
         NEW ord, ord = Order(f), NEW k \in 1 .. Len(ord), IsList(ord),
         \A x \in 1 .. Len(ord) : ord[x] \in 1 .. Len(lo),
         NEW g, NEW h, Follows(g, h, f, lo, ord, k - 1, G),
         NEW r, r = RunFrom(g, Section(Without(u, E), ord[k])),
         NEW t, t = Perform(h, Direct(f.shape, lo[ord[k]]))
  PROVE  Follows(r, t, f, lo, ord, k, G)
<1> PICK j, l : j = ord[k] /\ l = lo[j]
  OBVIOUS
<1> PICK v : v = Outcome(h.ddr, l, TileCount(f, l))
  OBVIOUS
<1>1. /\ IsMemory(g, f) /\ IsMemory(h, f) /\ Agree(g, h, G) /\ HomesHold(g, h, lo, ord, k - 1)
  BY DEF Follows
<1>2. j \in 1 .. Len(lo) /\ l.out \in Buffers /\ Len(ord) \in Nat
  BY Homes DEF IsList
<1>3. MetHolds(f, lo, j, g, h)
  BY <1>1, MetInOrder
<1>4. PICK stored : Effect(g, r, f, l, j, v, stored) /\ (stored \/ l.out \in G)
  BY <1>1, <1>2, <1>3, OperationFollows
<1>5. PutsDdr(h, t, f, l.out, v)
  BY <1>1, <1>2, DirectWrites DEF TileCount
<1>6. /\ IsMemory(r, f) /\ r.sram[Home(l, j)] = v
      /\ \A s \in SramIds(f) : s[1] # j => r.sram[s] = g.sram[s]
      /\ \A b \in Buffers \ {l.out} : r.ddr[b] = g.ddr[b]
      /\ stored => r.ddr[l.out] = v
  BY <1>4 DEF Effect
<1>7. /\ IsMemory(t, f) /\ t.ddr[l.out] = v /\ \A b \in Buffers \ {l.out} : t.ddr[b] = h.ddr[b]
  BY <1>5 DEF PutsDdr
<1>8. Agree(r, t, G)
  <2> SUFFICES ASSUME NEW b \in Buffers \ G PROVE r.ddr[b] = t.ddr[b]
    BY DEF Agree
  <2>1. CASE b = l.out
    BY <1>4, <1>6, <1>7, <2>1
  <2>2. CASE b # l.out
    <3>1. g.ddr[b] = h.ddr[b]
      BY <1>1 DEF Agree
    <3> QED BY <1>6, <1>7, <2>2, <3>1
  <2> QED BY <2>1, <2>2
<1>9. HomesHold(r, t, lo, ord, k)
  <2> SUFFICES ASSUME NEW p \in 1 .. k, LastOf(lo, ord, k, p)
               PROVE  r.sram[Home(lo[ord[p]], ord[p])] = t.ddr[lo[ord[p]].out]
    BY DEF HomesHold
  <2>1. CASE p = k
    BY <1>6, <1>7, <2>1
  <2>2. CASE p # k
    <3> PICK i : i = ord[p]
      OBVIOUS
    <3>1. p \in 1 .. k - 1 /\ k \in p + 1 .. k /\ \A q \in p + 1 .. k - 1 : q \in p + 1 .. k
      BY <1>2, <2>2
    <3>2. LastOf(lo, ord, k - 1, p) /\ lo[i].out # l.out
      BY <3>1 DEF LastOf
    <3>3. i \in 1 .. Len(lo)
      BY <1>2, <3>1
    <3>4. i # j /\ Home(lo[i], i) \in SramIds(f) /\ Home(lo[i], i)[1] = i /\ lo[i].out \in Buffers
      BY <3>2, <3>3, Homes
    <3>5. g.sram[Home(lo[i], i)] = h.ddr[lo[i].out]
      BY <1>1, <3>1, <3>2 DEF HomesHold
    <3> QED BY <1>6, <1>7, <3>2, <3>4, <3>5
  <2> QED BY <2>1, <2>2
<1> QED BY <1>6, <1>7, <1>8, <1>9 DEF Follows

LEMMA StartIsMemory == ASSUME NEW f PROVE IsMemory(Start(f), f)
BY DEF IsMemory, Start, Initial

\* Code that is sound returns what the reference does.
LEMMA SoundCodeComputes ==
  ASSUME NEW f, NEW lo, Recognises(f, lo), NEW u, NEW E, NEW G, Sound(f, u, E, lo, G),
         f.ret \intersect G = {}
  PROVE  Result(f, Without(u, E)) = Reference(f, lo)
<1> PICK ord, n, m : ord = Order(f) /\ n = Len(f.ops) /\ m = Start(f)
  OBVIOUS
<1> DEFINE z == Len(ord)
           list == Without(u, E)
           direct == [k \in 1 .. Len(ord) |-> Direct(f.shape, lo[ord[k]])]
<1>1. f \in Functions /\ Len(lo) = n /\ f.ret \subseteq Buffers
  BY FunctionAssumption DEF Recognises
<1>2. IsList(ord) /\ \A x \in 1 .. Len(ord) : ord[x] \in 1 .. Len(lo)
  BY <1>1, Ordering
<1>3. z \in Nat
  BY <1>2 DEF IsList
<1>4. PICK T : list \in Seq(T)
  <2>1. IsList(u)
    BY DEF Sound
  <2>2. u \in Seq(RangeOf(u))
    BY <2>1 DEF IsList
  <2>3. PICK keep : Keeps(keep, u, E, RangeOf(u))
    BY <2>2, WithoutSteps
  <2> QED BY <2>2, <2>3 DEF Keeps
<1> HIDE DEF list
<1>5. PICK g : Sections(g, m, list, ord) /\ RunFrom(m, Unrolled(f, list)) = g[z]
  BY <1>2, <1>4, UnrolledRuns
<1>6. IsList(direct) /\ Len(direct) = z /\ \A k \in 1 .. z : direct[k] = Direct(f.shape, lo[ord[k]])
  <2>1. direct = [k \in 1 .. z |-> direct[k]]
    OBVIOUS
  <2>2. \A k \in 1 .. z : direct[k] = Direct(f.shape, lo[ord[k]])
    OBVIOUS
  <2> HIDE DEF direct
  <2> QED BY <1>3, <2>1, <2>2, Listed
<1>7. Reference(f, lo) = [b \in f.ret |-> RunFrom(m, direct).ddr[b]]
  BY DEF Reference
<1> HIDE DEF direct
<1>8. PICK h : Runs(h, m, direct)
  BY <1>6, RunExists
<1>9. RunFrom(m, direct) = h[z]
  BY <1>6, <1>8, RunIs
<1>10. /\ g[0] = m /\ \A k \in 1 .. z : g[k] = RunFrom(g[k - 1], Section(list, ord[k]))
  BY <1>5 DEF Sections
<1>11. /\ h[0] = m /\ \A k \in 1 .. z : h[k] = Perform(h[k - 1], Direct(f.shape, lo[ord[k]]))
  BY <1>6, <1>8 DEF Runs
<1> DEFINE S == {k \in Nat : k <= z => Follows(g[k], h[k], f, lo, ord, k, G)}
<1>12. 0 \in S
  <2>1. IsMemory(m, f)
    BY StartIsMemory
  <2>2. Agree(m, m, G) /\ HomesHold(m, m, lo, ord, 0)
    BY DEF Agree, HomesHold
  <2> QED BY <1>10, <1>11, <2>1, <2>2 DEF Follows
<1>13. ASSUME NEW k \in Nat, k \in S PROVE k + 1 \in S
  <2> SUFFICES ASSUME k + 1 <= z PROVE Follows(g[k + 1], h[k + 1], f, lo, ord, k + 1, G)
    OBVIOUS
  <2> PICK x : x = k + 1
    OBVIOUS
  <2>1. x \in 1 .. z /\ x - 1 = k /\ Follows(g[x - 1], h[x - 1], f, lo, ord, x - 1, G)
    BY <1>3, <1>13
  <2>2. /\ g[x] = RunFrom(g[x - 1], Section(Without(u, E), ord[x]))
        /\ h[x] = Perform(h[x - 1], Direct(f.shape, lo[ord[x]]))
    BY <1>10, <1>11, <2>1 DEF list
  <2> HIDE DEF S
  <2>3. Follows(g[x], h[x], f, lo, ord, x, G)
    BY <1>2, <2>1, <2>2, StepFollows
  <2> QED BY <2>3
<1>14. Follows(g[z], h[z], f, lo, ord, z, G)
  <2>1. \A k \in Nat : k \in S
    <3> HIDE DEF S
    <3> QED BY <1>12, <1>13, Induction
  <2> QED BY <1>3, <2>1
<1>15. \A b \in f.ret : g[z].ddr[b] = h[z].ddr[b]
  BY <1>1, <1>14 DEF Follows, Agree
<1>16. Result(f, list) = [b \in f.ret |-> g[z].ddr[b]]
  BY <1>5 DEF Result
<1> QED BY <1>7, <1>9, <1>15, <1>16 DEF list

-----------------------------------------------------------------------------
(* The code of one operation, through the pass.                            *)

\* Source y of operation j, whose load is at k: the SRAM buffer of that load,
\* and, once it is erased, of the store it was paired with.
Supply(u, E, W, lo, j, y, k, s) ==
  IF k \in E
  THEN \E n \in 1 .. Len(W) :
         W[n].load = k /\ s = Home(lo[u[W[n].store].at], u[W[n].store].at)
  ELSE s = <<j, y>>

WholeBlock(u, E, W, lo, j, a) ==
  LET n == Len(lo[j].ins)
  IN  /\ WholeAt(u, E, lo[j], j, a) /\ IsList(u[a + (n + 2)].srcs)
      /\ \A y \in 1 .. n : Supply(u, E, W, lo, j, y, a + y, u[a + (n + 2)].srcs[y])

BlockOf(u, E, W, lo, sh, j) ==
  \E a : IF lo[j].kind = "matmul" THEN TiledAt(u, sh, lo[j], j, a)
         ELSE WholeBlock(u, E, W, lo, j, a)

\* Patterns recognised these operations.
Offered(lo, f) ==
  /\ f \in Functions /\ IsList(lo) /\ Len(lo) <= Len(f.ops)
  /\ \A i \in 1 .. Len(lo) : lo[i] \in Accepted(f.shape, f.ops[i])

LEMMA OfferedIs ==
  ASSUME NEW f, NEW lo, Offered(lo, f), NEW i \in 1 .. Len(lo), NEW l, l = lo[i]
  PROVE  /\ f \in Functions /\ i \in 1 .. Len(f.ops) /\ l \in Accepted(f.shape, f.ops[i])
         /\ l.kind \in {"matmul", "ewise", "act", "reduce"}
         /\ IsList(l.ins) /\ Len(l.ins) \in 1 .. 2 /\ \A k \in 1 .. Len(l.ins) : l.ins[k] \in Buffers
         /\ l.out \in Buffers
         /\ Len(l.ins) = Arity(l)
         /\ l.kind = "matmul" => TilesOf(f.shape, l) \in Nat \ {0} /\ Len(l.ins) = 2
<1>1. f \in Functions /\ l \in Accepted(f.shape, f.ops[i]) /\ Len(lo) <= Len(f.ops)
  BY DEF Offered
<1>2. Len(lo) \in Nat /\ Len(f.ops) \in Nat
  BY FunctionAssumption DEF Offered, IsList
<1>3. i \in 1 .. Len(f.ops)
  BY <1>1, <1>2
<1> QED BY <1>1, <1>3, Offers

\* The store of an operation is the last of its code.
StoresLast(u, X, l, j) ==
  /\ X \in 1 .. Len(u) /\ u[X].op = "store" /\ u[X].at = j /\ u[X].buf = l.out
  /\ u[X].sram = Home(l, j)
  /\ \A k \in 1 .. Len(u) : u[k].at = j => k <= X /\ (u[k].op = "store" => k = X)

\* All its loads are its first n operations.
LoadsFirst(u, a, n, j) ==
  \A k \in 1 .. Len(u) : u[k].at = j /\ u[k].op = "load" => \E y \in 1 .. n : k = a + y

LEMMA WholeEnds ==
  ASSUME NEW u, IsList(u), NEW E, NEW l, NEW j, NEW a, WholeAt(u, E, l, j, a), l.kind # "matmul",
         NEW n, n = Len(l.ins), n \in Nat
  PROVE  StoresLast(u, a + (n + 4), l, j) /\ LoadsFirst(u, a, n, j)
<1>1. /\ a \in Nat /\ a + (n + 4) <= Len(u) /\ Len(u) \in Nat
      /\ \A k \in 1 .. Len(u) : u[k].at = j <=> k \in a + 1 .. a + (n + 4)
  BY ListOf DEF WholeAt, LiesAt, IsList
<1> PICK X : X = a + (n + 4)
  OBVIOUS
<1>2. ASSUME NEW y \in 1 .. n PROVE u[a + y].op = "load"
  <2>1. \E s : u[a + y] = Load(j, l.ins[y], "whole", 0, s)
    BY DEF WholeAt
  <2> QED BY <2>1 DEF Load
<1>3. u[a + (n + 1)].op = "sync" /\ u[a + (n + 2)].op = "compute" /\ u[a + (n + 3)].op = "sync"
  BY DEF WholeAt, Sync, Compute
<1>4. \E part : u[X] = Store(j, <<j, n + 1>>, l.out, part)
  BY DEF WholeAt
<1>5. u[X].op = "store" /\ u[X].at = j /\ u[X].buf = l.out /\ u[X].sram = Home(l, j)
  BY <1>4 DEF Store, Home
<1>6. X \in 1 .. Len(u)
  BY <1>1
<1>7. ASSUME NEW k \in 1 .. Len(u), u[k].at = j
      PROVE  /\ k <= X /\ (u[k].op = "store" => k = X)
             /\ u[k].op = "load" => \E y \in 1 .. n : k = a + y
  <2>1. k \in a + 1 .. a + (n + 4)
    BY <1>1, <1>7
  <2>2. PICK y : y = k - a
    OBVIOUS
  <2>3. y \in 1 .. n + 4 /\ k = a + y
    BY <1>1, <2>1, <2>2
  <2>4. y \in 1 .. n \/ y = n + 1 \/ y = n + 2 \/ y = n + 3 \/ y = n + 4
    BY <2>3
  <2>5. CASE y \in 1 .. n
    BY <1>1, <1>2, <2>1, <2>3, <2>5
  <2>6. CASE y = n + 1 \/ y = n + 2 \/ y = n + 3
    <3>1. u[k].op \notin {"store", "load"}
      BY <1>3, <2>3, <2>6
    <3> QED BY <1>1, <2>1, <3>1
  <2>7. CASE y = n + 4
    <3>1. k = X
      BY <2>3, <2>7
    <3> QED BY <1>5, <1>6, <3>1
  <2> QED BY <2>4, <2>5, <2>6, <2>7
<1>8. StoresLast(u, X, l, j)
  BY <1>5, <1>6, <1>7 DEF StoresLast
<1>9. LoadsFirst(u, a, n, j)
  BY <1>7 DEF LoadsFirst
<1> QED BY <1>8, <1>9

LEMMA TiledEnds ==
  ASSUME NEW u, IsList(u), NEW sh, NEW l, NEW j, NEW a, TiledAt(u, sh, l, j, a),
         l.kind = "matmul", NEW T, T = TilesOf(sh, l), T \in Nat
  PROVE  /\ StoresLast(u, a + (5 * T + 1), l, j)
         /\ \A k \in 1 .. Len(u) : u[k].at = j /\ u[k].op = "load" => u[k].part # "whole"
<1> PICK t, z : t = LowerMatmul(sh, l, j) /\ z = Len(t)
  OBVIOUS
<1>1. /\ IsList(t) /\ z \in Nat \ {0} /\ t[z] = Store(j, <<j, 3>>, l.out, "whole")
      /\ \A n \in 1 .. z - 1 : \E w, k : k \in 1 .. 5 /\ t[n] = TileStep(l, j, w, k)
  BY TiledIs
<1>2. z = 5 * T + 1
  <2>1. ListsTiles(t, T, l, j)
    BY TiledSteps
  <2> QED BY <2>1 DEF ListsTiles
<1>3. /\ a \in Nat /\ a + z <= Len(u) /\ Len(u) \in Nat
      /\ \A k \in 1 .. Len(u) : u[k].at = j <=> k \in a + 1 .. a + z
      /\ \A x \in 1 .. z : u[a + x] = t[x]
  BY ListOf DEF TiledAt, LiesAt, IsList
<1> PICK X : X = a + z
  OBVIOUS
<1>4. u[X] = Store(j, <<j, 3>>, l.out, "whole")
  <2>1. z \in 1 .. z
    BY <1>1
  <2> QED BY <1>1, <1>3, <2>1
<1>5. u[X].op = "store" /\ u[X].at = j /\ u[X].buf = l.out /\ u[X].sram = Home(l, j)
  BY <1>4 DEF Store, Home
<1>6. X \in 1 .. Len(u)
  BY <1>1, <1>3
<1>7. ASSUME NEW n \in 1 .. z - 1
      PROVE  t[n].op # "store" /\ (t[n].op = "load" => t[n].part # "whole")
  <2>1. PICK w, k : k \in 1 .. 5 /\ t[n] = TileStep(l, j, w, k)
    BY <1>1
  <2>2. k = 1 \/ k = 2 \/ k = 3 \/ k = 4 \/ k = 5
    BY <2>1
  <2> QED BY <2>1, <2>2 DEF TileStep, Load, Sync, Compute
<1>8. ASSUME NEW k \in 1 .. Len(u), u[k].at = j
      PROVE  /\ k <= X /\ (u[k].op = "store" => k = X)
             /\ u[k].op = "load" => u[k].part # "whole"
  <2>1. k \in a + 1 .. a + z
    BY <1>3, <1>8
  <2>2. PICK y : y = k - a
    OBVIOUS
  <2>3. y \in 1 .. z /\ k = a + y /\ u[k] = t[y]
    BY <1>1, <1>3, <2>1, <2>2
  <2>4. CASE y \in 1 .. z - 1
    BY <1>1, <1>3, <1>7, <2>1, <2>3, <2>4
  <2>5. CASE y = z
    BY <1>1, <1>3, <1>5, <2>1, <2>3, <2>5
  <2> QED BY <1>1, <2>3, <2>4, <2>5
<1>9. StoresLast(u, X, l, j)
  BY <1>5, <1>6, <1>8 DEF StoresLast
<1> QED BY <1>2, <1>8, <1>9

LEMMA BlockEnds ==
  ASSUME NEW u, IsList(u), NEW E, NEW W, NEW lo, NEW f, Offered(lo, f), NEW j \in 1 .. Len(lo),
         BlockOf(u, E, W, lo, f.shape, j)
  PROVE  \E X : StoresLast(u, X, lo[j], j)
<1> PICK l, n : l = lo[j] /\ n = Len(l.ins)
  OBVIOUS
<1>1. n \in Nat /\ (l.kind = "matmul" => TilesOf(f.shape, l) \in Nat)
  BY OfferedIs
<1>2. PICK a : IF l.kind = "matmul" THEN TiledAt(u, f.shape, l, j, a)
               ELSE WholeBlock(u, E, W, lo, j, a)
  BY DEF BlockOf
<1>3. CASE l.kind = "matmul"
  BY <1>1, <1>2, <1>3, TiledEnds
<1>4. CASE l.kind # "matmul"
  <2>1. WholeAt(u, E, l, j, a)
    BY <1>2, <1>4 DEF WholeBlock
  <2> QED BY <1>1, <1>4, <2>1, WholeEnds
<1> QED BY <1>3, <1>4

-----------------------------------------------------------------------------
(* convert-linalg-to-eclipse appends the code of an operation.             *)

LEMMA NewBlock ==
  ASSUME NEW f, NEW hi, Offered(hi, f), NEW j \in 1 .. Len(hi), NEW l, l = hi[j],
         NEW r, IsList(r), \A k \in 1 .. Len(r) : r[k].at # j,
         NEW t, t = Lower(f.shape, l, j), NEW u, u = r \o t, NEW W
  PROVE  BlockOf(u, {}, W, hi, f.shape, j)
<1> DEFINE n == Len(l.ins)
           a == Len(r)
           sh == f.shape
<1>1. /\ f \in Functions /\ j \in 1 .. Len(f.ops) /\ l \in Accepted(sh, f.ops[j])
      /\ l.kind \in {"matmul", "ewise", "act", "reduce"} /\ IsList(l.ins) /\ n \in 1 .. 2
      /\ l.kind = "matmul" => TilesOf(sh, l) \in Nat \ {0}
  BY OfferedIs
<1>2. Becomes(t, j, sh, l, f.ops[j])
  BY <1>1, LoweringBecomes
<1>3. IsList(t) /\ \A k \in 1 .. Len(t) : t[k].at = j
  BY <1>2 DEF Becomes
<1>4. /\ a \in Nat /\ Len(t) \in Nat /\ Len(u) = a + Len(t)
      /\ \A k \in 1 .. a : u[k] = r[k]
      /\ \A k \in 1 .. Len(t) : u[a + k] = t[k]
  BY <1>3, Joining
<1> PICK z : z = Len(t)
  OBVIOUS
<1> HIDE DEF a, n, sh
<1>5. LiesAt(u, j, a, z)
  <2>1. ASSUME NEW k \in 1 .. Len(u) PROVE u[k].at = j <=> k \in a + 1 .. a + z
    <3>1. CASE k \in 1 .. a
      BY <1>4, <3>1 DEF a
    <3>2. CASE k \notin 1 .. a
      <4> PICK x : x = k - a
        OBVIOUS
      <4>1. x \in 1 .. z /\ k = a + x /\ k \in a + 1 .. a + z
        BY <1>4, <3>2
      <4> QED BY <1>3, <1>4, <4>1
    <3> QED BY <3>1, <3>2
  <2>2. a + z <= Len(u)
    BY <1>4
  <2> QED BY <1>4, <2>1, <2>2 DEF LiesAt
<1>6. CASE l.kind = "matmul"
  <2>1. t = LowerMatmul(sh, l, j)
    BY <1>6 DEF Lower, sh
  <2>2. TiledAt(u, sh, l, j, a)
    BY <1>4, <1>5, <2>1 DEF TiledAt
  <2> QED BY <1>6, <2>2 DEF BlockOf, sh
<1>7. CASE l.kind # "matmul"
  <2>1. PICK part : t = Whole(l, j, part)
    BY <1>1, <1>7 DEF Lower, LowerEwise, LowerAct, LowerReduce
  <2>2. ListsWhole(t, n, l, j, part)
    BY <1>1, <2>1, WholeIs DEF n
  <2> PICK srcs : srcs = [k \in 1 .. n |-> <<j, k>>]
    OBVIOUS
  <2>3. /\ n \in Nat /\ z = n + 4
        /\ \A k \in 1 .. n : t[k] = Load(j, l.ins[k], "whole", 0, <<j, k>>)
        /\ t[n + 1] = Sync(j) /\ t[n + 3] = Sync(j)
        /\ t[n + 2] = Compute(j, l, srcs, <<j, n + 1>>, FALSE)
        /\ t[n + 4] = Store(j, <<j, n + 1>>, l.out, part)
    BY <2>2 DEF ListsWhole
  <2>4. /\ \A k \in 1 .. n : u[a + k] = Load(j, l.ins[k], "whole", 0, <<j, k>>)
        /\ u[a + (n + 1)] = Sync(j) /\ u[a + (n + 3)] = Sync(j)
        /\ u[a + (n + 2)] = Compute(j, l, srcs, <<j, n + 1>>, FALSE)
        /\ u[a + (n + 4)] = Store(j, <<j, n + 1>>, l.out, part)
    <3>1. \A k \in 1 .. z : u[a + k] = t[k]
      BY <1>4
    <3>2. n + 1 \in 1 .. z /\ n + 2 \in 1 .. z /\ n + 3 \in 1 .. z /\ n + 4 \in 1 .. z
      BY <2>3
    <3>3. \A k \in 1 .. n : k \in 1 .. z
      BY <2>3
    <3> QED BY <2>3, <3>1, <3>2, <3>3
  <2>5. IsList(srcs) /\ Len(srcs) = n /\ \A y \in 1 .. n : srcs[y] = <<j, y>>
    BY <2>3, Listed
  <2>6. u[a + (n + 2)].srcs = srcs
    BY <2>4 DEF Compute
  <2>7. ASSUME NEW k \in 1 .. n PROVE u[a + k].sram = <<j, k>>
    <3>1. u[a + k] = Load(j, l.ins[k], "whole", 0, <<j, k>>)
      BY <2>4
    <3> QED BY <3>1 DEF Load
  <2>8. WholeAt(u, {}, l, j, a)
    <3>1. LiesAt(u, j, a, Len(l.ins) + 4)
      BY <1>5, <2>3 DEF n
    <3> QED BY <2>4, <2>5, <2>6, <2>7, <3>1 DEF WholeAt, n
  <2>9. /\ IsList(u[a + (n + 2)].srcs)
        /\ \A y \in 1 .. n : Supply(u, {}, W, hi, j, y, a + y, u[a + (n + 2)].srcs[y])
    BY <2>5, <2>6 DEF Supply
  <2> QED BY <1>7, <2>8, <2>9 DEF BlockOf, WholeBlock, n
<1> QED BY <1>6, <1>7

\* The code of the operations before it stays.
LEMMA OldBlock ==
  ASSUME NEW sh, NEW lo, NEW hi, NEW j, hi[j] = lo[j], NEW r, NEW u, NEW V, NEW W,
         Len(r) \in Nat, Len(u) \in Nat, Len(r) <= Len(u), \A k \in 1 .. Len(r) : u[k] = r[k],
         \A k \in 1 .. Len(u) : k > Len(r) => u[k].at # j,
         lo[j].kind = "matmul" => TilesOf(sh, lo[j]) \in Nat,
         lo[j].kind # "matmul" => Len(lo[j].ins) \in Nat,
         BlockOf(r, {}, V, lo, sh, j)
  PROVE  BlockOf(u, {}, W, hi, sh, j)
<1> PICK l : l = lo[j]
  OBVIOUS
<1>1. PICK a : IF l.kind = "matmul" THEN TiledAt(r, sh, l, j, a) ELSE WholeBlock(r, {}, V, lo, j, a)
  BY DEF BlockOf
<1>2. ASSUME NEW z, LiesAt(r, j, a, z)
      PROVE  LiesAt(u, j, a, z) /\ \A x \in 1 .. z : u[a + x] = r[a + x]
  <2>1. /\ a \in Nat /\ z \in Nat /\ a + z <= Len(r)
        /\ \A k \in 1 .. Len(r) : r[k].at = j <=> k \in a + 1 .. a + z
    BY <1>2 DEF LiesAt
  <2>2. ASSUME NEW k \in 1 .. Len(u) PROVE u[k].at = j <=> k \in a + 1 .. a + z
    <3>1. CASE k \in 1 .. Len(r)
      BY <2>1, <3>1
    <3>2. CASE k \notin 1 .. Len(r)
      BY <2>1, <3>2
    <3> QED BY <3>1, <3>2
  <2>3. \A x \in 1 .. z : a + x \in 1 .. Len(r)
    BY <2>1
  <2>4. a + z <= Len(u)
    BY <2>1
  <2> QED BY <2>1, <2>2, <2>3, <2>4 DEF LiesAt
<1>3. CASE l.kind = "matmul"
  <2> PICK t : t = LowerMatmul(sh, l, j)
    OBVIOUS
  <2>1. LiesAt(r, j, a, Len(t)) /\ \A x \in 1 .. Len(t) : r[a + x] = t[x]
    BY <1>1, <1>3 DEF TiledAt
  <2>2. LiesAt(u, j, a, Len(t)) /\ \A x \in 1 .. Len(t) : u[a + x] = r[a + x]
    BY <1>2, <2>1
  <2>3. TiledAt(u, sh, l, j, a)
    BY <2>1, <2>2 DEF TiledAt
  <2> QED BY <1>3, <2>3 DEF BlockOf
<1>4. CASE l.kind # "matmul"
  <2> PICK n : n = Len(l.ins)
    OBVIOUS
  <2>1. WholeAt(r, {}, l, j, a) /\ n \in Nat
    BY <1>1, <1>4 DEF WholeBlock
  <2>2. /\ IsList(r[a + (n + 2)].srcs)
        /\ \A y \in 1 .. n : Supply(r, {}, V, lo, j, y, a + y, r[a + (n + 2)].srcs[y])
    BY <1>1, <1>4 DEF WholeBlock
  <2>3. LiesAt(r, j, a, n + 4)
    BY <2>1 DEF WholeAt
  <2>4. LiesAt(u, j, a, n + 4) /\ \A x \in 1 .. n + 4 : u[a + x] = r[a + x]
    BY <1>2, <2>3
  <2>5. /\ \A x \in 1 .. n : u[a + x] = r[a + x]
        /\ u[a + (n + 1)] = r[a + (n + 1)] /\ u[a + (n + 2)] = r[a + (n + 2)]
        /\ u[a + (n + 3)] = r[a + (n + 3)] /\ u[a + (n + 4)] = r[a + (n + 4)]
    <3>1. n + 1 \in 1 .. n + 4 /\ n + 2 \in 1 .. n + 4 /\ n + 3 \in 1 .. n + 4 /\ n + 4 \in 1 .. n + 4
      BY <2>1
    <3>2. \A x \in 1 .. n : x \in 1 .. n + 4
      BY <2>1
    <3> QED BY <2>4, <3>1, <3>2
  <2>6. WholeAt(u, {}, l, j, a)
    BY <2>1, <2>4, <2>5 DEF WholeAt
  <2>7. /\ IsList(u[a + (n + 2)].srcs)
        /\ \A y \in 1 .. n : Supply(u, {}, W, hi, j, y, a + y, u[a + (n + 2)].srcs[y])
    BY <2>2, <2>5 DEF Supply
  <2> QED BY <1>4, <2>6, <2>7 DEF BlockOf, WholeBlock
<1> QED BY <1>3, <1>4

-----------------------------------------------------------------------------
(* Rewiring the users of a load.                                           *)

\* An SRAM operand, and a list of them, with old replaced by new.
Moved(s, old, new) == IF s = old THEN new ELSE s
AllMoved(srcs, old, new) == [k \in DOMAIN srcs |-> Moved(srcs[k], old, new)]

LEMMA MovedIs ==
  ASSUME NEW s, NEW old, NEW new
  PROVE  /\ s = old => Moved(s, old, new) = new
         /\ s # old => Moved(s, old, new) = s
BY DEF Moved

LEMMA ReplaceLoad ==
  ASSUME NEW i, NEW s, NEW old, NEW new, NEW b, NEW part, NEW t
  PROVE  Replace(Load(i, b, part, t, s), old, new) = Load(i, b, part, t, Moved(s, old, new))
<1> DEFINE o == Load(i, b, part, t, s)
           x == Moved(s, old, new)
<1>1. o.op = "load" /\ o.sram = s
  BY DEF Load
<1>2. Replace(o, old, new) = [o EXCEPT !.sram = x]
  <2> HIDE DEF o
  <2> QED BY <1>1 DEF Replace, Moved
<1> HIDE DEF x
<1>3. [o EXCEPT !.sram = x] = Load(i, b, part, t, x)
  BY DEF Load
<1> QED BY <1>2, <1>3 DEF x

LEMMA ReplaceStore ==
  ASSUME NEW i, NEW s, NEW old, NEW new, NEW b, NEW part
  PROVE  Replace(Store(i, s, b, part), old, new) = Store(i, Moved(s, old, new), b, part)
<1> DEFINE o == Store(i, s, b, part)
           x == Moved(s, old, new)
<1>1. o.op = "store" /\ o.sram = s
  BY DEF Store
<1>2. Replace(o, old, new) = [o EXCEPT !.sram = x]
  <2> HIDE DEF o
  <2> QED BY <1>1 DEF Replace, Moved
<1> HIDE DEF x
<1>3. [o EXCEPT !.sram = x] = Store(i, x, b, part)
  BY DEF Store
<1> QED BY <1>2, <1>3 DEF x

LEMMA ReplaceSync == ASSUME NEW i, NEW old, NEW new PROVE Replace(Sync(i), old, new) = Sync(i)
BY DEF Replace, Sync

Operation(a, c, f, y, e, g) ==
  [op |-> "compute", at |-> a, kind |-> c, fn |-> f, srcs |-> y, dst |-> e, acc |-> g]

Exchanged(o, d, x) == [o EXCEPT !.dst = d, !.srcs = x]

LEMMA ExchangingOne ==
  ASSUME NEW a, NEW c, NEW f, NEW y, NEW e, NEW g, NEW x, NEW d, NEW o, o = Operation(a, c, f, y, e, g),
         NEW r, r = Exchanged(o, d, x)
  PROVE  r = Operation(a, c, f, x, d, g)
BY DEF Operation, Exchanged

LEMMA Exchanging ==
  ASSUME NEW i, NEW l, NEW srcs, NEW dst, NEW acc, NEW x, NEW d
  PROVE  Exchanged(Compute(i, l, srcs, dst, acc), d, x) = Compute(i, l, x, d, acc)
<1> PICK c, f : c = l.kind /\ f = l.fn
  OBVIOUS
<1>1. \A y, e : Compute(i, l, y, e, acc) = Operation(i, c, f, y, e, acc)
  BY DEF Compute, Operation
<1>2. ASSUME NEW o, o = Operation(i, c, f, srcs, dst, acc), NEW r, r = Exchanged(o, d, x)
      PROVE  r = Operation(i, c, f, x, d, acc)
  BY <1>2, ExchangingOne
<1> QED BY <1>1, <1>2

LEMMA ReplaceCompute ==
  ASSUME NEW i, NEW l, NEW srcs, NEW dst, NEW acc, NEW old, NEW new
  PROVE  Replace(Compute(i, l, srcs, dst, acc), old, new)
           = Compute(i, l, AllMoved(srcs, old, new), Moved(dst, old, new), acc)
<1> DEFINE o == Compute(i, l, srcs, dst, acc)
           x == AllMoved(srcs, old, new)
           d == Moved(dst, old, new)
<1>1. o.op = "compute" /\ o.srcs = srcs /\ o.dst = dst
  BY DEF Compute
<1>2. Replace(o, old, new) = Exchanged(o, d, x)
  <2> HIDE DEF o
  <2> QED BY <1>1 DEF Replace, Moved, AllMoved, Exchanged
<1> HIDE DEF x, d
<1>3. Exchanged(o, d, x) = Compute(i, l, x, d, acc)
  BY Exchanging
<1> QED BY <1>2, <1>3 DEF x, d

LEMMA AllMovedIs ==
  ASSUME NEW srcs, IsList(srcs), NEW old, NEW new
  PROVE  /\ IsList(AllMoved(srcs, old, new)) /\ Len(AllMoved(srcs, old, new)) = Len(srcs)
         /\ \A k \in 1 .. Len(srcs) : AllMoved(srcs, old, new)[k] = Moved(srcs[k], old, new)
<1> DEFINE n == Len(srcs)
           r == AllMoved(srcs, old, new)
<1>1. n \in Nat /\ DOMAIN srcs = 1 .. n
  BY ListOf DEF IsList
<1>2. r = [k \in 1 .. n |-> r[k]] /\ \A k \in 1 .. n : r[k] = Moved(srcs[k], old, new)
  BY <1>1 DEF AllMoved
<1> HIDE DEF n, r
<1>3. IsList(r) /\ Len(r) = n
  BY <1>1, <1>2, Listed
<1> QED BY <1>2, <1>3 DEF n, r

\* The result of rewiring: v is u with old replaced by new.
Renamed(u, v, old, new) ==
  /\ Len(v) = Len(u)
  /\ \A k \in 1 .. Len(u) : v[k] = Replace(u[k], old, new) /\ v[k].at = u[k].at

LEMMA RewiredLies ==
  ASSUME NEW u, NEW v, NEW old, NEW new, Renamed(u, v, old, new), NEW j, NEW a, NEW z,
         Len(u) \in Nat, LiesAt(u, j, a, z)
  PROVE  LiesAt(v, j, a, z) /\ \A x \in 1 .. z : v[a + x] = Replace(u[a + x], old, new)
<1>1. /\ a \in Nat /\ z \in Nat /\ a + z <= Len(u)
      /\ \A k \in 1 .. Len(u) : u[k].at = j <=> k \in a + 1 .. a + z
  BY DEF LiesAt
<1>2. Len(v) = Len(u) /\ \A k \in 1 .. Len(u) : v[k] = Replace(u[k], old, new) /\ v[k].at = u[k].at
  BY DEF Renamed
<1>3. \A x \in 1 .. z : a + x \in 1 .. Len(u)
  BY <1>1
<1>4. LiesAt(v, j, a, z)
  BY <1>1, <1>2 DEF LiesAt
<1> QED BY <1>2, <1>3, <1>4

\* A product keeps its code: its SRAM buffers are its own.
LEMMA RewiredTiles ==
  ASSUME NEW u, NEW v, NEW old, NEW new, Renamed(u, v, old, new), Len(u) \in Nat, NEW sh, NEW l,
         NEW j, NEW a, TilesOf(sh, l) \in Nat, TiledAt(u, sh, l, j, a), old[1] # j
  PROVE  TiledAt(v, sh, l, j, a)
<1> PICK t, z : t = LowerMatmul(sh, l, j) /\ z = Len(t)
  OBVIOUS
<1>1. /\ z \in Nat \ {0} /\ t[z] = Store(j, <<j, 3>>, l.out, "whole")
      /\ \A n \in 1 .. z - 1 : \E w, k : k \in 1 .. 5 /\ t[n] = TileStep(l, j, w, k)
  BY TiledIs
<1>2. LiesAt(u, j, a, z) /\ \A x \in 1 .. z : u[a + x] = t[x]
  BY DEF TiledAt
<1>3. LiesAt(v, j, a, z) /\ \A x \in 1 .. z : v[a + x] = Replace(u[a + x], old, new)
  BY <1>2, RewiredLies
<1>4. <<j, 1>> # old /\ <<j, 2>> # old /\ <<j, 3>> # old
  OBVIOUS
<1>5. ASSUME NEW w, NEW k \in 1 .. 5
      PROVE  Replace(TileStep(l, j, w, k), old, new) = TileStep(l, j, w, k)
  <2>1. k = 1 \/ k = 2 \/ k = 3 \/ k = 4 \/ k = 5
    OBVIOUS
  <2>2. CASE k = 1 \/ k = 2
    <3>1. /\ Replace(Load(j, l.ins[1], "cols", w, <<j, 1>>), old, new)
               = Load(j, l.ins[1], "cols", w, <<j, 1>>)
          /\ Replace(Load(j, l.ins[2], "rows", w, <<j, 2>>), old, new)
               = Load(j, l.ins[2], "rows", w, <<j, 2>>)
      BY <1>4, ReplaceLoad, MovedIs
    <3> QED BY <2>2, <3>1 DEF TileStep
  <2>3. CASE k = 3 \/ k = 5
    BY <2>3, ReplaceSync DEF TileStep
  <2>4. CASE k = 4
    <3> DEFINE p == <<j, 1>>
               q == <<j, 2>>
               d == <<j, 3>>
               srcs == <<p, q>>
    <3>1. p # old /\ q # old /\ d # old
      BY <1>4
    <3> HIDE DEF p, q, d
    <3>2. AllMoved(srcs, old, new) = srcs
      <4>1. srcs = [x \in 1 .. 2 |-> srcs[x]] /\ DOMAIN srcs = 1 .. 2
        OBVIOUS
      <4>2. \A x \in 1 .. 2 : Moved(srcs[x], old, new) = srcs[x]
        <5>1. \A x \in 1 .. 2 : srcs[x] = p \/ srcs[x] = q
          OBVIOUS
        <5> QED BY <3>1, <5>1 DEF Moved
      <4> HIDE DEF srcs
      <4>3. AllMoved(srcs, old, new) = [x \in 1 .. 2 |-> srcs[x]]
        BY <4>1, <4>2 DEF AllMoved
      <4> QED BY <4>1, <4>3
    <3> PICK acc : acc = (w > 1)
      OBVIOUS
    <3>3. TileStep(l, j, w, k) = Compute(j, l, srcs, d, acc)
      BY <2>4 DEF TileStep, p, q, d
    <3> HIDE DEF srcs
    <3>4. Replace(Compute(j, l, srcs, d, acc), old, new) = Compute(j, l, srcs, d, acc)
      BY <3>1, <3>2, ReplaceCompute, MovedIs
    <3> QED BY <3>3, <3>4
  <2> QED BY <2>1, <2>2, <2>3, <2>4
<1>6. ASSUME NEW x \in 1 .. z PROVE Replace(t[x], old, new) = t[x]
  <2>1. CASE x = z
    BY <1>1, <1>4, <2>1, ReplaceStore, MovedIs
  <2>2. CASE x # z
    <3>1. x \in 1 .. z - 1
      BY <1>1, <2>2
    <3> QED BY <1>1, <1>5, <3>1
  <2> QED BY <2>1, <2>2
<1> QED BY <1>2, <1>3, <1>6 DEF TiledAt

\* What rewiring pair p does: the load K, of source y0 of operation j0, reads no
\* SRAM buffer of its own any more, but the one that operation i0 left.
Takes(u, E, W, lo, p, K, j0, y0, i0) ==
  /\ p \in 1 .. Len(W) /\ K = W[p].load /\ K \notin E /\ u[K].at = j0 /\ i0 = u[W[p].store].at
  /\ j0 \in 1 .. Len(lo) /\ lo[j0].kind # "matmul" /\ y0 \in 1 .. Len(lo[j0].ins)
  /\ \A n \in 1 .. Len(W) : W[n].store \in 1 .. Len(u)

\* The code of an operation that is no product, rewired.
LEMMA RewiredWhole ==
  ASSUME NEW u, NEW E, NEW W, NEW lo, NEW p, NEW K, NEW j0, NEW y0, NEW i0,
         Takes(u, E, W, lo, p, K, j0, y0, i0), Len(u) \in Nat,
         NEW v, Renamed(u, v, <<j0, y0>>, Home(lo[i0], i0)),
         NEW j, NEW a, NEW l, l = lo[j], NEW n, n = Len(l.ins), n \in Nat,
         WholeBlock(u, E, W, lo, j, a), j0 = j => K = a + y0,
         Len(lo[j0].ins) \in Nat
  PROVE  WholeBlock(v, E \union {K}, W, lo, j, a)
<1> PICK old, new : old = <<j0, y0>> /\ new = Home(lo[i0], i0)
  OBVIOUS
<1> DEFINE srcs == u[a + (n + 2)].srcs
           F == E \union {K}
<1>1. /\ LiesAt(u, j, a, n + 4)
      /\ \A y \in 1 .. n : /\ u[a + y] = Load(j, l.ins[y], "whole", 0, u[a + y].sram)
                           /\ a + y \notin E => u[a + y].sram = <<j, y>>
      /\ u[a + (n + 1)] = Sync(j) /\ u[a + (n + 3)] = Sync(j)
      /\ u[a + (n + 2)] = Compute(j, l, srcs, <<j, n + 1>>, FALSE) /\ Len(srcs) = n
      /\ \E part : u[a + (n + 4)] = Store(j, <<j, n + 1>>, l.out, part)
  BY DEF WholeBlock, WholeAt
<1>2. \A y \in 1 .. n : Supply(u, E, W, lo, j, y, a + y, srcs[y])
  BY DEF WholeBlock
<1>3. /\ p \in 1 .. Len(W) /\ K = W[p].load /\ K \notin E /\ i0 = u[W[p].store].at
      /\ j0 \in 1 .. Len(lo) /\ lo[j0].kind # "matmul" /\ y0 \in 1 .. Len(lo[j0].ins)
      /\ \A w \in 1 .. Len(W) : W[w].store \in 1 .. Len(u)
  BY DEF Takes
<1>4. LiesAt(v, j, a, n + 4) /\ \A x \in 1 .. n + 4 : v[a + x] = Replace(u[a + x], old, new)
  BY <1>1, RewiredLies
<1>5. /\ \A y \in 1 .. n : v[a + y] = Replace(u[a + y], old, new)
      /\ v[a + (n + 1)] = Replace(u[a + (n + 1)], old, new)
      /\ v[a + (n + 2)] = Replace(u[a + (n + 2)], old, new)
      /\ v[a + (n + 3)] = Replace(u[a + (n + 3)], old, new)
      /\ v[a + (n + 4)] = Replace(u[a + (n + 4)], old, new)
  <2>1. n + 1 \in 1 .. n + 4 /\ n + 2 \in 1 .. n + 4 /\ n + 3 \in 1 .. n + 4 /\ n + 4 \in 1 .. n + 4
    OBVIOUS
  <2>2. \A y \in 1 .. n : y \in 1 .. n + 4
    OBVIOUS
  <2> QED BY <1>4, <2>1, <2>2
<1> HIDE DEF srcs
<1>6. <<j, n + 1>> # old
  <2>1. j0 = j => n + 1 # y0
    BY <1>3
  <2> QED BY <2>1
<1>7. \A i : Home(lo[i], i) = old => FALSE
  <2> SUFFICES ASSUME NEW i, Home(lo[i], i) = old PROVE FALSE
    OBVIOUS
  <2>1. i = j0
    BY DEF Home
  <2>2. Home(lo[i], i) = <<i, Len(lo[i].ins) + 1>>
    BY <1>3, <2>1 DEF Home
  <2>3. y0 = Len(lo[j0].ins) + 1
    BY <2>1, <2>2
  <2> QED BY <1>3, <2>3
<1>8. \A y \in 1 .. n : <<j, y>> = old <=> a + y = K
  <2>1. a \in Nat
    BY <1>1 DEF LiesAt
  <2>2. ASSUME NEW y \in 1 .. n, <<j, y>> = old PROVE a + y = K
    <3>1. j = j0 /\ y = y0
      BY <2>2
    <3> QED BY <3>1
  <2>3. ASSUME NEW y \in 1 .. n, a + y = K PROVE <<j, y>> = old
    <3>1. u[a + y] = Load(j, l.ins[y], "whole", 0, u[a + y].sram)
      BY <1>1
    <3>2. u[K].at = j
      BY <2>3, <3>1 DEF Load
    <3>3. j0 = j
      BY <3>2 DEF Takes
    <3>4. a + y0 = a + y
      BY <2>3, <3>3
    <3>5. y0 = y
      BY <1>3, <2>1, <3>4
    <3> QED BY <3>3, <3>5
  <2> QED BY <2>2, <2>3
<1>9. ASSUME NEW y \in 1 .. n
      PROVE  /\ v[a + y] = Load(j, l.ins[y], "whole", 0, v[a + y].sram)
             /\ a + y \notin F => v[a + y].sram = <<j, y>>
  <2> PICK s, r : s = u[a + y].sram /\ r = Moved(s, old, new)
    OBVIOUS
  <2>1. u[a + y] = Load(j, l.ins[y], "whole", 0, s) /\ (a + y \notin E => s = <<j, y>>)
    BY <1>1
  <2>2. v[a + y] = Load(j, l.ins[y], "whole", 0, r)
    <3>1. Replace(Load(j, l.ins[y], "whole", 0, s), old, new) = Load(j, l.ins[y], "whole", 0, r)
      BY ReplaceLoad
    <3> QED BY <1>5, <2>1, <3>1
  <2>3. v[a + y].sram = r
    BY <2>2 DEF Load
  <2>4. a + y \notin F => s = <<j, y>> /\ s # old
    BY <1>8, <2>1
  <2> QED BY <2>2, <2>3, <2>4, MovedIs
<1>10. v[a + (n + 1)] = Sync(j) /\ v[a + (n + 3)] = Sync(j)
  BY <1>1, <1>5, ReplaceSync
<1> PICK d, dsts : d = <<j, n + 1>> /\ dsts = AllMoved(srcs, old, new)
  OBVIOUS
<1>11. \E part : v[a + (n + 4)] = Store(j, <<j, n + 1>>, l.out, part)
  <2>1. PICK part : u[a + (n + 4)] = Store(j, d, l.out, part)
    BY <1>1
  <2>2. Moved(d, old, new) = d
    BY <1>6, MovedIs
  <2>3. Replace(Store(j, d, l.out, part), old, new) = Store(j, d, l.out, part)
    BY <2>2, ReplaceStore
  <2> QED BY <1>5, <2>1, <2>3
<1>12. v[a + (n + 2)] = Compute(j, l, dsts, d, FALSE)
  <2>1. Moved(d, old, new) = d
    BY <1>6, MovedIs
  <2>2. Replace(Compute(j, l, srcs, d, FALSE), old, new) = Compute(j, l, dsts, d, FALSE)
    <3> PICK acc : acc = FALSE
      OBVIOUS
    <3>1. Replace(Compute(j, l, srcs, d, acc), old, new)
            = Compute(j, l, AllMoved(srcs, old, new), Moved(d, old, new), acc)
      BY ReplaceCompute
    <3> QED BY <2>1, <3>1
  <2> QED BY <1>1, <1>5, <2>2
<1>13. v[a + (n + 2)].srcs = dsts
  BY <1>12 DEF Compute
<1>14. IsList(dsts) /\ Len(dsts) = n /\ \A y \in 1 .. n : dsts[y] = Moved(srcs[y], old, new)
  <2>1. IsList(srcs)
    BY DEF WholeBlock, srcs
  <2> QED BY <1>1, <2>1, AllMovedIs
<1>15. WholeAt(v, F, l, j, a)
  <2>1. LiesAt(v, j, a, n + 4)
    BY <1>4
  <2>2. v[a + (n + 2)] = Compute(j, l, v[a + (n + 2)].srcs, <<j, n + 1>>, FALSE)
    BY <1>12, <1>13
  <2> HIDE DEF F
  <2> QED BY <1>9, <1>10, <1>11, <1>13, <1>14, <2>1, <2>2 DEF WholeAt
<1>16. ASSUME NEW y \in 1 .. n PROVE Supply(v, F, W, lo, j, y, a + y, dsts[y])
  <2> PICK s, r, k : s = srcs[y] /\ r = dsts[y] /\ k = a + y
    OBVIOUS
  <2>1. Supply(u, E, W, lo, j, y, k, s) /\ r = Moved(s, old, new)
    BY <1>2, <1>14
  <2>2. \A w \in 1 .. Len(W) : v[W[w].store].at = u[W[w].store].at
    BY <1>3 DEF Renamed
  <2>3. CASE k \in E
    <3>1. PICK w \in 1 .. Len(W) :
            W[w].load = k /\ s = Home(lo[u[W[w].store].at], u[W[w].store].at)
      BY <2>1, <2>3 DEF Supply
    <3>2. s # old
      BY <1>7, <3>1
    <3>3. r = s
      BY <2>1, <3>2, MovedIs
    <3>4. v[W[w].store].at = u[W[w].store].at
      BY <2>2
    <3> QED BY <2>3, <3>1, <3>3, <3>4 DEF Supply
  <2>4. CASE k \notin E
    <3>1. s = <<j, y>>
      BY <2>1, <2>4 DEF Supply
    <3>2. s = old <=> k = K
      BY <1>8, <3>1, Zenon
    <3>3. CASE k = K
      <4>1. s = old
        BY <3>2, <3>3
      <4>0. r = new
        BY <2>1, <4>1 DEF Moved
      <4>2. v[W[p].store].at = i0
        BY <1>3, <2>2
      <4> QED BY <1>3, <3>3, <4>0, <4>2 DEF Supply
    <3>4. CASE k # K
      <4>1. r = s
        BY <2>1, <3>2, <3>4, MovedIs
      <4> QED BY <2>4, <3>1, <3>4, <4>1 DEF Supply
    <3> QED BY <3>3, <3>4
  <2> QED BY <2>3, <2>4
<1> HIDE DEF F
<1>17. WholeBlock(v, F, W, lo, j, a)
  BY <1>13, <1>14, <1>15, <1>16 DEF WholeBlock
<1> QED BY <1>17 DEF F

\* K is the load of an operand of operation j, which is no product.
OwnLoad(u, lo, K, j) ==
  lo[j].kind # "matmul" /\ \E y \in 1 .. Len(lo[j].ins) : u[K].sram = <<j, y>>

\* The load that is rewired is of an operation that is no product.
LEMMA LoadTaken ==
  ASSUME NEW u, IsList(u), NEW E, NEW W, NEW lo, NEW f, Offered(lo, f), NEW j \in 1 .. Len(lo),
         BlockOf(u, E, W, lo, f.shape, j), NEW K \in 1 .. Len(u), K \notin E,
         u[K].at = j, u[K].op = "load", u[K].part = "whole"
  PROVE  OwnLoad(u, lo, K, j)
<1> PICK l, n : l = lo[j] /\ n = Len(l.ins)
  OBVIOUS
<1>1. n \in Nat /\ (l.kind = "matmul" => TilesOf(f.shape, l) \in Nat)
  BY OfferedIs
<1>2. PICK a : IF l.kind = "matmul" THEN TiledAt(u, f.shape, l, j, a)
               ELSE WholeBlock(u, E, W, lo, j, a)
  BY DEF BlockOf
<1>3. l.kind # "matmul"
  BY <1>1, <1>2, TiledEnds
<1>4. WholeAt(u, E, l, j, a)
  BY <1>2, <1>3 DEF WholeBlock
<1>5. PICK y \in 1 .. n : K = a + y
  <2>1. LoadsFirst(u, a, n, j)
    BY <1>1, <1>3, <1>4, WholeEnds
  <2> QED BY <2>1 DEF LoadsFirst
<1>6. u[K].sram = <<j, y>>
  BY <1>4, <1>5 DEF WholeAt
<1> QED BY <1>3, <1>6 DEF OwnLoad

LEMMA RewiredBlock ==
  ASSUME NEW u, IsList(u), NEW E, NEW W, NEW lo, NEW f, Offered(lo, f),
         NEW p, NEW K \in 1 .. Len(u), NEW j0, NEW y0, NEW i0,
         Takes(u, E, W, lo, p, K, j0, y0, i0), u[K].op = "load", u[K].sram = <<j0, y0>>,
         NEW v, Renamed(u, v, <<j0, y0>>, Home(lo[i0], i0)),
         NEW j \in 1 .. Len(lo), BlockOf(u, E, W, lo, f.shape, j)
  PROVE  BlockOf(v, E \union {K}, W, lo, f.shape, j)
<1> PICK l, n, sh : l = lo[j] /\ n = Len(l.ins) /\ sh = f.shape
  OBVIOUS
<1>1. /\ n \in Nat /\ (l.kind = "matmul" => TilesOf(sh, l) \in Nat)
      /\ \A i \in 1 .. Len(lo) : Len(lo[i].ins) \in Nat
  BY OfferedIs
<1>0. Len(lo[j0].ins) \in Nat
  BY <1>1 DEF Takes
<1>2. PICK a : IF l.kind = "matmul" THEN TiledAt(u, sh, l, j, a) ELSE WholeBlock(u, E, W, lo, j, a)
  BY DEF BlockOf
<1>3. Len(u) \in Nat /\ K \notin E /\ u[K].at = j0 /\ lo[j0].kind # "matmul"
  BY ListOf DEF Takes, IsList
<1> PICK old, new : old = <<j0, y0>> /\ new = Home(lo[i0], i0)
  OBVIOUS
<1>4. CASE l.kind = "matmul"
  <2>1. old[1] # j
    BY <1>3, <1>4
  <2>2. TiledAt(v, sh, l, j, a)
    BY <1>1, <1>2, <1>3, <1>4, <2>1, RewiredTiles
  <2> QED BY <1>4, <2>2 DEF BlockOf
<1>5. CASE l.kind # "matmul"
  <2>1. WholeBlock(u, E, W, lo, j, a) /\ WholeAt(u, E, l, j, a)
    BY <1>2, <1>5 DEF WholeBlock
  <2>2. ASSUME j0 = j PROVE K = a + y0
    <3>0. LoadsFirst(u, a, n, j)
      BY <1>1, <1>5, <2>1, WholeEnds
    <3>1. PICK y \in 1 .. n : K = a + y
      BY <1>3, <2>2, <3>0 DEF LoadsFirst
    <3>2. u[K].sram = <<j, y>>
      BY <1>3, <2>1, <3>1 DEF WholeAt
    <3>3. y = y0
      BY <3>2
    <3> QED BY <3>1, <3>3
  <2>4. Len(u) \in Nat /\ n \in Nat /\ WholeBlock(u, E, W, lo, j, a)
    BY <1>1, <1>3, <2>1
  <2>3. WholeBlock(v, E \union {K}, W, lo, j, a)
    BY <1>0, <2>2, <2>4, RewiredWhole
  <2> QED BY <1>5, <2>3 DEF BlockOf
<1> QED BY <1>4, <1>5

\* An erased store changes nothing for the code of an operation.
LEMMA ErasedBlock ==
  ASSUME NEW u, IsList(u), NEW E, NEW W, NEW lo, NEW f, Offered(lo, f), NEW j \in 1 .. Len(lo),
         BlockOf(u, E, W, lo, f.shape, j), NEW s, u[s].op = "store"
  PROVE  BlockOf(u, E \union {s}, W, lo, f.shape, j)
<1> PICK l, n, F : l = lo[j] /\ n = Len(l.ins) /\ F = E \union {s}
  OBVIOUS
<1>1. PICK a : IF l.kind = "matmul" THEN TiledAt(u, f.shape, l, j, a)
               ELSE WholeBlock(u, E, W, lo, j, a)
  BY DEF BlockOf
<1>2. CASE l.kind = "matmul"
  BY <1>1, <1>2 DEF BlockOf
<1>3. CASE l.kind # "matmul"
  <2>1. /\ WholeAt(u, E, l, j, a) /\ IsList(u[a + (n + 2)].srcs)
        /\ \A y \in 1 .. n : Supply(u, E, W, lo, j, y, a + y, u[a + (n + 2)].srcs[y])
    BY <1>1, <1>3 DEF WholeBlock
  <2>2. ASSUME NEW y \in 1 .. n PROVE a + y \in F <=> a + y \in E
    <3>1. \E x : u[a + y] = Load(j, l.ins[y], "whole", 0, x)
      BY <2>1 DEF WholeAt
    <3>2. u[a + y].op = "load"
      BY <3>1 DEF Load
    <3> QED BY <3>2
  <2>3. WholeAt(u, F, l, j, a)
    BY <2>1, <2>2 DEF WholeAt
  <2>4. \A y \in 1 .. n : Supply(u, F, W, lo, j, y, a + y, u[a + (n + 2)].srcs[y])
    BY <2>1, <2>2 DEF Supply
  <2>5. WholeBlock(u, F, W, lo, j, a)
    BY <2>1, <2>3, <2>4 DEF WholeBlock
  <2> QED BY <1>3, <2>5 DEF BlockOf
<1> QED BY <1>2, <1>3

-----------------------------------------------------------------------------
(* The invariant of the code.                                              *)

AllOffered == Offered(low, func)
Blocks == \A j \in 1 .. Len(low) : BlockOf(ir, erased, matchList, low, func.shape, j)

\* The walk pairs each load once.
Increasing ==
  /\ \A n, m \in 1 .. Len(matchList) : n < m => matchList[n].load < matchList[m].load
  /\ phase = "walk" => \A n \in 1 .. Len(matchList) : matchList[n].load < at

\* While loads are rewired, those of the pairs before this one are erased.
Moving ==
  /\ OnlyMoves(ir, erased)
  /\ phase = "rewire" => \A k \in erased : \E n \in 1 .. at - 1 : matchList[n].load = k

CodeInv == ChainInv /\ AllOffered /\ Blocks /\ Increasing /\ Moving

LEMMA CodeStarts == Init => CodeInv
<1> SUFFICES ASSUME Init PROVE CodeInv
  OBVIOUS
<1>1. /\ func \in Functions /\ low = <<>> /\ phase = "lower" /\ matchList = <<>> /\ erased = {}
  BY DEF Init, ElideInit
<1>2. Len(func.ops) \in Nat
  BY <1>1, FunctionAssumption
<1>3. IsList(low) /\ Len(low) = 0 /\ Len(matchList) = 0
  BY <1>1 DEF IsList, RangeOf
<1>4. AllOffered /\ Blocks
  BY <1>1, <1>2, <1>3 DEF AllOffered, Offered, Blocks
<1>5. Increasing /\ Moving
  BY <1>1, <1>3 DEF Increasing, Moving, OnlyMoves
<1> QED BY <1>4, <1>5, ChainStarts DEF CodeInv

LEMMA OfferedStep ==
  ASSUME CodeInv, [Next]_compileVars
  PROVE  AllOffered'
<1>1. CASE LowerOne
  <2>1. /\ func' = func /\ at = Len(low) + 1 /\ at <= Len(func.ops)
    BY <1>1 DEF LowerOne, CodeInv, ChainInv, Recognition
  <2>2. PICK l \in Accepted(func.shape, func.ops[at]) : low' = Append(low, l)
    BY <1>1 DEF LowerOne
  <2>3. /\ func \in Functions /\ IsList(low)
        /\ \A i \in 1 .. Len(low) : low[i] \in Accepted(func.shape, func.ops[i])
    BY DEF CodeInv, AllOffered, Offered
  <2>4. /\ IsList(low') /\ Len(low) \in Nat /\ Len(low') = Len(low) + 1 /\ low'[Len(low) + 1] = l
        /\ \A i \in 1 .. Len(low) : low'[i] = low[i]
    BY <2>2, <2>3, Adding
  <2>5. ASSUME NEW i \in 1 .. Len(low') PROVE low'[i] \in Accepted(func.shape, func.ops[i])
    <3>1. i \in 1 .. Len(low) \/ i = at
      BY <2>1, <2>4
    <3> QED BY <2>1, <2>3, <2>4, <3>1
  <2> QED BY <2>1, <2>3, <2>4, <2>5 DEF AllOffered, Offered
<1>2. CASE ~LowerOne
  <2>1. UNCHANGED <<func, low>>
    <3>1. CASE WalkStore \/ WalkMatch \/ WalkOther \/ Rewire \/ EraseStore \/ Reject \/ Crash
      BY <3>1 DEF WalkStore, WalkMatch, WalkOther, Visit, Rewire, EraseStore, Reject, Crash
    <3>2. CASE Lowered \/ Walked \/ Rewired \/ Elided
      BY <3>2 DEF Lowered, Walked, Rewired, Elided, StartPass
    <3>3. CASE UNCHANGED elideVars
      BY <3>3 DEF elideVars
    <3> QED BY <1>2, <3>1, <3>2, <3>3, PassSteps
  <2> QED BY <2>1 DEF CodeInv, AllOffered
<1> QED BY <1>1, <1>2

LEMMA BlocksLower == ASSUME CodeInv, LowerOne, AllOffered' PROVE Blocks'
<1> DEFINE n == Len(low) + 1
<1>1. /\ phase = "lower" /\ at = n /\ at <= Len(func.ops) /\ UNCHANGED <<func, matchList, erased>>
  BY DEF LowerOne, CodeInv, ChainInv, Recognition
<1>2. PICK l \in Accepted(func.shape, func.ops[at]) :
        low' = Append(low, l) /\ ir' = ir \o Lower(func.shape, l, at)
  BY DEF LowerOne
<1>3. erased = {} /\ matchList' = matchList
  BY <1>1 DEF CodeInv, ChainInv, ElideInv, NotYet
<1>4. /\ func \in Functions /\ IsList(low) /\ IsList(ir) /\ Len(ir) \in Nat
      /\ \A k \in 1 .. Len(ir) : ir[k].at \in 1 .. Len(low)
  BY Lengths DEF CodeInv, ChainInv, ElideInv, Listing, AllOffered, Offered, InOrder, OrderOf
<1>5. /\ Len(low) \in Nat /\ Len(low') = n /\ low'[n] = l
      /\ \A i \in 1 .. Len(low) : low'[i] = low[i]
  BY <1>2, <1>4, Adding
<1>51. n \in 1 .. Len(func.ops)
  <2>1. Len(func.ops) \in Nat
    BY <1>4, FunctionAssumption
  <2>2. n \in Nat /\ n >= 1 /\ n <= Len(func.ops)
    BY <1>1, <1>5
  <2> HIDE DEF n
  <2> QED BY <2>1, <2>2
<1> PICK u, hi, t : u = ir' /\ hi = low' /\ t = Lower(func.shape, l, at)
  OBVIOUS
<1>6. Offered(hi, func)
  BY <1>1 DEF AllOffered
<1>7. /\ IsList(t) /\ Len(t) \in Nat /\ Len(u) = Len(ir) + Len(t)
      /\ \A k \in 1 .. Len(ir) : u[k] = ir[k]
      /\ \A k \in 1 .. Len(t) : u[Len(ir) + k] = t[k]
  <2>1. n \in 1 .. Len(func.ops)
    BY <1>51
  <2>2. IsList(t)
    BY <1>1, <1>2, <1>4, <2>1, Lowering
  <2> QED BY <1>2, <1>4, <2>2, Joining
<1>8. \A k \in 1 .. Len(t) : t[k].at = n
  <2>1. n \in 1 .. Len(func.ops)
    BY <1>51
  <2>2. Becomes(t, n, func.shape, l, func.ops[n])
    BY <1>1, <1>4, <2>1, LoweringBecomes
  <2> QED BY <2>2 DEF Becomes
<1>9. n \in 1 .. Len(hi) /\ hi[n] = l /\ Len(hi) = n
  BY <1>5
<1>10. \A k \in 1 .. Len(ir) : ir[k].at # n
  BY <1>4, <1>5
<1>11. t = Lower(func.shape, l, n) /\ u = ir \o t
  BY <1>1, <1>2
<1> PICK W : W = matchList
  OBVIOUS
<1> HIDE DEF n
<1>12. BlockOf(u, {}, W, hi, func.shape, n)
  BY <1>4, <1>6, <1>9, <1>10, <1>11, NewBlock
<1>13. ASSUME NEW j \in 1 .. Len(low) PROVE BlockOf(u, {}, W, hi, func.shape, j)
  <2> PICK r, sh : r = ir /\ sh = func.shape
    OBVIOUS
  <2>1. BlockOf(r, {}, W, low, sh, j)
    BY <1>3 DEF CodeInv, Blocks
  <2>2. Offered(low, func)
    BY DEF CodeInv, AllOffered
  <2>3. /\ low[j].kind = "matmul" => TilesOf(sh, low[j]) \in Nat
        /\ low[j].kind # "matmul" => Len(low[j].ins) \in Nat
    BY <2>2, OfferedIs
  <2>4. hi[j] = low[j] /\ j # n
    BY <1>5 DEF n
  <2>5. Len(r) \in Nat /\ Len(u) \in Nat /\ Len(r) <= Len(u) /\ \A k \in 1 .. Len(r) : u[k] = r[k]
    BY <1>4, <1>7
  <2>6. ASSUME NEW k \in 1 .. Len(u), k > Len(r) PROVE u[k].at # j
    <3> PICK x : x = k - Len(r)
      OBVIOUS
    <3>1. x \in 1 .. Len(t) /\ k = Len(ir) + x
      BY <1>4, <1>7, <2>6
    <3>2. u[k] = t[x] /\ t[x].at = n
      BY <1>7, <1>8, <3>1
    <3> QED BY <2>4, <3>2
  <2>8. hi[j] = low[j]
    BY <2>4
  <2>9. \A k \in 1 .. Len(u) : k > Len(r) => u[k].at # j
    BY <2>6
  <2>7. BlockOf(u, {}, W, hi, sh, j)
    BY <2>1, <2>3, <2>5, <2>8, <2>9, OldBlock
  <2> QED BY <2>7
<1>14. \A j \in 1 .. Len(hi) : BlockOf(u, {}, W, hi, func.shape, j)
  <2>1. \A j \in 1 .. Len(hi) : j \in 1 .. Len(low) \/ j = n
    BY <1>5, <1>9 DEF n
  <2> QED BY <1>12, <1>13, <2>1
<1>15. erased' = {} /\ matchList' = W /\ func' = func
  BY <1>1, <1>3
<1> QED BY <1>14, <1>15 DEF Blocks

LEMMA BlocksRewire == ASSUME CodeInv, Rewire PROVE Blocks'
<1> USE DEF CodeInv, ChainInv, ElideInv
<1> PICK u, E, W, lo, p : u = ir /\ E = erased /\ W = matchList /\ lo = low /\ p = at
  OBVIOUS
<1> PICK K, S : K = W[p].load /\ S = W[p].store
  OBVIOUS
<1> PICK j0, i0 : j0 = u[K].at /\ i0 = u[S].at
  OBVIOUS
<1>1. /\ phase = "rewire" /\ p <= Len(W) /\ UNCHANGED <<func, low, matchList>>
      /\ ir' = [k \in DOMAIN u |-> Replace(u[k], u[K].sram, u[S].sram)] /\ erased' = E \union {K}
  BY DEF Rewire
<1>2. /\ IsList(u) /\ Len(u) \in Nat /\ DOMAIN u = 1 .. Len(u) /\ Len(W) \in Nat /\ p \in 1 .. Len(W)
  BY <1>1, Lengths DEF Listing
<1>3. /\ K \in 1 .. Len(u) /\ S \in 1 .. Len(u) /\ \A n \in 1 .. Len(W) : W[n].store \in 1 .. Len(u)
  BY <1>2 DEF Indexed
<1>4. u[K].op = "load" /\ u[K].part = "whole" /\ u[S].op = "store"
  BY <1>2 DEF LoadsMeetLastStore, IsLoadOf, IsStoreTo
<1>5. K \notin E
  <2> SUFFICES ASSUME K \in E PROVE FALSE
    OBVIOUS
  <2>1. PICK n \in 1 .. p - 1 : W[n].load = K
    BY <1>1 DEF Moving
  <2>2. n \in 1 .. Len(W) /\ n < p
    BY <1>2
  <2>3. W[n].load < W[p].load
    BY <1>2, <2>2 DEF Increasing
  <2> QED BY <1>3, <2>1, <2>3
<1>6. j0 \in 1 .. Len(lo) /\ i0 \in 1 .. Len(lo)
  BY <1>3 DEF InOrder, OrderOf
<1>7. Offered(lo, func) /\ \A j \in 1 .. Len(lo) : BlockOf(u, E, W, lo, func.shape, j)
  BY DEF AllOffered, Blocks
<1>8. lo[j0].kind # "matmul" /\ \E y \in 1 .. Len(lo[j0].ins) : u[K].sram = <<j0, y>>
  <2> PICK f : f = func
    OBVIOUS
  <2>1. Offered(lo, f) /\ BlockOf(u, E, W, lo, f.shape, j0)
    BY <1>6, <1>7
  <2>2. OwnLoad(u, lo, K, j0)
    BY <1>2, <1>3, <1>4, <1>5, <1>6, <2>1, LoadTaken
  <2> QED BY <2>2 DEF OwnLoad
<1>9. PICK y0 \in 1 .. Len(lo[j0].ins) : u[K].sram = <<j0, y0>>
  BY <1>8
<1>10. u[S].sram = Home(lo[i0], i0)
  <2>1. PICK X : StoresLast(u, X, lo[i0], i0)
    BY <1>2, <1>6, <1>7, BlockEnds
  <2>2. S = X
    BY <1>3, <1>4, <2>1 DEF StoresLast
  <2> QED BY <2>1, <2>2 DEF StoresLast
<1>11. Takes(u, E, W, lo, p, K, j0, y0, i0)
  BY <1>2, <1>3, <1>5, <1>6, <1>8 DEF Takes
<1> PICK v : v = ir'
  OBVIOUS
<1>12. Renamed(u, v, <<j0, y0>>, Home(lo[i0], i0))
  <2>1. Len(v) = Len(u) /\ \A k \in 1 .. Len(u) : v[k].at = u[k].at
    BY RewireSame DEF Alike
  <2>2. v = [k \in 1 .. Len(u) |-> Replace(u[k], <<j0, y0>>, Home(lo[i0], i0))]
    BY <1>1, <1>2, <1>9, <1>10
  <2> QED BY <2>1, <2>2 DEF Renamed
<1>13. ASSUME NEW j \in 1 .. Len(lo) PROVE BlockOf(v, E \union {K}, W, lo, func.shape, j)
  BY <1>2, <1>3, <1>4, <1>7, <1>9, <1>11, <1>12, RewiredBlock
<1>14. v = ir' /\ erased' = E \union {K} /\ matchList' = W /\ low' = lo /\ func' = func
  BY <1>1
<1> QED BY <1>13, <1>14 DEF Blocks

LEMMA BlocksErase == ASSUME CodeInv, EraseStore PROVE Blocks'
<1> USE DEF CodeInv, ChainInv, ElideInv
<1> PICK s, u, E, W, lo : s = matchList[at].store /\ u = ir /\ E = erased /\ W = matchList /\ lo = low
  OBVIOUS
<1>1. /\ at <= Len(matchList) /\ UNCHANGED <<func, low, ir, matchList>>
      /\ erased' = E \/ erased' = E \union {s}
  BY DEF EraseStore
<1>2. /\ at \in 1 .. Len(matchList) /\ IsList(u)
  BY <1>1, Lengths DEF Listing
<1>3. u[s].op = "store"
  BY <1>2 DEF LoadsMeetLastStore, IsStoreTo
<1>4. Offered(lo, func) /\ \A j \in 1 .. Len(lo) : BlockOf(u, E, W, lo, func.shape, j)
  BY DEF AllOffered, Blocks
<1>5. ASSUME NEW j \in 1 .. Len(lo) PROVE BlockOf(u, E \union {s}, W, lo, func.shape, j)
  BY <1>2, <1>3, <1>4, ErasedBlock
<1>6. ir' = u /\ matchList' = W /\ low' = lo /\ func' = func
  BY <1>1
<1> QED BY <1>1, <1>4, <1>5, <1>6 DEF Blocks

LEMMA BlocksMatch == ASSUME CodeInv, WalkMatch PROVE Blocks'
<1> USE DEF CodeInv, ChainInv, ElideInv
<1>1. /\ phase = "walk" /\ UNCHANGED <<func, low, ir, erased>>
  BY DEF WalkMatch, Visit
<1>2. erased = {} /\ Len(ir) \in Nat
  BY <1>1, Lengths DEF NotYet
<1> PICK u, lo, V, W, sh : u = ir /\ lo = low /\ V = matchList /\ W = matchList' /\ sh = func.shape
  OBVIOUS
<1>3. Offered(lo, func) /\ \A j \in 1 .. Len(lo) : BlockOf(u, {}, V, lo, sh, j)
  BY <1>2 DEF AllOffered, Blocks
<1>4. ASSUME NEW j \in 1 .. Len(lo) PROVE BlockOf(u, {}, W, lo, sh, j)
  <2>1. /\ lo[j].kind = "matmul" => TilesOf(sh, lo[j]) \in Nat
        /\ lo[j].kind # "matmul" => Len(lo[j].ins) \in Nat
    BY <1>3, OfferedIs
  <2>2. /\ Len(u) \in Nat /\ Len(u) <= Len(u) /\ \A k \in 1 .. Len(u) : u[k] = u[k]
        /\ \A k \in 1 .. Len(u) : k > Len(u) => u[k].at # j
    BY <1>2
  <2>3. BlockOf(u, {}, V, lo, sh, j)
    BY <1>3
  <2> QED BY <2>1, <2>2, <2>3, OldBlock
<1>5. ir' = u /\ erased' = {} /\ low' = lo /\ func'.shape = sh /\ matchList' = W
  BY <1>1, <1>2
<1> QED BY <1>4, <1>5 DEF Blocks

LEMMA BlocksStep ==
  ASSUME CodeInv, [Next]_compileVars, AllOffered'
  PROVE  Blocks'
<1>1. CASE LowerOne
  BY <1>1, BlocksLower
<1>2. CASE Rewire
  BY <1>2, BlocksRewire
<1>3. CASE EraseStore
  BY <1>3, BlocksErase
<1>4. CASE WalkMatch
  BY <1>4, BlocksMatch
<1>5. CASE \/ WalkStore \/ WalkOther \/ Reject \/ Crash \/ Lowered \/ Walked \/ Rewired \/ Elided
           \/ UNCHANGED elideVars
  <2>1. UNCHANGED <<func, low, ir, matchList, erased>>
    <3>1. CASE WalkStore \/ WalkOther \/ Reject \/ Crash
      BY <3>1 DEF WalkStore, WalkOther, Visit, Reject, Crash
    <3>2. CASE Lowered \/ Walked \/ Rewired \/ Elided
      BY <3>2 DEF Lowered, Walked, Rewired, Elided, StartPass
    <3>3. CASE UNCHANGED elideVars
      BY <3>3 DEF elideVars
    <3> QED BY <1>5, <3>1, <3>2, <3>3
  <2> QED BY <2>1 DEF CodeInv, Blocks
<1> QED BY <1>1, <1>2, <1>3, <1>4, <1>5, PassSteps

LEMMA IncreasingStep ==
  ASSUME CodeInv, [Next]_compileVars
  PROVE  Increasing'
<1> USE DEF CodeInv, ChainInv, ElideInv
<1>1. /\ at \in Nat \ {0} /\ Len(ir) \in Nat /\ Len(matchList) \in Nat
      /\ \A n \in 1 .. Len(matchList) : matchList[n].load \in Nat
  BY Lengths DEF Listing, Indexed
<1>2. CASE WalkMatch
  <2> PICK m : m = [store |-> lastStore[ir[at].buf], load |-> at]
    OBVIOUS
  <2>1. /\ phase = "walk" /\ at' = at + 1 /\ matchList' = Append(matchList, m) /\ m.load = at
    BY <1>2 DEF WalkMatch, Visit
  <2>2. /\ Len(matchList') = Len(matchList) + 1 /\ matchList'[Len(matchList) + 1] = m
        /\ \A n \in 1 .. Len(matchList) : matchList'[n] = matchList[n]
    BY <2>1, Adding DEF Listing
  <2>3. \A n \in 1 .. Len(matchList) : matchList[n].load < at
    BY <2>1 DEF Increasing
  <2>4. ASSUME NEW n \in 1 .. Len(matchList') PROVE matchList'[n].load < at + 1
    <3>1. n \in 1 .. Len(matchList) \/ n = Len(matchList) + 1
      BY <1>1, <2>2
    <3> QED BY <1>1, <2>1, <2>2, <2>3, <3>1
  <2>5. ASSUME NEW n \in 1 .. Len(matchList'), NEW k \in 1 .. Len(matchList'), n < k
        PROVE  matchList'[n].load < matchList'[k].load
    <3>1. n \in 1 .. Len(matchList)
      BY <1>1, <2>2, <2>5
    <3>2. CASE k \in 1 .. Len(matchList)
      BY <2>2, <2>5, <3>1, <3>2 DEF Increasing
    <3>3. CASE k = Len(matchList) + 1
      BY <2>1, <2>2, <2>3, <3>1, <3>3
    <3> QED BY <1>1, <2>2, <3>2, <3>3
  <2> QED BY <2>1, <2>4, <2>5 DEF Increasing
<1>3. CASE Lowered
  <2>1. matchList' = <<>>
    BY <1>3 DEF Lowered, StartPass, NotYet
  <2> QED BY <2>1 DEF Increasing
<1>4. CASE WalkStore \/ WalkOther
  <2>1. phase = "walk" /\ at' = at + 1 /\ matchList' = matchList
    BY <1>4 DEF WalkStore, WalkOther, Visit
  <2> QED BY <1>1, <2>1 DEF Increasing
<1>5. CASE \/ LowerOne \/ Rewire \/ EraseStore \/ Reject \/ Crash \/ Walked \/ Rewired \/ Elided
           \/ UNCHANGED elideVars
  <2>1. matchList' = matchList /\ (phase' = "walk" => phase = "walk" /\ at' = at)
    <3>1. CASE LowerOne \/ Rewire \/ EraseStore \/ Reject \/ Crash
      BY <3>1 DEF LowerOne, Rewire, EraseStore, Reject, Crash
    <3>2. CASE Walked \/ Rewired \/ Elided
      BY <3>2 DEF Walked, Rewired, Elided, StartPass
    <3>3. CASE UNCHANGED elideVars
      BY <3>3 DEF elideVars
    <3> QED BY <1>5, <3>1, <3>2, <3>3
  <2> QED BY <2>1 DEF Increasing
<1> QED BY <1>2, <1>3, <1>4, <1>5, PassSteps

LEMMA MovingStep ==
  ASSUME CodeInv, [Next]_compileVars
  PROVE  Moving'
<1> USE DEF CodeInv, ChainInv, ElideInv
<1>1. /\ at \in Nat \ {0} /\ Len(ir) \in Nat /\ Len(matchList) \in Nat /\ IsList(ir)
  BY Lengths DEF Listing
<1>2. OnlyMoves(ir, erased) /\ erased \subseteq 1 .. Len(ir)
  BY DEF Moving, Drawn
<1>3. CASE LowerOne
  <2>1. erased' = {} /\ phase' = "lower"
    BY <1>3 DEF LowerOne, NotYet
  <2> QED BY <2>1 DEF Moving, OnlyMoves
<1>4. CASE Rewire
  <2> PICK K : K = matchList[at].load
    OBVIOUS
  <2>1. /\ phase = "rewire" /\ at \in 1 .. Len(matchList) /\ erased' = erased \union {K}
        /\ UNCHANGED <<phase, matchList>> /\ at' = at + 1
    BY <1>1, <1>4 DEF Rewire
  <2>2. K \in 1 .. Len(ir) /\ ir[K].op = "load" /\ ir[K].part = "whole"
    BY <2>1 DEF Indexed, LoadsMeetLastStore, IsLoadOf
  <2>3. ASSUME NEW k \in erased' PROVE ir'[k].op \in {"load", "store"} /\ ir'[k].part = "whole"
    <3>1. k \in 1 .. Len(ir) /\ ir[k].op \in {"load", "store"} /\ ir[k].part = "whole"
      BY <1>2, <2>1, <2>2 DEF OnlyMoves
    <3> QED BY <1>4, <3>1, RewireSame DEF Alike
  <2>4. ASSUME NEW k \in erased' PROVE \E n \in 1 .. at' - 1 : matchList'[n].load = k
    <3>1. CASE k \in erased
      <4>1. PICK n \in 1 .. at - 1 : matchList[n].load = k
        BY <2>1, <3>1 DEF Moving
      <4> QED BY <1>1, <2>1, <4>1
    <3>2. CASE k = K
      <4>1. at \in 1 .. at' - 1
        BY <1>1, <2>1
      <4> QED BY <2>1, <3>2, <4>1
    <3> QED BY <2>1, <3>1, <3>2
  <2> QED BY <2>3, <2>4 DEF Moving, OnlyMoves
<1>5. CASE EraseStore
  <2> PICK s : s = matchList[at].store
    OBVIOUS
  <2>1. /\ phase = "erase" /\ at \in 1 .. Len(matchList) /\ UNCHANGED <<phase, ir>>
        /\ erased' = erased \/ erased' = erased \union {s}
    BY <1>1, <1>5 DEF EraseStore
  <2>2. ir[s].op = "store" /\ ir[s].part = "whole"
    BY <2>1 DEF LoadsMeetLastStore, IsStoreTo
  <2> QED BY <1>2, <2>1, <2>2 DEF Moving, OnlyMoves
<1>6. CASE Walked
  <2>1. erased' = {}
    BY <1>6 DEF Walked, StartPass, NotYet
  <2> QED BY <2>1 DEF Moving, OnlyMoves
<1>7. CASE \/ WalkStore \/ WalkMatch \/ WalkOther \/ Reject \/ Crash \/ Lowered \/ Rewired \/ Elided
           \/ UNCHANGED elideVars
  <2>1. UNCHANGED <<ir, erased>> /\ (phase' = "rewire" => UNCHANGED <<phase, matchList, at>>)
    <3>1. CASE WalkStore \/ WalkMatch \/ WalkOther \/ Reject \/ Crash
      BY <3>1 DEF WalkStore, WalkMatch, WalkOther, Visit, Reject, Crash
    <3>2. CASE Lowered \/ Rewired \/ Elided
      BY <3>2 DEF Lowered, Rewired, Elided, StartPass
    <3>3. CASE UNCHANGED elideVars
      BY <3>3 DEF elideVars
    <3> QED BY <1>7, <3>1, <3>2, <3>3
  <2> QED BY <2>1 DEF Moving
<1> QED BY <1>3, <1>4, <1>5, <1>6, <1>7, PassSteps

LEMMA CodeStep == CodeInv /\ [Next]_compileVars => CodeInv'
<1> SUFFICES ASSUME CodeInv, [Next]_compileVars PROVE CodeInv'
  OBVIOUS
<1>1. ChainInv'
  BY ChainStep DEF CodeInv
<1>2. AllOffered'
  BY OfferedStep
<1> QED BY <1>1, <1>2, BlocksStep, IncreasingStep, MovingStep DEF CodeInv

-----------------------------------------------------------------------------
(* The code that is left computes what the reference does.                 *)

\* Every operation ends with its store.
Stored == \A j \in 1 .. Len(low) : \E X : StoresLast(ir, X, low[j], j)

LEMMA AllStored == ASSUME CodeInv PROVE Stored
<1> USE DEF CodeInv, ChainInv, ElideInv
<1> PICK u, E, W, lo, f : u = ir /\ E = erased /\ W = matchList /\ lo = low /\ f = func
  OBVIOUS
<1>1. IsList(u) /\ Offered(lo, f) /\ \A j \in 1 .. Len(lo) : BlockOf(u, E, W, lo, f.shape, j)
  BY DEF Listing, AllOffered, Blocks
<1>2. ASSUME NEW j \in 1 .. Len(lo) PROVE \E X : StoresLast(u, X, lo[j], j)
  BY <1>1, BlockEnds, Zenon
<1> QED BY <1>2 DEF Stored

\* A load that is paired is met by the operation whose store it was paired with.
LEMMA PairMet ==
  ASSUME CodeInv, StoredOneWay, NEW n \in 1 .. Len(matchList),
         NEW K, K = matchList[n].load, NEW S, S = matchList[n].store,
         NEW j, j = ir[K].at, NEW i, i = ir[S].at, NEW y, ir[K].buf = low[j].ins[y]
  PROVE  Met(func, low, j, y, Home(low[i], i))
<1> USE DEF CodeInv, ChainInv, ElideInv
<1> PICK b : b = ir[K].buf
  OBVIOUS
<1>1. /\ Len(ir) \in Nat /\ DOMAIN ir = 1 .. Len(ir) /\ Len(low) \in Nat
      /\ K \in 1 .. Len(ir) /\ S \in 1 .. Len(ir)
  BY Lengths, ListOf DEF Indexed, Recognition, IsList
<1>0. InLoop(func, i) <=> InLoop(func, j)
  BY DEF LoadsMeetLastStore
<1>2. S < K /\ IsStoreTo(S, b) /\ \A k \in S + 1 .. K - 1 : ~IsStoreTo(k, b)
  BY DEF LoadsMeetLastStore
<1>3. ir[S].op = "store" /\ ir[S].part = "whole" /\ ir[S].buf = b
  BY <1>2, Zenon DEF IsStoreTo
<1>4. i \in 1 .. Len(low) /\ j \in 1 .. Len(low) /\ i <= j
  BY <1>1, <1>2, Zenon DEF InOrder, OrderOf
<1>5. low[i].out = b /\ \A k \in 1 .. Len(ir) : ir[k].at = i => k <= S
  <2>1. PICK X : StoresLast(ir, X, low[i], i)
    BY <1>4, AllStored DEF Stored
  <2>2. S = X
    BY <1>1, <1>3, <2>1 DEF StoresLast
  <2> QED BY <1>3, <2>1, <2>2 DEF StoresLast
<1> HIDE DEF CodeInv, ChainInv, ElideInv
<1>6. i # j
  <2> SUFFICES ASSUME i = j PROVE FALSE
    OBVIOUS
  <2>1. ir[K].at = i
    OBVIOUS
  <2>2. K <= S
    BY <1>1, <1>5, <2>1
  <2>3. K \in Nat /\ S \in Nat
    BY <1>1, SMTT(30)
  <2>4. S < K
    BY <1>2, Zenon
  <2> QED BY <2>2, <2>3, <2>4
<1>7. ASSUME NEW q \in i + 1 .. j - 1 PROVE low[q].out # b
  <2> SUFFICES ASSUME low[q].out = b PROVE FALSE
    OBVIOUS
  <2>0. i \in Nat /\ i >= 1 /\ j \in Nat /\ j <= Len(low) /\ Len(low) \in Nat
    BY <1>1, <1>4
  <2>1. q \in 1 .. Len(low) /\ i < q /\ q < j
    <3>1. i + 1 <= q /\ q <= j - 1 /\ q \in Int
      BY <2>0
    <3> QED BY <2>0, <3>1
  <2>2. PICK X : StoresLast(ir, X, low[q], q)
    BY <2>1, AllStored DEF Stored
  <2>3. X \in 1 .. Len(ir) /\ ir[X].op = "store" /\ ir[X].at = q /\ ir[X].buf = b
    BY <2>2 DEF StoresLast
  <2>4. ir[X].part = "whole"
    BY <1>1, <1>3, <2>3 DEF StoredOneWay
  <2>5. IsStoreTo(X, b)
    BY <2>3, <2>4 DEF IsStoreTo
  <2>6. ~(X < S) /\ ~(K < X)
    <3>1. \A k, m \in 1 .. Len(ir) : k < m => ir[k].at <= ir[m].at
      BY DEF CodeInv, ChainInv, InOrder, OrderOf
    <3>2. X < S => q <= i
      BY <1>1, <2>3, <3>1
    <3>3. K < X => j <= q
      BY <1>1, <2>3, <3>1
    <3> QED BY <1>1, <1>4, <2>1, <3>2, <3>3
  <2>7. X # S /\ X # K
    BY <1>4, <2>1, <2>3
  <2>8. X \in S + 1 .. K - 1
    <3>1. X \in Nat /\ K \in Nat /\ S \in Nat
      BY <1>1, <2>3
    <3> QED BY <2>6, <2>7, <3>1
  <2> QED BY <1>2, <2>5, <2>8, Zenon
<1>8. i \in 1 .. j - 1
  <2>1. i \in Nat /\ i >= 1 /\ j \in Nat /\ i <= j
    BY <1>1, <1>4, SMTT(30)
  <2> QED BY <1>6, <2>1
<1>9. low[i].out = low[j].ins[y]
  BY <1>5, Zenon
<1>10. \A q \in i + 1 .. j - 1 : low[q].out # low[i].out
  BY <1>5, <1>7
<1> QED BY <1>0, <1>8, <1>9, <1>10 DEF Met

\* The buffers whose stores are erased.
Gone == {ir[k].buf : k \in ErasedStores}

TilesSafe == \A k \in ErasedStores : ~ReadInTiles(ir[k].buf)

\* No load that is left, and no return, is of such a buffer.
LEMMA NothingGone ==
  ASSUME CodeInv, TilesSafe, NEW k \in 1 .. Len(ir), k \notin erased, ir[k].op = "load"
  PROVE  ir[k].buf \notin Gone
<1> USE DEF CodeInv, ChainInv, ElideInv
<1> SUFFICES ASSUME NEW s \in ErasedStores, ir[s].buf = ir[k].buf PROVE FALSE
  BY DEF Gone
<1>1. DOMAIN ir = 1 .. Len(ir) /\ s \in erased /\ ir[s].op = "store"
  BY Lengths DEF ErasedStores
<1>2. ~IsLoadOf(k, ir[s].buf)
  BY <1>1 DEF ErasedStoresWereLast
<1>3. ir[k].part # "whole"
  BY <1>2 DEF IsLoadOf
<1>4. ReadInTiles(ir[s].buf)
  BY <1>1, <1>3 DEF ReadInTiles
<1> QED BY <1>4 DEF TilesSafe

LEMMA ReturnsStay == ASSUME CodeInv PROVE func.ret \intersect Gone = {}
<1> USE DEF CodeInv, ChainInv, ElideInv
<1> SUFFICES ASSUME NEW s \in ErasedStores, ir[s].buf \in func.ret PROVE FALSE
  BY DEF Gone
<1> QED BY DEF ErasedStores, ErasedStoresWereLast

LEMMA ErasedGone ==
  ASSUME NEW k \in erased, ir[k].op = "store"
  PROVE  ir[k].buf \in Gone
BY DEF Gone, ErasedStores

LEMMA WholeSound ==
  ASSUME CodeInv, StoredOneWay, TilesSafe, NEW j \in 1 .. Len(low), low[j].kind # "matmul"
  PROVE  SoundWhole(func, ir, erased, low, j, Gone)
<1> PICK l, n : l = low[j] /\ n = Len(l.ins)
  OBVIOUS
<1>1. n \in 1 .. 2 /\ IsList(ir)
  <2>1. Offered(low, func) /\ IsList(ir)
    BY DEF CodeInv, AllOffered, ChainInv, ElideInv, Listing
  <2> QED BY <2>1, OfferedIs
<1>2. PICK a : WholeBlock(ir, erased, matchList, low, j, a)
  BY DEF CodeInv, Blocks, BlockOf
<1> PICK srcs : srcs = ir[a + (n + 2)].srcs
  OBVIOUS
<1>3. /\ WholeAt(ir, erased, l, j, a)
      /\ \A y \in 1 .. n : Supply(ir, erased, matchList, low, j, y, a + y, srcs[y])
  BY <1>2 DEF WholeBlock
<1>4. a \in Nat /\ a + (n + 4) <= Len(ir) /\ Len(ir) \in Nat
  BY <1>1, <1>3, ListOf DEF WholeAt, LiesAt, IsList
<1>5. ASSUME NEW y \in 1 .. n
      PROVE  IF a + y \in erased THEN Met(func, low, j, y, srcs[y])
             ELSE srcs[y] = <<j, y>> /\ l.ins[y] \notin Gone
  <2> PICK k, s : k = a + y /\ s = srcs[y]
    OBVIOUS
  <2>1. k \in 1 .. Len(ir)
    BY <1>1, <1>4
  <2>2. \E x : ir[k] = Load(j, l.ins[y], "whole", 0, x)
    BY <1>3 DEF WholeAt
  <2>3. ir[k].op = "load" /\ ir[k].at = j /\ ir[k].buf = l.ins[y]
    BY <2>2 DEF Load
  <2>4. Supply(ir, erased, matchList, low, j, y, k, s)
    BY <1>3
  <2>5. CASE k \in erased
    <3>1. PICK w \in 1 .. Len(matchList) :
            /\ matchList[w].load = k
            /\ s = Home(low[ir[matchList[w].store].at], ir[matchList[w].store].at)
      BY <2>4, <2>5 DEF Supply
    <3>2. Met(func, low, j, y, s)
      BY <2>3, <3>1, PairMet
    <3> QED BY <2>5, <3>2
  <2>6. CASE k \notin erased
    <3>1. s = <<j, y>>
      BY <2>4, <2>6 DEF Supply
    <3>2. ir[k].buf \notin Gone
      BY <2>1, <2>3, <2>6, NothingGone
    <3> QED BY <2>3, <2>6, <3>1, <3>2
  <2> QED BY <2>5, <2>6
<1>6. a + (n + 4) \in erased => l.out \in Gone
  <2>1. \E part : ir[a + (n + 4)] = Store(j, <<j, n + 1>>, l.out, part)
    BY <1>3 DEF WholeAt
  <2>2. ir[a + (n + 4)].op = "store" /\ ir[a + (n + 4)].buf = l.out
    BY <2>1 DEF Store
  <2> QED BY <2>2, ErasedGone
<1> QED BY <1>3, <1>5, <1>6 DEF SoundWhole

LEMMA TiledSound ==
  ASSUME CodeInv, TilesSafe, NEW j \in 1 .. Len(low), low[j].kind = "matmul"
  PROVE  SoundTiled(func, ir, erased, low, j, Gone)
<1> PICK l, sh, T : l = low[j] /\ sh = func.shape /\ T = TilesOf(sh, l)
  OBVIOUS
<1>1. T \in Nat \ {0} /\ IsList(ir)
  <2>1. Offered(low, func) /\ IsList(ir)
    BY DEF CodeInv, AllOffered, ChainInv, ElideInv, Listing
  <2> QED BY <2>1, OfferedIs
<1>2. PICK a : TiledAt(ir, sh, l, j, a)
  BY DEF CodeInv, Blocks, BlockOf
<1> PICK t : t = LowerMatmul(sh, l, j)
  OBVIOUS
<1>3. LiesAt(ir, j, a, Len(t)) /\ \A x \in 1 .. Len(t) : ir[a + x] = t[x]
  BY <1>2 DEF TiledAt
<1>4. ListsTiles(t, T, l, j)
  BY <1>1, TiledSteps
<1>5. Len(t) = 5 * T + 1 /\ t[5 * T + 1] = Store(j, <<j, 3>>, l.out, "whole")
  BY <1>4 DEF ListsTiles
<1>6. t[1] = Load(j, l.ins[1], "cols", 1, <<j, 1>>) /\ t[2] = Load(j, l.ins[2], "rows", 1, <<j, 2>>)
  <2>1. \A w \in 1 .. T, k \in 1 .. 5 : t[5 * (w - 1) + k] = TileStep(l, j, w, k)
    BY <1>4 DEF ListsTiles
  <2>2. ASSUME NEW k \in 1 .. 5 PROVE t[k] = TileStep(l, j, 1, k)
    <3>1. 1 \in 1 .. T /\ 5 * (1 - 1) + k = k
      BY <1>1
    <3>2. t[5 * (1 - 1) + k] = TileStep(l, j, 1, k)
      BY <2>1, <3>1
    <3> QED BY <3>1, <3>2
  <2>3. 1 \in 1 .. 5 /\ 2 \in 1 .. 5
    OBVIOUS
  <2>4. t[1] = TileStep(l, j, 1, 1) /\ t[2] = TileStep(l, j, 1, 2)
    BY <2>2, <2>3
  <2> QED BY <2>4 DEF TileStep
<1>7. /\ a \in Nat /\ Len(ir) \in Nat /\ a + 1 \in 1 .. Len(ir) /\ a + 2 \in 1 .. Len(ir)
      /\ 1 \in 1 .. Len(t) /\ 2 \in 1 .. Len(t) /\ 5 * T + 1 \in 1 .. Len(t)
  <2>1. a \in Nat /\ a + (5 * T + 1) <= Len(ir) /\ Len(ir) \in Nat
    BY <1>1, <1>3, <1>5, ListOf DEF LiesAt, IsList
  <2>2. 5 * T + 1 >= 6 /\ 5 * T + 1 \in Nat
    BY <1>1
  <2>3. a + 1 \in 1 .. Len(ir) /\ a + 2 \in 1 .. Len(ir)
    BY <2>1, <2>2
  <2>4. 1 \in 1 .. Len(t) /\ 2 \in 1 .. Len(t) /\ 5 * T + 1 \in 1 .. Len(t)
    BY <1>5, <2>2
  <2> QED BY <2>1, <2>3, <2>4
<1>8. /\ ir[a + 1] = Load(j, l.ins[1], "cols", 1, <<j, 1>>)
      /\ ir[a + 2] = Load(j, l.ins[2], "rows", 1, <<j, 2>>)
      /\ ir[a + (5 * T + 1)] = Store(j, <<j, 3>>, l.out, "whole")
  BY <1>3, <1>5, <1>6, <1>7
<1>9. ASSUME NEW k \in 1 .. Len(ir), ir[k].op = "load", ir[k].part # "whole"
      PROVE  ir[k].buf \notin Gone
  <2>1. k \notin erased
    BY <1>9 DEF CodeInv, Moving, OnlyMoves
  <2> QED BY <1>9, <2>1, NothingGone
<1>10. l.ins[1] \notin Gone
  <2>1. ir[a + 1].op = "load" /\ ir[a + 1].part # "whole" /\ ir[a + 1].buf = l.ins[1]
    BY <1>8 DEF Load
  <2> QED BY <1>7, <1>9, <2>1
<1>11. l.ins[2] \notin Gone
  <2>1. ir[a + 2].op = "load" /\ ir[a + 2].part # "whole" /\ ir[a + 2].buf = l.ins[2]
    BY <1>8 DEF Load
  <2> QED BY <1>7, <1>9, <2>1
<1>12. a + (5 * T + 1) \in erased => l.out \in Gone
  <2>1. ir[a + (5 * T + 1)].op = "store" /\ ir[a + (5 * T + 1)].buf = l.out
    BY <1>8 DEF Store
  <2> QED BY <2>1, ErasedGone
<1> QED BY <1>2, <1>10, <1>11, <1>12 DEF SoundTiled

LEMMA LeftComputes ==
  ASSUME CodeInv, phase \in {"rewire", "erase", "allocate"}, StoredOneWay, TilesSafe
  PROVE  Result(func, Remaining) = Reference(func, low)
<1> PICK f, lo, u, E, G : f = func /\ lo = low /\ u = ir /\ E = erased /\ G = Gone
  OBVIOUS
<1>1. Recognises(f, lo)
  BY DEF CodeInv, ChainInv, Recognition, AllOffered, Offered, Recognises
<1>2. IsList(u) /\ OnlyMoves(u, E)
  BY DEF CodeInv, ChainInv, ElideInv, Listing, Moving
<1>3. ASSUME NEW j \in 1 .. Len(lo)
      PROVE  IF lo[j].kind = "matmul" THEN SoundTiled(f, u, E, lo, j, G)
             ELSE SoundWhole(f, u, E, lo, j, G)
  <2>1. CASE lo[j].kind = "matmul"
    <3>1. SoundTiled(func, ir, erased, low, j, Gone)
      BY <2>1, TiledSound
    <3> QED BY <2>1, <3>1
  <2>2. CASE lo[j].kind # "matmul"
    <3>1. SoundWhole(func, ir, erased, low, j, Gone)
      BY <2>2, WholeSound
    <3> QED BY <2>2, <3>1
  <2> QED BY <2>1, <2>2
<1>4. Sound(f, u, E, lo, G)
  BY <1>2, <1>3 DEF Sound
<1>5. f.ret \intersect G = {}
  BY ReturnsStay
<1>6. Result(f, Without(u, E)) = Reference(f, lo)
  BY <1>1, <1>4, <1>5, SoundCodeComputes
<1> QED BY <1>6 DEF Remaining

\* Rewiring the users of a load to the SRAM buffer of the store it was paired
\* with, one pair at a time, changes no result, whatever the function
\* (runOnOperation, the walk and the first of its two rewriting loops).
THEOREM ElisionKeepsResults == Spec => []ElidedLoadsAreRedundant
<1>1. ASSUME CodeInv PROVE ElidedLoadsAreRedundant
  <2> SUFFICES ASSUME phase = "rewire", StoredOneWay
               PROVE  Result(func, Remaining) = Reference(func, low)
    BY DEF ElidedLoadsAreRedundant
  <2>1. \A k \in erased : ir[k].op = "load"
    BY <1>1 DEF CodeInv, ChainInv, ElideInv, NotYet
  <2>2. TilesSafe
    BY <2>1 DEF TilesSafe, ErasedStores
  <2> QED BY <1>1, <2>2, LeftComputes
<1> QED BY <1>1, CodeStarts, CodeStep, PTL DEF Spec

\* Once the stores are erased too, the code that is left still computes what
\* the function does, provided no matmul reads an erased buffer in tiles
\* (rootIsDead and the second rewriting loop).
THEOREM ErasureKeepsResults == Spec => []ErasedStoresAreDead
<1>1. ASSUME CodeInv PROVE ErasedStoresAreDead
  <2> SUFFICES ASSUME phase = "allocate", StoredOneWay, TilesSafe
               PROVE  Result(func, Remaining) = Reference(func, low)
    BY DEF ErasedStoresAreDead, TilesSafe
  <2> QED BY <1>1, LeftComputes
<1> QED BY <1>1, CodeStarts, CodeStep, PTL DEF Spec

-----------------------------------------------------------------------------
(* Elements of a list, taken over in order.                                *)

\* t has the elements of s at the positions P, in order.
TakenBy(p, t, s, P) ==
  /\ p \in [1 .. Len(t) -> P]
  /\ \A x \in 1 .. Len(t) : t[x] = s[p[x]]
  /\ \A x, y \in 1 .. Len(t) : x < y => p[x] < p[y]
  /\ \A k \in P : \E x \in 1 .. Len(t) : p[x] = k
Taken(t, s, P) == IsList(t) /\ \E p : TakenBy(p, t, s, P)

LEMMA TakenLonger ==
  ASSUME NEW t, NEW s, NEW P, P \subseteq Nat, Taken(t, s, P), NEW n \in Nat, \A k \in P : k < n
  PROVE  Taken(Append(t, s[n]), s, P \union {n})
<1> PICK p : TakenBy(p, t, s, P)
  BY DEF Taken
<1> PICK u, m : u = Append(t, s[n]) /\ m = Len(t)
  OBVIOUS
<1>1. IsList(u) /\ m \in Nat /\ Len(u) = m + 1 /\ u[m + 1] = s[n] /\ \A k \in 1 .. m : u[k] = t[k]
  BY Adding DEF Taken
<1>2. /\ p \in [1 .. m -> P] /\ \A x \in 1 .. m : t[x] = s[p[x]] /\ p[x] \in P
      /\ \A x, y \in 1 .. m : x < y => p[x] < p[y]
      /\ \A k \in P : \E x \in 1 .. m : p[x] = k
  BY DEF TakenBy
<1> DEFINE q == [x \in 1 .. m + 1 |-> IF x = m + 1 THEN n ELSE p[x]]
<1>3. q[m + 1] = n /\ \A x \in 1 .. m : q[x] = p[x]
  BY <1>1
<1>4. \A x \in 1 .. m + 1 : x = m + 1 \/ x \in 1 .. m
  BY <1>1
<1>5. q \in [1 .. m + 1 -> P \union {n}]
  BY <1>1, <1>2
<1> HIDE DEF q
<1>6. \A x \in 1 .. m + 1 : u[x] = s[q[x]]
  BY <1>1, <1>2, <1>3, <1>4
<1>7. ASSUME NEW x \in 1 .. m + 1, NEW y \in 1 .. m + 1, x < y PROVE q[x] < q[y]
  <2>1. x \in 1 .. m
    BY <1>1, <1>7
  <2>2. CASE y \in 1 .. m
    BY <1>2, <1>3, <1>7, <2>1, <2>2
  <2>3. CASE y = m + 1
    BY <1>2, <1>3, <2>1, <2>3
  <2> QED BY <1>4, <2>2, <2>3
<1>8. ASSUME NEW k \in P \union {n} PROVE \E x \in 1 .. m + 1 : q[x] = k
  <2>1. CASE k \in P
    <3>1. PICK x \in 1 .. m : p[x] = k
      BY <1>2, <2>1
    <3>2. x \in 1 .. m + 1
      BY <1>1
    <3> QED BY <1>3, <3>1, <3>2
  <2>2. CASE k = n
    <3>1. m + 1 \in 1 .. m + 1
      BY <1>1
    <3> QED BY <1>3, <2>2, <3>1
  <2> QED BY <2>1, <2>2
<1>9. TakenBy(q, u, s, P \union {n})
  BY <1>1, <1>5, <1>6, <1>7, <1>8 DEF TakenBy
<1> QED BY <1>1, <1>9 DEF Taken

LEMMA WithoutTakes ==
  ASSUME NEW s, IsList(s), NEW K
  PROVE  Taken(Without(s, K), s, (1 .. Len(s)) \ K)
<1> DEFINE T == RangeOf(s)
           m == Len(s)
<1>1. s \in Seq(T) /\ m \in Nat
  BY DEF IsList
<1> HIDE DEF T
<1>2. PICK keep : Keeps(keep, s, K, T)
  BY <1>1, WithoutSteps
<1>3. /\ keep[0] = <<>> /\ Without(s, K) = keep[m]
      /\ \A n \in 1 .. m : keep[n] = IF n \in K THEN keep[n - 1] ELSE Append(keep[n - 1], s[n])
  BY <1>2 DEF Keeps
<1> HIDE DEF m
<1> DEFINE S == {n \in Nat : n <= m => Taken(keep[n], s, (1 .. n) \ K)}
<1>4. 0 \in S
  <2>1. (1 .. 0) \ K = {}
    OBVIOUS
  <2>2. Taken(<<>>, s, {})
    <3> DEFINE p == [x \in 1 .. 0 |-> 0]
               e == <<>>
    <3>1. Len(e) = 0 /\ e \in Seq({}) /\ p \in [1 .. 0 -> {}]
      OBVIOUS
    <3> HIDE DEF p, e
    <3>2. IsList(e)
      BY <3>1, ListOf
    <3>3. TakenBy(p, e, s, {})
      BY <3>1 DEF TakenBy
    <3>4. Taken(e, s, {})
      BY <3>2, <3>3 DEF Taken
    <3> QED BY <3>4 DEF e
  <2> QED BY <1>3, <2>1, <2>2
<1>5. ASSUME NEW i \in Nat, i \in S PROVE i + 1 \in S
  <2> SUFFICES ASSUME i + 1 <= m PROVE Taken(keep[i + 1], s, (1 .. i + 1) \ K)
    OBVIOUS
  <2> PICK n : n = i + 1
    OBVIOUS
  <2>1. n \in 1 .. m /\ n \in Nat /\ n - 1 = i /\ Taken(keep[i], s, (1 .. i) \ K)
    BY <1>1, <1>5
  <2> DEFINE P == (1 .. i) \ K
  <2>2. P \subseteq Nat /\ \A k \in P : k < n
    BY <2>1
  <2>3. (1 .. n) \ K = IF n \in K THEN P ELSE P \union {n}
    <3>1. \A k : k \in 1 .. n <=> k \in 1 .. i \/ k = n
      BY <2>1
    <3> QED BY <3>1
  <2> HIDE DEF P
  <2>4. Taken(Append(keep[i], s[n]), s, P \union {n})
    BY <2>1, <2>2, TakenLonger DEF P
  <2>5. keep[n] = IF n \in K THEN keep[i] ELSE Append(keep[i], s[n])
    BY <1>3, <2>1
  <2> QED BY <2>1, <2>3, <2>4, <2>5 DEF P
<1>6. m \in S
  <2> HIDE DEF S
  <2>1. \A n \in Nat : n \in S
    BY <1>4, <1>5, Induction
  <2> QED BY <1>1, <2>1
<1> QED BY <1>1, <1>3, <1>6 DEF m

\* The section of an operation, in what the erasure leaves of s.
LEMMA SectionTakes ==
  ASSUME NEW s, IsList(s), NEW E, NEW j
  PROVE  Taken(Section(Without(s, E), j), s, {k \in 1 .. Len(s) : k \notin E /\ s[k].at = j})
<1> PICK t : t = Without(s, E)
  OBVIOUS
<1> DEFINE K == {n \in DOMAIN t : t[n].at # j}
           P == {k \in 1 .. Len(s) : k \notin E /\ s[k].at = j}
<1>1. IsList(t) /\ Taken(t, s, (1 .. Len(s)) \ E)
  BY WithoutTakes DEF Taken
<1>2. DOMAIN t = 1 .. Len(t)
  BY <1>1, ListOf DEF IsList
<1>3. Section(t, j) = Without(t, K)
  BY DEF Section
<1> PICK u : u = Without(t, K)
  OBVIOUS
<1>4. Taken(u, t, (1 .. Len(t)) \ K)
  <2> HIDE DEF K
  <2> QED BY <1>1, WithoutTakes
<1>5. (1 .. Len(t)) \ K = {n \in 1 .. Len(t) : t[n].at = j}
  BY <1>2
<1> HIDE DEF K
<1> PICK p : TakenBy(p, t, s, (1 .. Len(s)) \ E)
  BY <1>1 DEF Taken
<1> PICK q : TakenBy(q, u, t, (1 .. Len(t)) \ K)
  BY <1>4 DEF Taken
<1>6. /\ \A x \in 1 .. Len(t) : t[x] = s[p[x]] /\ p[x] \in 1 .. Len(s) /\ p[x] \notin E
      /\ \A x, y \in 1 .. Len(t) : x < y => p[x] < p[y]
      /\ \A k \in 1 .. Len(s) : k \notin E => \E x \in 1 .. Len(t) : p[x] = k
  BY DEF TakenBy
<1>7. /\ \A x \in 1 .. Len(u) : u[x] = t[q[x]] /\ q[x] \in 1 .. Len(t) /\ t[q[x]].at = j
      /\ \A x, y \in 1 .. Len(u) : x < y => q[x] < q[y]
      /\ \A n \in 1 .. Len(t) : t[n].at = j => \E x \in 1 .. Len(u) : q[x] = n
  BY <1>5 DEF TakenBy
<1> DEFINE r == [x \in 1 .. Len(u) |-> p[q[x]]]
<1>8. \A x \in 1 .. Len(u) : r[x] = p[q[x]]
  OBVIOUS
<1>9. ASSUME NEW x \in 1 .. Len(u) PROVE r[x] \in P /\ u[x] = s[r[x]]
  <2> HIDE DEF r
  <2> PICK n : n = q[x]
    OBVIOUS
  <2>1. n \in 1 .. Len(t) /\ u[x] = t[n] /\ t[n].at = j /\ r[x] = p[n]
    BY <1>7, <1>8
  <2>2. t[n] = s[p[n]] /\ p[n] \in 1 .. Len(s) /\ p[n] \notin E
    BY <1>6, <2>1
  <2> QED BY <2>1, <2>2
<1>10. r \in [1 .. Len(u) -> P]
  <2> HIDE DEF P
  <2> QED BY <1>9
<1> HIDE DEF r, P
<1>11. ASSUME NEW x \in 1 .. Len(u), NEW y \in 1 .. Len(u), x < y PROVE r[x] < r[y]
  <2>1. q[x] < q[y] /\ q[x] \in 1 .. Len(t) /\ q[y] \in 1 .. Len(t)
    BY <1>7, <1>11
  <2> QED BY <1>6, <1>8, <2>1
<1>12. ASSUME NEW k \in P PROVE \E x \in 1 .. Len(u) : r[x] = k
  <2>1. k \in 1 .. Len(s) /\ k \notin E /\ s[k].at = j
    BY DEF P
  <2>2. PICK n \in 1 .. Len(t) : p[n] = k
    BY <1>6, <2>1
  <2>3. t[n].at = j
    BY <1>6, <2>1, <2>2
  <2>4. PICK x \in 1 .. Len(u) : q[x] = n
    BY <1>7, <2>3
  <2> QED BY <1>8, <2>2, <2>4
<1>13. TakenBy(r, u, s, P)
  BY <1>9, <1>10, <1>11, <1>12 DEF TakenBy
<1> QED BY <1>3, <1>4, <1>13 DEF Taken, P

-----------------------------------------------------------------------------
(* Fences.  All at the positions P of a list of operations.                *)

FenceIn(s, P, x, y) == \E k \in P : x <= k /\ k <= y /\ s[k].op = "sync"

\* Without a fence between them, a store may come ahead of a load, and the
\* loads of one operation ahead of each other.
Fenced(s, P) ==
  \A x, y \in P : x < y /\ ~FenceIn(s, P, x, y) =>
    /\ s[y].op = "load"
    /\ s[x].op = "store" \/ (s[x].op = "load" /\ s[x].sram # s[y].sram)

\* Ahead of the first fence there are loads, behind the last one stores.
Opens(s, P) == \A y \in P : s[y].op = "load" \/ \E k \in P : k <= y /\ s[k].op = "sync"
Closes(s, P) == \A x \in P : s[x].op = "store" \/ \E k \in P : x <= k /\ s[k].op = "sync"

LEMMA FencesTaken ==
  ASSUME NEW t, NEW s, NEW P, P \subseteq Nat, Taken(t, s, P), NEW Q, Q = 1 .. Len(t)
  PROVE  /\ Fenced(s, P) => Fenced(t, Q)
         /\ Opens(s, P) => Opens(t, Q)
         /\ Closes(s, P) => Closes(t, Q)
<1> PICK p : TakenBy(p, t, s, P)
  BY DEF Taken
<1>1. /\ \A x \in Q : t[x] = s[p[x]] /\ p[x] \in P
      /\ \A x, y \in Q : x < y => p[x] < p[y]
      /\ \A k \in P : \E x \in Q : p[x] = k
  BY DEF TakenBy
<1>2. ASSUME NEW x \in Q, NEW y \in Q, p[x] <= p[y] PROVE x <= y
  <2> SUFFICES ASSUME y < x PROVE FALSE
    OBVIOUS
  <2>1. p[y] < p[x] /\ p[x] \in Nat /\ p[y] \in Nat
    BY <1>1
  <2> QED BY <1>2, <2>1
<1>3. ASSUME NEW x \in Q, NEW y \in Q, FenceIn(s, P, p[x], p[y]) PROVE FenceIn(t, Q, x, y)
  <2>1. PICK k \in P : p[x] <= k /\ k <= p[y] /\ s[k].op = "sync"
    BY <1>3 DEF FenceIn
  <2>2. PICK n \in Q : p[n] = k
    BY <1>1
  <2>3. x <= n /\ n <= y /\ t[n].op = "sync"
    BY <1>1, <1>2, <2>1, <2>2
  <2> QED BY <2>3 DEF FenceIn
<1>4. ASSUME Fenced(s, P) PROVE Fenced(t, Q)
  <2> SUFFICES ASSUME NEW x \in Q, NEW y \in Q, x < y, ~FenceIn(t, Q, x, y)
               PROVE  /\ t[y].op = "load"
                      /\ t[x].op = "store" \/ (t[x].op = "load" /\ t[x].sram # t[y].sram)
    BY DEF Fenced
  <2>1. p[x] \in P /\ p[y] \in P /\ p[x] < p[y] /\ ~FenceIn(s, P, p[x], p[y])
    BY <1>1, <1>3
  <2> PICK c, d : c = p[x] /\ d = p[y]
    OBVIOUS
  <2>2. s[d].op = "load" /\ (s[c].op = "store" \/ (s[c].op = "load" /\ s[c].sram # s[d].sram))
    BY <1>4, <2>1 DEF Fenced
  <2>3. t[x] = s[c] /\ t[y] = s[d]
    BY <1>1
  <2> QED BY <2>2, <2>3
<1>5. ASSUME Opens(s, P) PROVE Opens(t, Q)
  <2> SUFFICES ASSUME NEW y \in Q, t[y].op # "load" PROVE \E k \in Q : k <= y /\ t[k].op = "sync"
    BY DEF Opens
  <2>1. PICK k \in P : k <= p[y] /\ s[k].op = "sync"
    BY <1>1, <1>5 DEF Opens
  <2>2. PICK n \in Q : p[n] = k
    BY <1>1
  <2> QED BY <1>1, <1>2, <2>1, <2>2
<1>6. ASSUME Closes(s, P) PROVE Closes(t, Q)
  <2> SUFFICES ASSUME NEW x \in Q, t[x].op # "store" PROVE \E k \in Q : x <= k /\ t[k].op = "sync"
    BY DEF Closes
  <2>1. PICK k \in P : p[x] <= k /\ s[k].op = "sync"
    BY <1>1, <1>6 DEF Closes
  <2>2. PICK n \in Q : p[n] = k
    BY <1>1
  <2> QED BY <1>1, <1>2, <2>1, <2>2
<1> QED BY <1>4, <1>5, <1>6

\* A list that closes, then one that opens.
LEMMA FencesJoin ==
  ASSUME NEW s, NEW t, IsList(s), IsList(t), NEW u, u = s \o t,
         Fenced(s, 1 .. Len(s)), Closes(s, 1 .. Len(s)),
         Fenced(t, 1 .. Len(t)), Opens(t, 1 .. Len(t)), Closes(t, 1 .. Len(t))
  PROVE  Fenced(u, 1 .. Len(u)) /\ Closes(u, 1 .. Len(u))
<1> PICK S, T, U : S = 1 .. Len(s) /\ T = 1 .. Len(t) /\ U = 1 .. Len(u)
  OBVIOUS
<1>0. Fenced(s, S) /\ Closes(s, S) /\ Fenced(t, T) /\ Opens(t, T) /\ Closes(t, T)
  OBVIOUS
<1> PICK m, n : m = Len(s) /\ n = Len(t)
  OBVIOUS
<1>1. /\ IsList(u) /\ m \in Nat /\ n \in Nat /\ Len(u) = m + n
      /\ \A k \in S : u[k] = s[k]
      /\ \A k \in T : u[m + k] = t[k]
  BY Joining
<1>2. S = 1 .. m /\ T = 1 .. n /\ U = 1 .. m + n
  BY <1>1
<1>3. \A k \in U : k \in S \/ (k - m \in T /\ k = m + (k - m))
  BY <1>1, <1>2
<1>4. (\A k \in S : k \in U) /\ \A k \in T : m + k \in U /\ m + k > m
  BY <1>1, <1>2
<1>5. ASSUME NEW x \in U, NEW y \in U, x < y, ~FenceIn(u, U, x, y)
      PROVE  /\ u[y].op = "load"
             /\ u[x].op = "store" \/ (u[x].op = "load" /\ u[x].sram # u[y].sram)
  <2>1. CASE x \in S /\ y \in S
    <3>1. ~FenceIn(s, S, x, y)
      BY <1>1, <1>4, <1>5 DEF FenceIn
    <3> QED BY <1>0, <1>1, <1>5, <2>1, <3>1 DEF Fenced
  <2>2. CASE x \in S /\ y \notin S
    <3> PICK b : b = y - m
      OBVIOUS
    <3>1. b \in T /\ y = m + b
      BY <1>3, <2>2
    <3>2. ASSUME NEW k \in S, x <= k, s[k].op = "sync" PROVE FALSE
      <4>1. k \in U /\ k <= y /\ u[k].op = "sync"
        BY <1>1, <1>2, <1>4, <3>1, <3>2
      <4> QED BY <1>5, <3>2, <4>1 DEF FenceIn
    <3>3. ASSUME NEW k \in T, k <= b, t[k].op = "sync" PROVE FALSE
      <4>1. x \in Int /\ x <= m /\ k \in Int /\ k >= 1 /\ b \in Int
        BY <1>1, <1>2, <2>2, <3>1
      <4>2. x <= m + k /\ m + k <= y
        BY <1>1, <3>1, <3>3, <4>1
      <4>3. m + k \in U /\ u[m + k].op = "sync"
        BY <1>1, <1>4, <3>3
      <4> QED BY <1>5, <4>2, <4>3 DEF FenceIn
    <3>4. s[x].op = "store"
      BY <1>0, <2>2, <3>2 DEF Closes
    <3>5. t[b].op = "load"
      BY <1>0, <3>1, <3>3 DEF Opens
    <3> QED BY <1>1, <2>2, <3>1, <3>4, <3>5
  <2>3. CASE x \notin S
    <3> PICK a, b : a = x - m /\ b = y - m
      OBVIOUS
    <3>1. a \in T /\ b \in T /\ x = m + a /\ y = m + b /\ a < b
      BY <1>1, <1>2, <1>3, <1>5, <2>3
    <3>2. ~FenceIn(t, T, a, b)
      <4> SUFFICES ASSUME NEW k \in T, a <= k, k <= b, t[k].op = "sync" PROVE FALSE
        BY DEF FenceIn
      <4>1. m + k \in U /\ x <= m + k /\ m + k <= y /\ u[m + k].op = "sync"
        BY <1>1, <1>2, <1>4, <3>1
      <4> QED BY <1>5, <4>1 DEF FenceIn
    <3>3. t[b].op = "load" /\ (t[a].op = "store" \/ (t[a].op = "load" /\ t[a].sram # t[b].sram))
      BY <1>0, <3>1, <3>2 DEF Fenced
    <3> QED BY <1>1, <3>1, <3>3
  <2> QED BY <2>1, <2>2, <2>3
<1>6. ASSUME NEW x \in U, u[x].op # "store" PROVE \E k \in U : x <= k /\ u[k].op = "sync"
  <2>1. CASE x \in S
    <3>1. PICK k \in S : x <= k /\ s[k].op = "sync"
      BY <1>0, <1>1, <1>6, <2>1 DEF Closes
    <3> QED BY <1>1, <1>4, <3>1
  <2>2. CASE x \notin S
    <3> PICK a : a = x - m
      OBVIOUS
    <3>1. a \in T /\ x = m + a
      BY <1>3, <2>2
    <3>2. PICK k \in T : a <= k /\ t[k].op = "sync"
      BY <1>0, <1>1, <1>6, <3>1 DEF Closes
    <3>3. m + k \in U /\ x <= m + k /\ u[m + k].op = "sync"
      BY <1>1, <1>2, <1>4, <3>1, <3>2, SMTT(30)
    <3> QED BY <3>3
  <2> QED BY <2>1, <2>2
<1> QED BY <1>1, <1>5, <1>6 DEF Fenced, Closes

-----------------------------------------------------------------------------
(* The code of one operation of the function.                              *)

\* A load of operation j, recognised as l, into its own SRAM.
OpLoad(o, l, j) ==
  \E y \in 1 .. Len(l.ins) : \E part, w :
    /\ o = Load(j, l.ins[y], part, w, <<j, y>>)
    /\ IF l.kind = "matmul" THEN w \in Nat \ {0} /\ <<y, part>> \in {<<1, "cols">>, <<2, "rows">>}
       ELSE part = "whole"

\* What is left of operation j.
LeftOf(u, E, j) == {k \in 1 .. Len(u) : k \notin E /\ u[k].at = j}

Ready(u, E, l, j) ==
  LET P == LeftOf(u, E, j)
  IN  /\ Fenced(u, P) /\ Opens(u, P) /\ Closes(u, P)
      /\ \A k \in P : u[k].op = "load" => OpLoad(u[k], l, j)

\* Operation k of u loads operand y of l as a whole.
LoadsOperand(u, l, j, k, y) ==
  y \in 1 .. Len(l.ins) /\ u[k] = Load(j, l.ins[y], "whole", 0, <<j, y>>)

LEMMA WholeReady ==
  ASSUME NEW u, IsList(u), NEW E, OnlyMoves(u, E), NEW l, Len(l.ins) \in 1 .. 2,
         l.kind # "matmul", NEW j, NEW a, WholeAt(u, E, l, j, a)
  PROVE  Ready(u, E, l, j)
<1> PICK n, P : n = Len(l.ins) /\ P = LeftOf(u, E, j)
  OBVIOUS
<1>1. n \in 1 .. 2 /\ a \in Nat /\ a + (n + 4) <= Len(u) /\ Len(u) \in Nat
  BY ListOf DEF WholeAt, LiesAt, IsList
<1>2. \A k \in P : k \in a + 1 .. a + (n + 4) /\ k \notin E
  BY DEF WholeAt, LiesAt, LeftOf
<1>3. \A y \in 1 .. n : a + y \notin E => u[a + y] = Load(j, l.ins[y], "whole", 0, <<j, y>>)
  BY DEF WholeAt
<1>4. /\ u[a + (n + 1)] = Sync(j) /\ u[a + (n + 3)] = Sync(j)
      /\ \E part : u[a + (n + 4)] = Store(j, <<j, n + 1>>, l.out, part)
      /\ u[a + (n + 2)] = Compute(j, l, u[a + (n + 2)].srcs, <<j, n + 1>>, FALSE)
  BY DEF WholeAt
<1>5. /\ u[a + (n + 1)].op = "sync" /\ u[a + (n + 3)].op = "sync" /\ u[a + (n + 4)].op = "store"
      /\ u[a + (n + 1)].at = j /\ u[a + (n + 3)].at = j /\ u[a + (n + 2)].op = "compute"
  BY <1>4 DEF Sync, Store, Compute
<1>6. a + (n + 1) \in P /\ a + (n + 3) \in P
  <2>1. a + (n + 1) \notin E /\ a + (n + 3) \notin E
    BY <1>5 DEF OnlyMoves
  <2>2. a + (n + 1) \in 1 .. Len(u) /\ a + (n + 3) \in 1 .. Len(u)
    BY <1>1
  <2> QED BY <1>5, <2>1, <2>2 DEF LeftOf
<1>7. ASSUME NEW k \in P
      PROVE  \/ LoadsOperand(u, l, j, k, k - a)
             \/ k = a + (n + 1) \/ k = a + (n + 2) \/ k = a + (n + 3) \/ k = a + (n + 4)
  <2> PICK y : y = k - a
    OBVIOUS
  <2>1. k \in a + 1 .. a + (n + 4) /\ k \notin E
    BY <1>2
  <2>2. /\ k = a + y
        /\ y \in 1 .. n \/ y = n + 1 \/ y = n + 2 \/ y = n + 3 \/ y = n + 4
    <3>1. k \in Nat /\ a + 1 <= k /\ k <= a + (n + 4)
      BY <1>1, <2>1
    <3>2. y \in Nat /\ k = a + y /\ 1 <= y /\ y <= n + 4 /\ n \in Nat
      BY <1>1, <3>1
    <3> QED BY <3>2
  <2>3. y \in 1 .. n => LoadsOperand(u, l, j, k, y)
    BY <1>3, <2>1, <2>2 DEF LoadsOperand
  <2> QED BY <2>2, <2>3
<1>8. \A k \in P : k \in Nat /\ (k - a \in 1 .. n => u[k].op = "load" /\ u[k].sram = <<j, k - a>>)
  <2>1. \A k \in P : k \in Nat
    BY <1>1, <1>2
  <2>2. ASSUME NEW k \in P, k - a \in 1 .. n PROVE u[k].op = "load" /\ u[k].sram = <<j, k - a>>
    <3>1. k # a + (n + 1) /\ k # a + (n + 2) /\ k # a + (n + 3) /\ k # a + (n + 4)
      BY <1>1, <1>2, <2>2
    <3>2. LoadsOperand(u, l, j, k, k - a)
      BY <1>7, <3>1
    <3> QED BY <3>2 DEF LoadsOperand, Load
  <2> QED BY <2>1, <2>2
<1>9. Fenced(u, P)
  <2> SUFFICES ASSUME NEW x \in P, NEW y \in P, x < y, ~FenceIn(u, P, x, y)
               PROVE  /\ u[y].op = "load"
                      /\ u[x].op = "store" \/ (u[x].op = "load" /\ u[x].sram # u[y].sram)
    BY DEF Fenced
  <2>1. ~(x <= a + (n + 1) /\ a + (n + 1) <= y) /\ ~(x <= a + (n + 3) /\ a + (n + 3) <= y)
    BY <1>5, <1>6 DEF FenceIn
  <2>2. x - a \in 1 .. n /\ y - a \in 1 .. n
    <3>1. x \in a + 1 .. a + (n + 4) /\ y \in a + 1 .. a + (n + 4)
      BY <1>2
    <3> QED BY <1>1, <2>1, <3>1
  <2>3. /\ u[x].op = "load" /\ u[x].sram = <<j, x - a>>
        /\ u[y].op = "load" /\ u[y].sram = <<j, y - a>>
    BY <1>8, <2>2
  <2>4. x - a # y - a
    BY <1>1, <1>8
  <2> QED BY <2>3, <2>4
<1>10. Opens(u, P)
  <2> SUFFICES ASSUME NEW y \in P, u[y].op # "load" PROVE \E k \in P : k <= y /\ u[k].op = "sync"
    BY DEF Opens
  <2>1. y - a \notin 1 .. n
    BY <1>8
  <2>2. a + (n + 1) <= y
    BY <1>1, <1>2, <2>1
  <2> QED BY <1>5, <1>6, <2>2
<1>11. Closes(u, P)
  <2> SUFFICES ASSUME NEW x \in P, u[x].op # "store" PROVE \E k \in P : x <= k /\ u[k].op = "sync"
    BY DEF Closes
  <2>1. x # a + (n + 4)
    BY <1>5
  <2>2. x <= a + (n + 3)
    BY <1>1, <1>2, <2>1
  <2> QED BY <1>5, <1>6, <2>2
<1>12. ASSUME NEW k \in P, u[k].op = "load" PROVE OpLoad(u[k], l, j)
  <2> PICK y : y = k - a
    OBVIOUS
  <2>1. LoadsOperand(u, l, j, k, y)
    BY <1>5, <1>7, <1>12
  <2> QED BY <2>1 DEF OpLoad, LoadsOperand
<1> QED BY <1>9, <1>10, <1>11, <1>12 DEF Ready

LEMMA TiledReady ==
  ASSUME NEW u, IsList(u), NEW E, OnlyMoves(u, E), NEW sh, NEW l, Len(l.ins) = 2, l.kind = "matmul",
         TilesOf(sh, l) \in Nat \ {0}, NEW j, NEW a, TiledAt(u, sh, l, j, a)
  PROVE  Ready(u, E, l, j)
<1> PICK T, P, t : T = TilesOf(sh, l) /\ P = LeftOf(u, E, j) /\ t = LowerMatmul(sh, l, j)
  OBVIOUS
<1>1. T \in Nat \ {0} /\ ListsTiles(t, T, l, j)
  BY TiledSteps
<1>2. /\ Len(t) = 5 * T + 1 /\ t[5 * T + 1] = Store(j, <<j, 3>>, l.out, "whole")
      /\ \A w \in 1 .. T, k \in 1 .. 5 : t[5 * (w - 1) + k] = TileStep(l, j, w, k)
  BY <1>1 DEF ListsTiles
<1>3. LiesAt(u, j, a, 5 * T + 1) /\ \A x \in 1 .. 5 * T + 1 : u[a + x] = t[x]
  BY <1>2 DEF TiledAt
<1>4. a \in Nat /\ a + (5 * T + 1) <= Len(u) /\ Len(u) \in Nat
  BY <1>1, <1>3, ListOf DEF LiesAt, IsList
<1>5. u[a + (5 * T + 1)].op = "store"
  <2>1. 5 * T + 1 \in 1 .. 5 * T + 1
    BY <1>1
  <2>2. u[a + (5 * T + 1)] = Store(j, <<j, 3>>, l.out, "whole")
    BY <1>2, <1>3, <2>1
  <2> QED BY <2>2 DEF Store
<1>6. ASSUME NEW w \in 1 .. T, NEW k \in 1 .. 5
      PROVE  /\ u[a + (5 * (w - 1) + k)] = TileStep(l, j, w, k)
             /\ a + (5 * (w - 1) + k) \in a + 1 .. a + (5 * T + 1)
             /\ a + (5 * (w - 1) + k) \in 1 .. Len(u)
  <2> PICK x : x = 5 * (w - 1) + k
    OBVIOUS
  <2>1. x \in 1 .. 5 * T + 1
    BY <1>1
  <2>2. u[a + x] = t[x] /\ t[x] = TileStep(l, j, w, k)
    BY <1>2, <1>3, <2>1
  <2> QED BY <1>1, <1>4, <2>1, <2>2
\* The two fences of every tile.
<1>7. ASSUME NEW w \in 1 .. T, NEW k \in {3, 5}
      PROVE  a + (5 * (w - 1) + k) \in P /\ u[a + (5 * (w - 1) + k)].op = "sync"
  <2> PICK x : x = a + (5 * (w - 1) + k)
    OBVIOUS
  <2>1. k \in 1 .. 5
    OBVIOUS
  <2>2. u[x] = TileStep(l, j, w, k) /\ x \in 1 .. Len(u)
    BY <1>6, <2>1
  <2>3. u[x] = Sync(j)
    BY <2>2 DEF TileStep
  <2>4. u[x].op = "sync" /\ u[x].at = j
    BY <2>3 DEF Sync
  <2>5. x \notin E
    BY <2>4 DEF OnlyMoves
  <2> QED BY <2>2, <2>4, <2>5 DEF LeftOf
\* Every other position is a load, a product, or the store.
<1>8. ASSUME NEW x \in P
      PROVE  x = a + (5 * T + 1) \/ \E w \in 1 .. T, k \in 1 .. 5 : x = a + (5 * (w - 1) + k)
  <2>1. x \in a + 1 .. a + (5 * T + 1)
    BY <1>3 DEF LeftOf, LiesAt
  <2> PICK d : d = x - a - 1
    OBVIOUS
  <2>2. d \in 0 .. 5 * T /\ x = a + (d + 1)
    BY <1>1, <1>4, <2>1
  <2>3. CASE d = 5 * T
    BY <2>2, <2>3
  <2>4. CASE d # 5 * T
    <3> PICK w, k : w = 1 + (d \div 5) /\ k = 1 + (d % 5)
      OBVIOUS
    <3>1. w \in 1 .. T /\ k \in 1 .. 5 /\ d + 1 = 5 * (w - 1) + k
      BY <1>1, <2>2, <2>4
    <3> QED BY <2>2, <3>1
  <2> QED BY <2>3, <2>4
<1>9. ASSUME NEW w \in 1 .. T, NEW k \in {1, 2}, NEW x, x = a + (5 * (w - 1) + k)
      PROVE  u[x].op = "load" /\ u[x].sram = <<j, k>> /\ OpLoad(u[x], l, j)
  <2> PICK part : part = IF k = 1 THEN "cols" ELSE "rows"
    OBVIOUS
  <2>1. k \in 1 .. 5 /\ k \in 1 .. Len(l.ins)
    OBVIOUS
  <2>2. u[x] = TileStep(l, j, w, k)
    BY <1>6, <1>9, <2>1
  <2>3. u[x] = Load(j, l.ins[k], part, w, <<j, k>>)
    BY <2>2 DEF TileStep
  <2>4. w \in Nat \ {0} /\ <<k, part>> \in {<<1, "cols">>, <<2, "rows">>}
    BY <1>1
  <2>5. u[x].op = "load" /\ u[x].sram = <<j, k>>
    BY <2>3 DEF Load
  <2>6. OpLoad(u[x], l, j)
    BY <2>1, <2>3, <2>4 DEF OpLoad
  <2> QED BY <2>5, <2>6
<1>10. \A x \in P : x \in Nat /\ x <= a + (5 * T + 1) /\ x >= a + 1
  BY <1>1, <1>3, <1>4 DEF LeftOf, LiesAt
<1>11. Fenced(u, P)
  <2> SUFFICES ASSUME NEW x \in P, NEW y \in P, x < y, ~FenceIn(u, P, x, y)
               PROVE  /\ u[y].op = "load"
                      /\ u[x].op = "store" \/ (u[x].op = "load" /\ u[x].sram # u[y].sram)
    BY DEF Fenced
  <2>1. \A w \in 1 .. T, k \in {3, 5} :
          ~(x <= a + (5 * (w - 1) + k) /\ a + (5 * (w - 1) + k) <= y)
    BY <1>7 DEF FenceIn
  <2>2. x # a + (5 * T + 1)
    BY <1>10
  <2>3. PICK w \in 1 .. T, k \in 1 .. 5 : x = a + (5 * (w - 1) + k)
    BY <1>8, <2>2
  <2>4. /\ ~(x <= a + (5 * (w - 1) + 3) /\ a + (5 * (w - 1) + 3) <= y)
        /\ ~(x <= a + (5 * (w - 1) + 5) /\ a + (5 * (w - 1) + 5) <= y)
    BY <2>1
  <2>5. w \in Nat /\ k \in Nat /\ y \in Nat /\ a \in Nat
    BY <1>1, <1>4, <1>10
  <2>6. x = a + (5 * (w - 1) + 1) /\ y = a + (5 * (w - 1) + 2)
    BY <2>3, <2>4, <2>5
  <2>7. /\ u[x].op = "load" /\ u[x].sram = <<j, 1>>
        /\ u[y].op = "load" /\ u[y].sram = <<j, 2>>
    BY <1>9, <2>6
  <2> QED BY <2>7
<1>12. Opens(u, P)
  <2> SUFFICES ASSUME NEW y \in P, u[y].op # "load" PROVE \E k \in P : k <= y /\ u[k].op = "sync"
    BY DEF Opens
  <2>1. 1 \in 1 .. T
    BY <1>1
  <2>2. a + (5 * (1 - 1) + 3) \in P /\ u[a + (5 * (1 - 1) + 3)].op = "sync"
    BY <1>7, <2>1
  <2>3. y >= a + 3
    <3>1. CASE y = a + (5 * T + 1)
      BY <1>1, <1>4, <3>1
    <3>2. CASE \E w \in 1 .. T, k \in 1 .. 5 : y = a + (5 * (w - 1) + k)
      <4> PICK w \in 1 .. T, k \in 1 .. 5 : y = a + (5 * (w - 1) + k)
        BY <3>2
      <4>1. k # 1 /\ k # 2
        BY <1>9
      <4> QED BY <1>1, <1>4, <4>1
    <3> QED BY <1>8, <3>1, <3>2
  <2> QED BY <1>4, <2>2, <2>3
<1>13. Closes(u, P)
  <2> SUFFICES ASSUME NEW x \in P, u[x].op # "store" PROVE \E k \in P : x <= k /\ u[k].op = "sync"
    BY DEF Closes
  <2>1. T \in 1 .. T
    BY <1>1
  <2>2. a + (5 * (T - 1) + 5) \in P /\ u[a + (5 * (T - 1) + 5)].op = "sync"
    BY <1>7, <2>1
  <2>3. x <= a + (5 * (T - 1) + 5)
    <3>1. x # a + (5 * T + 1)
      BY <1>5
    <3>2. x \in Nat /\ x <= a + (5 * T + 1)
      BY <1>10
    <3> QED BY <1>1, <1>4, <3>1, <3>2, SMTT(30)
  <2> QED BY <2>2, <2>3
<1>14. ASSUME NEW x \in P, u[x].op = "load" PROVE OpLoad(u[x], l, j)
  <2>1. PICK w \in 1 .. T, k \in 1 .. 5 : x = a + (5 * (w - 1) + k)
    BY <1>5, <1>8, <1>14
  <2>2. u[x] = TileStep(l, j, w, k)
    BY <1>6, <2>1
  <2>3. k \in {1, 2}
    <3>1. k \in {3, 5} => u[x].op = "sync"
      BY <1>7, <2>1
    <3>2. k = 4 => u[x].op = "compute"
      BY <2>2 DEF TileStep, Compute
    <3> QED BY <1>14, <3>1, <3>2
  <2> QED BY <1>9, <2>1, <2>3
<1> QED BY <1>11, <1>12, <1>13, <1>14 DEF Ready

-----------------------------------------------------------------------------
(* The code, its loops unrolled.                                           *)

\* An operation that is left, and, if a load, one into its own SRAM.
IsLeft(o) == \E n \in DOMAIN Remaining : Remaining[n] = o
Ordinary(o) ==
  IsLeft(o) /\ (o.op = "load" => o.at \in 1 .. Len(low) /\ OpLoad(o, low[o.at], o.at))

Orderly(t) ==
  /\ IsList(t) /\ Fenced(t, 1 .. Len(t)) /\ Closes(t, 1 .. Len(t))
  /\ \A k \in 1 .. Len(t) : Ordinary(t[k])

LEMMA OrderlyJoin ==
  ASSUME NEW s, NEW t, Orderly(s), Orderly(t), Opens(t, 1 .. Len(t)), NEW u, u = s \o t
  PROVE  Orderly(u)
<1> PICK m, n : m = Len(s) /\ n = Len(t)
  OBVIOUS
<1>1. IsList(s) /\ IsList(t)
  BY DEF Orderly
<1>2. /\ IsList(u) /\ m \in Nat /\ n \in Nat /\ Len(u) = m + n
      /\ \A x \in 1 .. m : u[x] = s[x]
      /\ \A x \in 1 .. n : u[m + x] = t[x]
  BY <1>1, Joining
<1>3. /\ Fenced(s, 1 .. Len(s)) /\ Closes(s, 1 .. Len(s))
      /\ Fenced(t, 1 .. Len(t)) /\ Opens(t, 1 .. Len(t)) /\ Closes(t, 1 .. Len(t))
  BY DEF Orderly
<1>4. Fenced(u, 1 .. Len(u)) /\ Closes(u, 1 .. Len(u))
  BY <1>1, <1>3, FencesJoin
<1>5. ASSUME NEW k \in 1 .. m + n PROVE Ordinary(u[k])
  <2> PICK x : x = k - m
    OBVIOUS
  <2>1. k \in 1 .. m \/ (x \in 1 .. n /\ k = m + x)
    BY <1>2
  <2>2. CASE k \in 1 .. m
    BY <1>2, <2>2 DEF Orderly
  <2>3. CASE x \in 1 .. n /\ k = m + x
    BY <1>2, <2>3 DEF Orderly
  <2> QED BY <2>1, <2>2, <2>3
<1> QED BY <1>2, <1>4, <1>5 DEF Orderly

LEMMA SectionReady ==
  ASSUME CodeInv, NEW j \in 1 .. Len(low)
  PROVE  Ready(ir, erased, low[j], j)
<1> PICK l : l = low[j]
  OBVIOUS
<1>1. Offered(low, func) /\ IsList(ir) /\ OnlyMoves(ir, erased)
  BY DEF CodeInv, AllOffered, ChainInv, ElideInv, Listing, Moving
<1>2. /\ Len(l.ins) \in 1 .. 2
      /\ l.kind = "matmul" => TilesOf(func.shape, l) \in Nat \ {0} /\ Len(l.ins) = 2
  BY <1>1, OfferedIs
<1>3. PICK a : IF l.kind = "matmul" THEN TiledAt(ir, func.shape, l, j, a)
               ELSE WholeBlock(ir, erased, matchList, low, j, a)
  BY DEF CodeInv, Blocks, BlockOf
<1>4. CASE l.kind = "matmul"
  BY <1>1, <1>2, <1>3, <1>4, TiledReady
<1>5. CASE l.kind # "matmul"
  <2>1. WholeAt(ir, erased, l, j, a)
    BY <1>3, <1>5 DEF WholeBlock
  <2> QED BY <1>1, <1>2, <1>5, <2>1, WholeReady
<1> QED BY <1>4, <1>5

LEMMA SectionOrderly ==
  ASSUME CodeInv, NEW j \in 1 .. Len(low), NEW t, t = Section(Remaining, j)
  PROVE  Orderly(t) /\ Opens(t, 1 .. Len(t))
<1> PICK P, Q : P = LeftOf(ir, erased, j) /\ Q = 1 .. Len(t)
  OBVIOUS
<1>1. IsList(ir)
  BY DEF CodeInv, ChainInv, ElideInv, Listing
<1>2. Taken(t, ir, P)
  BY <1>1, SectionTakes DEF LeftOf, Remaining
<1>3. Ready(ir, erased, low[j], j)
  BY SectionReady
<1>4. P \subseteq Nat
  BY DEF LeftOf
<1>5. Fenced(t, Q) /\ Opens(t, Q) /\ Closes(t, Q)
  <2>1. Fenced(ir, P) /\ Opens(ir, P) /\ Closes(ir, P)
    BY <1>3 DEF Ready
  <2> QED BY <1>2, <1>4, <2>1, FencesTaken
<1> PICK p : TakenBy(p, t, ir, P)
  BY <1>2 DEF Taken
<1>6. \A x \in Q : t[x] = ir[p[x]] /\ p[x] \in P
  BY DEF TakenBy
<1>7. Taken(Remaining, ir, (1 .. Len(ir)) \ erased)
  BY <1>1, WithoutTakes DEF Remaining
<1>8. ASSUME NEW x \in Q PROVE Ordinary(t[x])
  <2> PICK k : k = p[x]
    OBVIOUS
  <2>1. t[x] = ir[k] /\ k \in P /\ k \in (1 .. Len(ir)) \ erased /\ ir[k].at = j
    BY <1>6 DEF LeftOf
  <2>2. PICK q : TakenBy(q, Remaining, ir, (1 .. Len(ir)) \ erased)
    BY <1>7 DEF Taken
  <2>3. PICK n \in 1 .. Len(Remaining) : q[n] = k
    BY <2>1, <2>2 DEF TakenBy
  <2>4. Remaining[n] = ir[k]
    BY <2>2, <2>3 DEF TakenBy
  <2>5. n \in DOMAIN Remaining
    BY <1>7, ListOf DEF Taken, IsList
  <2>6. ir[k].op = "load" => OpLoad(ir[k], low[j], j)
    BY <1>3, <2>1 DEF Ready
  <2> QED BY <2>1, <2>4, <2>5, <2>6 DEF Ordinary, IsLeft
<1> QED BY <1>2, <1>5, <1>8 DEF Orderly, Taken

LEMMA CodeOrderly ==
  ASSUME CodeInv, phase = "allocate"
  PROVE  Orderly(Code)
<1> PICK ord, list : ord = Order(func) /\ list = Remaining
  OBVIOUS
<1>1. func \in Functions /\ Len(low) = Len(func.ops) /\ IsList(ir)
  BY DEF CodeInv, ChainInv, ElideInv, Listing, Recognition
<1>2. IsList(ord) /\ \A k \in 1 .. Len(ord) : ord[k] \in 1 .. Len(low)
  BY <1>1, Ordering
<1> PICK T : T = RangeOf(list)
  OBVIOUS
<1>3. list \in Seq(T)
  BY <1>1, WithoutTakes DEF Taken, IsList, Remaining
<1>4. PICK g : Unrolling(g, func, ord, list, T)
  BY <1>2, <1>3, UnrolledIs
<1> PICK z : z = Len(ord)
  OBVIOUS
<1>5. z \in Nat
  BY <1>2, ListOf DEF IsList
<1> DEFINE S == {n \in Nat : n <= z => Orderly(g[n])}
<1>6. 0 \in S
  <2> PICK e : e = g[0]
    OBVIOUS
  <2>1. e \in Seq({}) /\ Len(e) = 0
    BY <1>4 DEF Unrolling
  <2>2. IsList(e) /\ 1 .. Len(e) = {}
    BY <2>1, ListOf
  <2>3. Fenced(e, {}) /\ Closes(e, {})
    BY DEF Fenced, Closes
  <2>4. Orderly(e)
    BY <2>2, <2>3 DEF Orderly
  <2> QED BY <2>4
<1>7. ASSUME NEW i \in Nat, i \in S PROVE i + 1 \in S
  <2> SUFFICES ASSUME i + 1 <= z PROVE Orderly(g[i + 1])
    OBVIOUS
  <2> PICK s, t, u : s = g[i] /\ t = Section(list, ord[i + 1]) /\ u = g[i + 1]
    OBVIOUS
  <2>1. i + 1 \in 1 .. z /\ (i + 1) - 1 = i /\ i <= z
    BY <1>5
  <2>2. u = s \o t /\ Orderly(s)
    BY <1>4, <1>7, <2>1 DEF Unrolling
  <2>3. Orderly(t) /\ Opens(t, 1 .. Len(t))
    BY <1>2, <2>1, SectionOrderly
  <2> QED BY <2>2, <2>3, OrderlyJoin
<1>8. \A n \in Nat : n \in S
  <2> HIDE DEF S
  <2> QED BY <1>6, <1>7, Induction
<1>9. Orderly(g[z])
  BY <1>5, <1>8
<1> QED BY <1>4, <1>9 DEF Code, Unrolling

-----------------------------------------------------------------------------
(* The lists the allocator is given.                                       *)

\* A finite set as a list: every element once.
LEMMA ListOfSet ==
  ASSUME NEW S, IsFiniteSet(S), NEW q, q = SetToSeq(S)
  PROVE  /\ IsList(q) /\ Cardinality(S) \in Nat /\ Len(q) = Cardinality(S)
         /\ DOMAIN q = 1 .. Len(q)
         /\ \A n \in 1 .. Len(q) : q[n] \in S
         /\ \A s \in S : \E n \in 1 .. Len(q) : q[n] = s
<1> PICK m : m = Cardinality(S)
  OBVIOUS
<1>1. m \in Nat /\ ExistsBijection(1 .. m, S)
  BY FS_CardinalityType
<1>2. \E f \in [1 .. m -> S] : IsInjective(f)
  BY <1>1 DEF ExistsBijection, Bijection, Injection
<1>3. q \in [1 .. m -> S] /\ IsInjective(q)
  BY <1>2 DEF SetToSeq
<1>4. IsFiniteSet(1 .. m) /\ Cardinality(1 .. m) = m
  BY <1>1, FS_Interval
<1>5. q \in Surjection(1 .. m, S)
  BY <1>3, <1>4, FS_Injection DEF Injection
<1>6. q \in Seq(S) /\ Len(q) = m
  BY <1>1, <1>3
<1> QED BY <1>1, <1>5, <1>6, ListOf DEF Surjection

\* What is taken of a list is no longer than the list.
LEMMA TakenLength ==
  ASSUME NEW t, NEW s, NEW P, IsList(s), P \subseteq 1 .. Len(s), Taken(t, s, P)
  PROVE  Len(t) \in Nat /\ Len(s) \in Nat /\ Len(t) <= Len(s)
<1> PICK p : TakenBy(p, t, s, P)
  BY DEF Taken
<1> PICK m, z : m = Len(t) /\ z = Len(s)
  OBVIOUS
<1>1. m \in Nat /\ z \in Nat
  BY ListOf DEF Taken, IsList
<1>2. (\A x \in 1 .. m : p[x] \in 1 .. z) /\ \A x, y \in 1 .. m : x < y => p[x] < p[y]
  BY DEF TakenBy
<1> DEFINE S == {n \in Nat : n \in 1 .. m => n <= p[n]}
<1>3. 0 \in S
  OBVIOUS
<1>4. ASSUME NEW n \in Nat, n \in S PROVE n + 1 \in S
  <2> SUFFICES ASSUME n + 1 \in 1 .. m PROVE n + 1 <= p[n + 1]
    OBVIOUS
  <2>1. p[n + 1] \in Nat /\ p[n + 1] >= 1
    BY <1>2
  <2>2. CASE n = 0
    BY <2>1, <2>2
  <2>3. CASE n # 0
    <3>1. n \in 1 .. m /\ p[n] \in Nat
      BY <1>1, <1>2, <2>3
    <3>2. p[n] < p[n + 1] /\ n <= p[n]
      BY <1>2, <1>4, <3>1
    <3> QED BY <2>1, <3>1, <3>2
  <2> QED BY <2>2, <2>3
<1>5. \A n \in Nat : n \in S
  <2> HIDE DEF S
  <2> QED BY <1>3, <1>4, Induction
<1>6. CASE m = 0
  BY <1>1, <1>6
<1>7. CASE m # 0
  <2>1. m \in 1 .. m
    BY <1>1, <1>7
  <2>2. m <= p[m] /\ p[m] \in 1 .. z
    BY <1>1, <1>2, <1>5, <2>1
  <2> QED BY <1>1, <2>2
<1> QED BY <1>1, <1>6, <1>7

\* SRAM buffer y of operation i.
SramId(s) == \E i \in 1 .. Len(low) : \E y \in 1 .. Len(low[i].ins) + 1 : s = <<i, y>>

LEMMA HomeId ==
  ASSUME CodeInv, NEW j \in 1 .. Len(low)
  PROVE  SramId(Home(low[j], j))
<1> PICK l : l = low[j]
  OBVIOUS
<1>1. Offered(low, func)
  BY DEF CodeInv, AllOffered
<1>2. Len(l.ins) \in 1 .. 2 /\ (l.kind = "matmul" => Len(l.ins) = 2)
  BY <1>1, OfferedIs
<1>3. CASE l.kind = "matmul"
  <2>1. 3 \in 1 .. Len(l.ins) + 1
    <3>1. Len(l.ins) = 2
      BY <1>2, <1>3
    <3> QED BY <3>1
  <2>2. Home(l, j) = <<j, 3>>
    BY <1>3 DEF Home
  <2> QED BY <2>1, <2>2 DEF SramId
<1>4. CASE l.kind # "matmul"
  <2> PICK n : n = Len(l.ins) + 1
    OBVIOUS
  <2>1. n \in 1 .. Len(l.ins) + 1
    BY <1>2
  <2>2. Home(l, j) = <<j, n>>
    BY <1>4 DEF Home
  <2> QED BY <2>1, <2>2 DEF SramId
<1> QED BY <1>3, <1>4

LEMMA WholeUses ==
  ASSUME CodeInv, NEW j \in 1 .. Len(low), low[j].kind # "matmul",
         NEW a, WholeBlock(ir, erased, matchList, low, j, a),
         NEW k \in 1 .. Len(ir), k \notin erased, ir[k].at = j, NEW s \in SramUsed(ir[k])
  PROVE  SramId(s)
<1> PICK l, n : l = low[j] /\ n = Len(l.ins)
  OBVIOUS
<1>1. n \in 1 .. 2 /\ IsList(ir)
  <2>1. Offered(low, func) /\ IsList(ir)
    BY DEF CodeInv, AllOffered, ChainInv, ElideInv, Listing
  <2> QED BY <2>1, OfferedIs
<1> PICK srcs : srcs = ir[a + (n + 2)].srcs
  OBVIOUS
<1>2. /\ WholeAt(ir, erased, l, j, a) /\ IsList(srcs)
      /\ \A y \in 1 .. n : Supply(ir, erased, matchList, low, j, y, a + y, srcs[y])
  BY DEF WholeBlock
<1>3. a \in Nat /\ a + (n + 4) <= Len(ir) /\ Len(ir) \in Nat /\ k \in a + 1 .. a + (n + 4)
  BY <1>1, <1>2, ListOf DEF WholeAt, LiesAt, IsList
<1>4. /\ \A y \in 1 .. n : a + y \notin erased => ir[a + y] = Load(j, l.ins[y], "whole", 0, <<j, y>>)
      /\ ir[a + (n + 1)] = Sync(j) /\ ir[a + (n + 3)] = Sync(j)
      /\ ir[a + (n + 2)] = Compute(j, l, srcs, <<j, n + 1>>, FALSE) /\ Len(srcs) = n
      /\ \E part : ir[a + (n + 4)] = Store(j, <<j, n + 1>>, l.out, part)
  BY <1>2 DEF WholeAt
<1>5. \A y \in 1 .. n + 1 : SramId(<<j, y>>)
  BY DEF SramId
<1>6. n + 1 \in 1 .. n + 1 /\ \A y \in 1 .. n : y \in 1 .. n + 1
  BY <1>1
<1>7. CASE k \in a + 1 .. a + n
  <2> PICK y : y = k - a
    OBVIOUS
  <2>1. y \in 1 .. n /\ k = a + y
    BY <1>1, <1>3, <1>7
  <2>2. ir[k] = Load(j, l.ins[y], "whole", 0, <<j, y>>)
    BY <1>4, <2>1
  <2>3. s = <<j, y>>
    BY <2>2 DEF SramUsed, Load
  <2> QED BY <1>5, <1>6, <2>1, <2>3
<1>8. CASE k = a + (n + 1) \/ k = a + (n + 3)
  <2>1. ir[k] = Sync(j)
    BY <1>4, <1>8
  <2> QED BY <2>1 DEF SramUsed, Sync
<1>9. CASE k = a + (n + 2)
  <2>1. ir[k] = Compute(j, l, srcs, <<j, n + 1>>, FALSE)
    BY <1>4, <1>9
  <2>2. s = <<j, n + 1>> \/ \E y \in DOMAIN srcs : s = srcs[y]
    BY <2>1 DEF SramUsed, Compute
  <2>3. DOMAIN srcs = 1 .. n
    <3>1. DOMAIN srcs = 1 .. Len(srcs)
      BY <1>2, ListOf DEF IsList
    <3> QED BY <1>4, <3>1
  <2>4. ASSUME NEW y \in 1 .. n PROVE SramId(srcs[y])
    <3> PICK x, b : x = a + y /\ b = srcs[y]
      OBVIOUS
    <3>1. Supply(ir, erased, matchList, low, j, y, x, b)
      BY <1>2
    <3>2. CASE x \in erased
      <4>1. PICK w \in 1 .. Len(matchList) :
              b = Home(low[ir[matchList[w].store].at], ir[matchList[w].store].at)
        BY <3>1, <3>2 DEF Supply
      <4>2. matchList[w].store \in 1 .. Len(ir)
        BY DEF CodeInv, ChainInv, ElideInv, Indexed
      <4>3. ir[matchList[w].store].at \in 1 .. Len(low)
        BY <4>2 DEF CodeInv, ChainInv, InOrder, OrderOf
      <4> QED BY <4>1, <4>3, HomeId
    <3>3. CASE x \notin erased
      <4>1. b = <<j, y>>
        BY <3>1, <3>3 DEF Supply
      <4> QED BY <1>5, <1>6, <4>1
    <3> QED BY <3>2, <3>3
  <2> QED BY <1>5, <1>6, <2>2, <2>3, <2>4
<1>10. CASE k = a + (n + 4)
  <2>1. PICK part : ir[k] = Store(j, <<j, n + 1>>, l.out, part)
    BY <1>4, <1>10
  <2>2. s = <<j, n + 1>>
    BY <2>1 DEF SramUsed, Store
  <2> QED BY <1>5, <1>6, <2>2
<1>11. k \in a + 1 .. a + n \/ k = a + (n + 1) \/ k = a + (n + 2) \/ k = a + (n + 3) \/ k = a + (n + 4)
  <2> PICK y : y = k - a
    OBVIOUS
  <2>1. y \in 1 .. n + 4 /\ k = a + y
    BY <1>1, <1>3
  <2>2. y \in 1 .. n \/ y = n + 1 \/ y = n + 2 \/ y = n + 3 \/ y = n + 4
    BY <1>1, <2>1
  <2>3. y \in 1 .. n => k \in a + 1 .. a + n
    BY <1>1, <1>3, <2>1
  <2> QED BY <2>1, <2>2, <2>3
<1> QED BY <1>7, <1>8, <1>9, <1>10, <1>11

\* The tile and the step in it.
LEMMA NotLast ==
  ASSUME NEW T \in Nat, NEW x \in 1 .. 5 * T + 1, x # 5 * T + 1
  PROVE  x \in 1 .. 5 * T
OBVIOUS

LEMMA StepOfTile ==
  ASSUME NEW T \in Nat, NEW x \in 1 .. 5 * T
  PROVE  \E w \in 1 .. T, y \in 1 .. 5 : x = 5 * (w - 1) + y
<1> PICK d, w, y : d = x - 1 /\ w = 1 + (d \div 5) /\ y = 1 + (d % 5)
  OBVIOUS
<1>1. d \in 0 .. 5 * T - 1 /\ x = d + 1
  OBVIOUS
<1>2. w \in 1 .. T /\ y \in 1 .. 5 /\ x = 5 * (w - 1) + y
  BY <1>1
<1> QED BY <1>2

LEMMA TiledUses ==
  ASSUME CodeInv, NEW j \in 1 .. Len(low), low[j].kind = "matmul",
         NEW a, TiledAt(ir, func.shape, low[j], j, a),
         NEW k \in 1 .. Len(ir), ir[k].at = j, NEW s \in SramUsed(ir[k])
  PROVE  SramId(s)
<1> PICK l, T, t : l = low[j] /\ T = TilesOf(func.shape, l) /\ t = LowerMatmul(func.shape, l, j)
  OBVIOUS
<1>1. Offered(low, func)
  BY DEF CodeInv, AllOffered
<1>2. Len(l.ins) = 2 /\ T \in Nat \ {0}
  BY <1>1, OfferedIs
<1>3. SramId(<<j, 1>>) /\ SramId(<<j, 2>>) /\ SramId(<<j, 3>>)
  <2>1. 1 \in 1 .. Len(l.ins) + 1 /\ 2 \in 1 .. Len(l.ins) + 1 /\ 3 \in 1 .. Len(l.ins) + 1
    BY <1>2
  <2> QED BY <2>1 DEF SramId
<1>4. ListsTiles(t, T, l, j)
  BY <1>2, TiledSteps
<1>5. /\ Len(t) = 5 * T + 1 /\ t[5 * T + 1] = Store(j, <<j, 3>>, l.out, "whole")
      /\ \A w \in 1 .. T, y \in 1 .. 5 : t[5 * (w - 1) + y] = TileStep(l, j, w, y)
  BY <1>4 DEF ListsTiles
<1>6. LiesAt(ir, j, a, 5 * T + 1) /\ \A x \in 1 .. 5 * T + 1 : ir[a + x] = t[x]
  BY <1>5 DEF TiledAt
<1> PICK x : x = k - a
  OBVIOUS
<1>7. x \in 1 .. 5 * T + 1 /\ ir[k] = t[x]
  <2>1. a \in Nat /\ k \in a + 1 .. a + (5 * T + 1)
    BY <1>6 DEF LiesAt
  <2>2. x \in 1 .. 5 * T + 1 /\ k = a + x
    BY <1>2, <2>1
  <2> QED BY <1>6, <2>2
<1>8. CASE x = 5 * T + 1
  <2>1. ir[k] = Store(j, <<j, 3>>, l.out, "whole")
    BY <1>5, <1>7, <1>8
  <2>2. s = <<j, 3>>
    BY <2>1 DEF SramUsed, Store
  <2> QED BY <1>3, <2>2
<1>9. CASE x # 5 * T + 1
  <2>0. x \in 1 .. 5 * T
    BY <1>2, <1>7, <1>9, NotLast
  <2>1. PICK w \in 1 .. T, y \in 1 .. 5 : x = 5 * (w - 1) + y
    BY <1>2, <2>0, StepOfTile
  <2>2. ir[k] = TileStep(l, j, w, y)
    <3>1. t[5 * (w - 1) + y] = TileStep(l, j, w, y)
      BY <1>5, <2>1
    <3> QED BY <1>7, <2>1, <3>1
  <2>3. CASE y = 1 \/ y = 2
    <3>1. \E b, part : ir[k] = Load(j, b, part, w, <<j, y>>)
      BY <2>2, <2>3 DEF TileStep
    <3>2. s = <<j, y>>
      BY <3>1 DEF SramUsed, Load
    <3>3. s = <<j, 1>> \/ s = <<j, 2>>
      BY <2>3, <3>2
    <3>4. SramId(s)
      BY <1>3, <3>3, Zenon
    <3> QED BY <3>4
  <2>4. CASE y = 3 \/ y = 5
    <3>1. ir[k] = Sync(j)
      BY <2>2, <2>4 DEF TileStep
    <3> QED BY <3>1 DEF SramUsed, Sync
  <2>5. CASE y = 4
    <3> PICK srcs, acc : srcs = << <<j, 1>>, <<j, 2>> >> /\ acc = (w > 1)
      OBVIOUS
    <3>1. ir[k] = Compute(j, l, srcs, <<j, 3>>, acc)
      BY <2>2, <2>5 DEF TileStep
    <3>2. s = <<j, 3>> \/ \E z \in DOMAIN srcs : s = srcs[z]
      BY <3>1 DEF SramUsed, Compute
    <3>3. DOMAIN srcs = 1 .. 2 /\ srcs[1] = <<j, 1>> /\ srcs[2] = <<j, 2>>
      OBVIOUS
    <3>4. s = <<j, 1>> \/ s = <<j, 2>> \/ s = <<j, 3>>
      BY <3>2, <3>3
    <3>5. SramId(s)
      BY <1>3, <3>4, Zenon
    <3> QED BY <3>5
  <2> QED BY <2>1, <2>3, <2>4, <2>5
<1> QED BY <1>8, <1>9

LEMMA UsedIds ==
  ASSUME CodeInv, NEW s \in UsedBy(Remaining)
  PROVE  SramId(s)
<1>1. ir \in Seq(RangeOf(ir))
  BY DEF CodeInv, ChainInv, ElideInv, Listing, IsList
<1>2. PICK n \in DOMAIN Remaining : s \in SramUsed(Remaining[n])
  BY DEF UsedBy
<1>3. PICK k \in 1 .. Len(ir) : k \notin erased /\ Remaining[n] = ir[k]
  BY <1>1, WithoutLeaves DEF Remaining
<1> PICK j : j = ir[k].at
  OBVIOUS
<1>4. j \in 1 .. Len(low)
  BY DEF CodeInv, ChainInv, InOrder, OrderOf
<1>5. PICK a : IF low[j].kind = "matmul" THEN TiledAt(ir, func.shape, low[j], j, a)
               ELSE WholeBlock(ir, erased, matchList, low, j, a)
  BY <1>4 DEF CodeInv, Blocks, BlockOf
<1>6. s \in SramUsed(ir[k])
  BY <1>2, <1>3
<1>7. CASE low[j].kind = "matmul"
  BY <1>3, <1>4, <1>5, <1>6, <1>7, TiledUses
<1>8. CASE low[j].kind # "matmul"
  BY <1>3, <1>4, <1>5, <1>6, <1>8, WholeUses
<1> QED BY <1>7, <1>8

-----------------------------------------------------------------------------
(* What is asked of the allocator.                                         *)

IsShape(s) == s \in Seq(Nat) /\ Len(s) \in 1 .. 2

LEMMA ShapeElements ==
  ASSUME NEW s, IsShape(s)
  PROVE  /\ Elements(s) \in Nat
         /\ Len(s) \in Nat /\ \A k \in 1 .. Len(s) : s[k] \in Nat
         /\ s[1] \in Nat /\ (Len(s) = 2 => s[2] \in Nat)
<1>1. Len(s) \in 1 .. 2 /\ s \in [1 .. Len(s) -> Nat]
  BY DEF IsShape
<1>2. \A k \in 1 .. Len(s) : s[k] \in Nat
  BY <1>1
<1>3. 1 \in 1 .. Len(s) /\ (Len(s) = 2 => 2 \in 1 .. Len(s))
  BY <1>1
<1> PICK a, b, n : a = s[1] /\ b = s[2] /\ n = Len(s)
  OBVIOUS
<1>4. a \in Nat /\ n \in 1 .. 2 /\ (n = 2 => b \in Nat)
  BY <1>1, <1>2, <1>3
<1>5. Elements(s) = IF n = 1 THEN a ELSE a * b
  BY DEF Elements
<1>6. n = 2 => a * b \in Nat
  BY <1>4
<1> QED BY <1>1, <1>2, <1>4, <1>5, <1>6

LEMMA SramShapesAre ==
  ASSUME NEW f \in Functions, NEW i \in 1 .. Len(f.ops), NEW l \in Accepted(f.shape, f.ops[i]),
         NEW k \in 1 .. Len(l.ins) + 1
  PROVE  IsShape(SramShapes(f.shape, l)[k])
<1> PICK sh, n, s, out : sh = f.shape /\ n = Len(l.ins) /\ s = SramShapes(sh, l) /\ out = sh[l.out]
  OBVIOUS
<1>1. /\ l.kind \in {"matmul", "ewise", "act", "reduce"} /\ l.out \in Buffers
      /\ n = Arity(l)
      /\ \A y \in 1 .. n : l.ins[y] \in Buffers
  BY Offers
<1>2. \A b \in Buffers : IsShape(sh[b])
  BY FunctionAssumption DEF IsShape
<1>3. IsShape(out) /\ \A y \in 1 .. n : IsShape(sh[l.ins[y]])
  BY <1>1, <1>2
<1>4. VerifyStore(sh, l)
  BY DEF Accepted, Verified
<1>5. CASE l.kind = "matmul"
  <2> PICK a, b, c : a = sh[l.ins[1]][1] /\ b = sh[l.ins[2]][2] /\ c = TileK
    OBVIOUS
  <2>1. s = << <<a, c>>, <<c, b>>, <<a, b>> >> /\ n = 2
    BY <1>1, <1>5 DEF SramShapes, Arity
  <2>2. <<a, b>> = out
    BY <1>4, <1>5, <2>1 DEF VerifyStore
  <2>3. a \in Nat /\ b \in Nat /\ c \in Nat
    <3> PICK pair : pair = <<a, b>>
      OBVIOUS
    <3>1. Len(pair) = 2 /\ pair[1] = a /\ pair[2] = b
      OBVIOUS
    <3>2. IsShape(pair)
      BY <1>3, <2>2
    <3>3. pair[1] \in Nat /\ pair[2] \in Nat
      BY <3>1, <3>2, ShapeElements
    <3> QED BY <3>1, <3>3, TileAssumption
  <2>4. IsShape(<<a, c>>) /\ IsShape(<<c, b>>) /\ IsShape(<<a, b>>)
    BY <2>3 DEF IsShape
  <2>5. k = 1 \/ k = 2 \/ k = 3
    BY <2>1
  <2>6. s[1] = <<a, c>> /\ s[2] = <<c, b>> /\ s[3] = <<a, b>>
    BY <2>1
  <2> QED BY <2>4, <2>5, <2>6
<1>6. CASE l.kind = "ewise"
  <2>1. s = <<sh[l.ins[1]], sh[l.ins[2]], out>> /\ n = 2
    BY <1>1, <1>6 DEF SramShapes, Arity
  <2>2. k = 1 \/ k = 2 \/ k = 3
    BY <2>1
  <2> QED BY <1>3, <2>1, <2>2
<1>7. CASE l.kind = "act"
  <2>1. s = <<out, out>> /\ n = 1
    BY <1>1, <1>7 DEF SramShapes, Arity
  <2>2. k = 1 \/ k = 2
    BY <2>1
  <2> QED BY <1>3, <2>1, <2>2
<1>8. CASE l.kind = "reduce"
  <2> PICK r : r = IF Len(out) = 1 THEN <<out[1], 1>> ELSE out
    OBVIOUS
  <2>1. s = <<sh[l.ins[1]], r>> /\ n = 1
    BY <1>1, <1>8 DEF SramShapes, Arity
  <2>2. IsShape(r)
    <3>1. IsShape(<<out[1], 1>>)
      BY <1>3, ShapeElements DEF IsShape
    <3> QED BY <1>3, <3>1
  <2>3. k = 1 \/ k = 2
    BY <2>1
  <2> QED BY <1>3, <2>1, <2>2, <2>3
<1> QED BY <1>1, <1>5, <1>6, <1>7, <1>8

IsRequest(r) ==
  \/ r.space = "ddr" /\ r.buf \in Allocs
  \/ /\ r.space = "sram" /\ SramId(r.buf) /\ r.size = Elements(SramShape(r.buf)) /\ r.align = 1
     /\ Request(r)

\* The buffers the code that is left cannot do without.
Needs(s) ==
  \/ s \in UsedBy(Remaining)
  \/ s \in Allocs /\ \E n \in DOMAIN Remaining :
       Remaining[n].op \in {"load", "store"} /\ Remaining[n].buf = s

LEMMA SramRequest ==
  ASSUME CodeInv, NEW s, SramId(s), NEW r, r = Alloc(s, "sram", Elements(SramShape(s)), 1)
  PROVE  IsRequest(r)
<1>1. PICK i \in 1 .. Len(low) : \E y \in 1 .. Len(low[i].ins) + 1 : s = <<i, y>>
  BY DEF SramId
<1> PICK l, sh : l = low[i] /\ sh = func.shape
  OBVIOUS
<1>2. PICK y \in 1 .. Len(l.ins) + 1 : s = <<i, y>>
  BY <1>1
<1>3. Offered(low, func)
  BY DEF CodeInv, AllOffered
<1>4. func \in Functions /\ i \in 1 .. Len(func.ops) /\ l \in Accepted(sh, func.ops[i])
  BY <1>3, OfferedIs
<1> PICK z : z = Elements(SramShapes(sh, l)[y])
  OBVIOUS
<1>5. z \in Nat
  BY <1>4, SramShapesAre, ShapeElements
<1>6. SramBase + SramSize + 1 + z <= Word
  BY <1>4, AddressAssumption
<1>7. SramShape(s) = SramShapes(sh, l)[y]
  BY <1>2 DEF SramShape
<1>8. r.space = "sram" /\ r.buf = s /\ r.size = z /\ r.align = 1
  BY <1>7 DEF Alloc
<1>9. Request(r)
  BY <1>5, <1>6, <1>8 DEF Request
<1> QED BY <1>7, <1>8, <1>9 DEF IsRequest

\* The SRAM buffers of n operations in a list.
IdsOfAll(n) == [x \in 1 .. 3 * n |-> <<1 + ((x - 1) \div 3), 1 + ((x - 1) % 3)>>]

LEMMA IdAt ==
  ASSUME NEW n \in Nat, NEW i \in 1 .. n, NEW y \in 1 .. 3
  PROVE  \E x \in 1 .. 3 * n : IdsOfAll(n)[x] = <<i, y>>
<1> PICK x : x = 3 * (i - 1) + y
  OBVIOUS
<1>1. x \in 1 .. 3 * n /\ 1 + ((x - 1) \div 3) = i /\ 1 + ((x - 1) % 3) = y
  OBVIOUS
<1>2. IdsOfAll(n)[x] = <<1 + ((x - 1) \div 3), 1 + ((x - 1) % 3)>>
  BY <1>1 DEF IdsOfAll
<1> QED BY <1>1, <1>2

LEMMA IdsListed == ASSUME NEW n \in Nat PROVE IsList(IdsOfAll(n)) /\ Len(IdsOfAll(n)) = 3 * n
<1> PICK m : m = 3 * n
  OBVIOUS
<1>1. m \in Nat
  OBVIOUS
<1> DEFINE F(x) == <<1 + ((x - 1) \div 3), 1 + ((x - 1) % 3)>>
           q == [x \in 1 .. m |-> F(x)]
<1> HIDE DEF F
<1>2. q = [x \in 1 .. m |-> q[x]]
  OBVIOUS
<1> HIDE DEF q
<1>3. IsList(q) /\ Len(q) = m
  BY <1>1, <1>2, Listed
<1>4. q = IdsOfAll(n)
  BY DEF q, F, IdsOfAll
<1> QED BY <1>3, <1>4

DdrRequests(ddr) == [n \in DOMAIN ddr |-> Alloc(ddr[n], "ddr", Size(ddr[n]), 1)]
SramRequests(sram) == [n \in DOMAIN sram |-> Alloc(sram[n], "sram", Elements(SramShape(sram[n])), 1)]
DdrLeft(list) == {b \in Allocs : b \in func.ret
                    \/ \E n \in DOMAIN list : list[n].op \in {"load", "store"} /\ list[n].buf = b}
SramLeft(list) ==
  Without(IdsOfAll(Len(func.ops)),
          {x \in DOMAIN IdsOfAll(Len(func.ops)) : IdsOfAll(Len(func.ops))[x] \notin UsedBy(list)})

LEMMA AllocsLeftAre ==
  ASSUME NEW list
  PROVE  AllocsLeft(list) = DdrRequests(SetToSeq(DdrLeft(list))) \o SramRequests(SramLeft(list))
BY DEF AllocsLeft, DdrRequests, SramRequests, DdrLeft, SramLeft, IdsOfAll

LEMMA DdrRequestsAre ==
  ASSUME NEW list, NEW d, d = SetToSeq(DdrLeft(list)), NEW t, t = DdrRequests(d)
  PROVE  /\ IsList(t) /\ Len(t) \in Nat /\ Cardinality(Allocs) \in Nat /\ Len(t) <= Cardinality(Allocs)
         /\ \A n \in 1 .. Len(t) : t[n].space = "ddr" /\ t[n].buf \in Allocs
         /\ \A b \in DdrLeft(list) : \E n \in 1 .. Len(t) : t[n].buf = b
<1> PICK D, m : D = DdrLeft(list) /\ m = Len(d)
  OBVIOUS
<1>1. D \subseteq Allocs /\ IsFiniteSet(Allocs)
  BY AddressAssumption DEF DdrLeft
<1>2. /\ IsFiniteSet(D) /\ Cardinality(D) \in Nat /\ Cardinality(Allocs) \in Nat
      /\ Cardinality(D) <= Cardinality(Allocs)
  BY <1>1, FS_Subset, FS_CardinalityType
<1>3. /\ Len(d) = Cardinality(D) /\ DOMAIN d = 1 .. Len(d)
      /\ \A n \in 1 .. Len(d) : d[n] \in D
      /\ \A b \in D : \E n \in 1 .. Len(d) : d[n] = b
  BY <1>2, ListOfSet
<1>4. m \in Nat /\ t = [n \in 1 .. m |-> Alloc(d[n], "ddr", Size(d[n]), 1)]
  BY <1>2, <1>3 DEF DdrRequests
<1>5. t = [n \in 1 .. m |-> t[n]] /\ \A n \in 1 .. m : t[n] = Alloc(d[n], "ddr", Size(d[n]), 1)
  BY <1>4
<1>6. IsList(t) /\ Len(t) = m
  BY <1>4, <1>5, Listed
<1>7. ASSUME NEW n \in 1 .. m PROVE t[n].space = "ddr" /\ t[n].buf = d[n]
  <2>1. t[n] = Alloc(d[n], "ddr", Size(d[n]), 1)
    BY <1>5
  <2> QED BY <2>1 DEF Alloc
<1>8. \A n \in 1 .. m : d[n] \in Allocs
  BY <1>1, <1>3
<1>9. \A b \in D : \E n \in 1 .. m : t[n].buf = b
  BY <1>3, <1>7
<1>10. m <= Cardinality(Allocs)
  BY <1>2, <1>3
<1> QED BY <1>2, <1>4, <1>6, <1>7, <1>8, <1>9, <1>10

LEMMA OneOfThree == ASSUME NEW z \in 1 .. 2, NEW y \in 1 .. z + 1 PROVE y \in 1 .. 3
OBVIOUS

LEMMA SramRequestsAre ==
  ASSUME CodeInv, phase = "allocate", NEW d, d = SramLeft(Remaining), NEW t, t = SramRequests(d)
  PROVE  /\ IsList(t) /\ Len(t) \in Nat /\ Len(func.ops) \in Nat /\ Len(t) <= 3 * Len(func.ops)
         /\ \A n \in 1 .. Len(t) : IsRequest(t[n])
         /\ \A s \in UsedBy(Remaining) : \E n \in 1 .. Len(t) : t[n].buf = s
<1> PICK N, ids, U : N = Len(func.ops) /\ ids = IdsOfAll(N) /\ U = UsedBy(Remaining)
  OBVIOUS
<1>1. N \in Nat /\ Len(low) = N /\ Offered(low, func)
  BY FunctionAssumption DEF CodeInv, ChainInv, ElideInv, Listing, Recognition, AllOffered
<1>2. IsList(ids) /\ Len(ids) = 3 * N /\ DOMAIN ids = 1 .. 3 * N
  BY <1>1, IdsListed, ListOf DEF IsList
<1> PICK K, m : K = {x \in 1 .. 3 * N : ids[x] \notin U} /\ m = Len(d)
  OBVIOUS
<1>3. d = Without(ids, K)
  BY <1>2 DEF SramLeft
<1> PICK P : P = (1 .. 3 * N) \ K
  OBVIOUS
<1>4. Taken(d, ids, P)
  BY <1>2, <1>3, WithoutTakes
<1>5. m \in Nat /\ m <= 3 * N
  <2>1. P \subseteq 1 .. Len(ids)
    BY <1>2
  <2> QED BY <1>2, <1>4, <2>1, TakenLength
<1> PICK p : TakenBy(p, d, ids, P)
  BY <1>4 DEF Taken
<1>6. /\ \A n \in 1 .. m : d[n] = ids[p[n]] /\ p[n] \in P
      /\ \A k \in P : \E n \in 1 .. m : p[n] = k
  BY DEF TakenBy
<1>7. \A n \in 1 .. m : d[n] \in U
  BY <1>6
<1>8. DOMAIN d = 1 .. m
  BY <1>4, ListOf DEF Taken, IsList
<1> DEFINE F(s) == Alloc(s, "sram", Elements(SramShape(s)), 1)
<1>9. t = [n \in 1 .. m |-> F(d[n])]
  BY <1>8 DEF SramRequests
<1> HIDE DEF F
<1>10. t = [n \in 1 .. m |-> t[n]] /\ \A n \in 1 .. m : t[n] = F(d[n])
  BY <1>9
<1>11. IsList(t) /\ Len(t) = m
  BY <1>5, <1>10, Listed
<1>12. ASSUME NEW n \in 1 .. m PROVE IsRequest(t[n]) /\ t[n].buf = d[n]
  <2> PICK s : s = d[n]
    OBVIOUS
  <2>1. SramId(s)
    BY <1>7, UsedIds
  <2>2. t[n] = Alloc(s, "sram", Elements(SramShape(s)), 1)
    BY <1>10 DEF F
  <2>3. t[n].buf = s
    BY <2>2 DEF Alloc
  <2> QED BY <2>1, <2>2, <2>3, SramRequest
<1>13. ASSUME NEW s \in U PROVE \E n \in 1 .. m : d[n] = s
  <2>1. PICK i \in 1 .. N : \E y \in 1 .. Len(low[i].ins) + 1 : s = <<i, y>>
    BY <1>1, <1>13, UsedIds DEF SramId
  <2>2. Len(low[i].ins) \in 1 .. 2
    BY <1>1, OfferedIs
  <2>3. PICK y \in 1 .. 3 : s = <<i, y>>
    <3> PICK z : z = Len(low[i].ins)
      OBVIOUS
    <3>1. ASSUME NEW y \in 1 .. z + 1 PROVE y \in 1 .. 3
      BY <2>2, OneOfThree
    <3> QED BY <2>1, <3>1
  <2>4. PICK x \in 1 .. 3 * N : ids[x] = <<i, y>>
    BY <1>1, IdAt
  <2>5. x \in P
    BY <2>3, <2>4
  <2>6. PICK n \in 1 .. m : p[n] = x
    BY <1>6, <2>5
  <2>7. d[n] = ids[x]
    BY <1>6, <2>6
  <2> QED BY <2>3, <2>4, <2>7
<1> QED BY <1>1, <1>5, <1>11, <1>12, <1>13

LEMMA AllocsLeftServe ==
  ASSUME CodeInv, phase = "allocate", NEW A, A = AllocsLeft(Remaining)
  PROVE  /\ IsList(A) /\ Len(A) \in Nat /\ Len(func.ops) \in Nat /\ Cardinality(Allocs) \in Nat
         /\ Len(A) <= Cardinality(Allocs) + 3 * Len(func.ops)
         /\ \A n \in 1 .. Len(A) : IsRequest(A[n])
         /\ \A s : Needs(s) => \E n \in 1 .. Len(A) : A[n].buf = s
<1> PICK X, Y : X = DdrRequests(SetToSeq(DdrLeft(Remaining))) /\ Y = SramRequests(SramLeft(Remaining))
  OBVIOUS
<1>1. A = X \o Y
  BY AllocsLeftAre
<1>2. /\ IsList(X) /\ Cardinality(Allocs) \in Nat /\ Len(X) <= Cardinality(Allocs)
      /\ \A n \in 1 .. Len(X) : X[n].space = "ddr" /\ X[n].buf \in Allocs
      /\ \A b \in DdrLeft(Remaining) : \E n \in 1 .. Len(X) : X[n].buf = b
  BY DdrRequestsAre
<1>3. /\ IsList(Y) /\ Len(func.ops) \in Nat /\ Len(Y) <= 3 * Len(func.ops)
      /\ \A n \in 1 .. Len(Y) : IsRequest(Y[n])
      /\ \A s \in UsedBy(Remaining) : \E n \in 1 .. Len(Y) : Y[n].buf = s
  BY SramRequestsAre
<1>4. /\ IsList(A) /\ Len(X) \in Nat /\ Len(Y) \in Nat /\ Len(A) = Len(X) + Len(Y)
      /\ \A k \in 1 .. Len(X) : A[k] = X[k]
      /\ \A k \in 1 .. Len(Y) : A[Len(X) + k] = Y[k]
  BY <1>1, <1>2, <1>3, Joining
<1> PICK x, y : x = Len(X) /\ y = Len(Y)
  OBVIOUS
<1>5. \A n \in 1 .. x : IsRequest(X[n])
  BY <1>2 DEF IsRequest
<1>6. ASSUME NEW n \in 1 .. Len(A) PROVE IsRequest(A[n])
  <2> PICK k : k = n - x
    OBVIOUS
  <2>1. n \in 1 .. x \/ (k \in 1 .. y /\ n = x + k)
    BY <1>4
  <2> QED BY <1>3, <1>4, <1>5, <2>1
<1>7. (\A k \in 1 .. x : k \in 1 .. Len(A)) /\ \A k \in 1 .. y : x + k \in 1 .. Len(A)
  BY <1>4
<1>8. ASSUME NEW s, Needs(s) PROVE \E n \in 1 .. Len(A) : A[n].buf = s
  <2>1. CASE s \in UsedBy(Remaining)
    <3>1. PICK n \in 1 .. y : Y[n].buf = s
      BY <1>3, <2>1
    <3> QED BY <1>4, <1>7, <3>1
  <2>2. CASE s \notin UsedBy(Remaining)
    <3>1. s \in DdrLeft(Remaining)
      BY <1>8, <2>2 DEF Needs, DdrLeft
    <3>2. PICK n \in 1 .. x : X[n].buf = s
      BY <1>2, <3>1
    <3> QED BY <1>4, <1>7, <3>2
  <2> QED BY <2>1, <2>2
<1>9. Len(A) \in Nat /\ Len(A) <= Cardinality(Allocs) + 3 * Len(func.ops)
  BY <1>2, <1>3, <1>4
<1> QED BY <1>2, <1>3, <1>4, <1>6, <1>8, <1>9

-----------------------------------------------------------------------------
(* Where the allocator puts the buffers of the code that is left.          *)

SramAt(p) ==
  /\ SramId(p.buf) /\ p.size = Elements(SramShape(p.buf)) /\ p.size \in Nat
  /\ p.base \in Nat /\ SramBase <= p.base /\ p.base + p.size <= next_
DdrAt(p) == p.buf \in Buffers /\ p.base \in Nat /\ DdrFirst <= p.base

JobIs ==
  /\ job # NoJob /\ job.layout = "bump" /\ IsList(job.args)
  /\ \A n \in 1 .. Len(job.args) : job.args[n].space = "arg" /\ job.args[n].buf \in Args
  /\ \A b \in Args : \E n \in 1 .. Len(job.args) : job.args[n].buf = b

Requested == IsList(todo) /\ \A n \in 1 .. Len(todo) : IsRequest(todo[n])

Room ==
  /\ golden = [b \in {} |-> 0] /\ next_ \in SramBase .. SramBase + SramSize
  /\ curDdr \in Nat /\ DdrFirst <= curDdr
  /\ stage = "args" =>
       /\ placed = {} /\ curDdr = DdrFirst /\ ~failed
       /\ DdrFirst + (Len(job.args) + Len(todo)) * DdrStride < Word
  /\ stage # "args" => curDdr + Len(todo) * DdrStride < Word

PlacedWell == \A p \in placed : IF p.space = "sram" THEN SramAt(p) ELSE DdrAt(p)
PlacedApart == \A p, q \in Sram : p # q => ~Overlap(p, q)

IsPlaced(b) == \E p \in placed : p.buf = b
Provided ==
  ~failed =>
    /\ stage # "args" => \A b \in Args : IsPlaced(b)
    /\ \A s : Needs(s) => IsPlaced(s) \/ \E n \in 1 .. Len(todo) : todo[n].buf = s

Mapped == JobIs /\ Requested /\ Room /\ PlacedWell /\ PlacedApart /\ Provided

\* The allocator starts once the elision has ended.
MapInv == (job = NoJob /\ AllocInit) \/ (phase = "allocate" /\ Mapped) \/ phase = "crashed"

LEMMA SameCode ==
  ASSUME UNCHANGED elideVars
  PROVE  /\ \A s : Needs(s)' <=> Needs(s)
         /\ \A s : SramId(s)' <=> SramId(s)
         /\ \A s : SramShape(s)' = SramShape(s)
         /\ \A r : IsRequest(r)' <=> IsRequest(r)
<1>1. UNCHANGED <<func, low, ir, erased>>
  BY DEF elideVars
<1>2. Remaining' = Remaining
  BY <1>1 DEF Remaining
<1>3. UsedBy(Remaining)' = UsedBy(Remaining)
  BY <1>2 DEF UsedBy
<1>4. \A s : Needs(s)' <=> Needs(s)
  BY <1>2, <1>3 DEF Needs
<1>5. \A s : SramId(s)' <=> SramId(s)
  BY <1>1 DEF SramId
<1>6. \A s : SramShape(s)' = SramShape(s)
  BY <1>1 DEF SramShape
<1>7. \A r : IsRequest(r)' <=> IsRequest(r)
  BY <1>5, <1>6 DEF IsRequest
<1> QED BY <1>4, <1>5, <1>6, <1>7

LEMMA MapStarts == Init => MapInv
BY DEF Init, MapInv

\* The function is handed to the allocator.
LEMMA MapCanonicalize ==
  ASSUME CodeInv, job = NoJob, AllocInit, Canonicalize
  PROVE  MapInv'
<1> PICK args, A : args = SetToSeq(Args) /\ A = AllocsLeft(Remaining)
  OBVIOUS
<1> PICK given : given = [n \in DOMAIN args |-> Alloc(args[n], "arg", Size(args[n]), 1)]
  OBVIOUS
<1>1. /\ phase = "allocate"
      /\ job' = [args |-> given, allocs |-> A, matmuls |-> {}, layout |-> "bump"]
      /\ todo' = A
      /\ UNCHANGED <<elideVars, stage, next_, curDdr, golden, placed, failed>>
  BY DEF Canonicalize
<1>2. phase' = "allocate"
  BY <1>1 DEF elideVars
<1>3. /\ stage = "args" /\ next_ = SramBase /\ curDdr = DdrFirst /\ golden = [b \in {} |-> 0]
      /\ placed = {} /\ failed = FALSE
  BY DEF AllocInit
<1>4. CASE job' = NoJob
  <2>1. todo' = job'.allocs
    BY <1>1
  <2> QED BY <1>1, <1>3, <1>4, <2>1 DEF MapInv, AllocInit
<1>5. CASE job' # NoJob
  <2>1. /\ IsList(args) /\ Cardinality(Args) \in Nat /\ Len(args) = Cardinality(Args)
        /\ DOMAIN args = 1 .. Len(args)
        /\ \A n \in 1 .. Len(args) : args[n] \in Args
        /\ \A b \in Args : \E n \in 1 .. Len(args) : args[n] = b
    BY AddressAssumption, ListOfSet
  <2> PICK c, d, m, k, x : c = Cardinality(Args) /\ d = Cardinality(Allocs) /\ m = Len(args)
                             /\ k = Len(A) /\ x = Len(func.ops)
    OBVIOUS
  <2> DEFINE F(n) == Alloc(args[n], "arg", Size(args[n]), 1)
  <2>2. given = [n \in 1 .. m |-> F(n)]
    BY <2>1
  <2> HIDE DEF F
  <2>3. given = [n \in 1 .. m |-> given[n]] /\ \A n \in 1 .. m : given[n] = F(n)
    BY <2>2
  <2>4. m \in Nat
    BY <2>1
  <2>5. IsList(given) /\ Len(given) = m
    BY <2>3, <2>4, Listed
  <2>6. ASSUME NEW n \in 1 .. m PROVE given[n].space = "arg" /\ given[n].buf = args[n]
    BY <2>3 DEF F, Alloc
  <2>7. JobIs'
    <3>1. job'.args = given /\ job'.layout = "bump"
      BY <1>1
    <3>2. \A n \in 1 .. m : given[n].space = "arg" /\ given[n].buf \in Args
      BY <2>1, <2>6
    <3>3. ASSUME NEW b \in Args PROVE \E n \in 1 .. m : given[n].buf = b
      BY <2>1, <2>6
    <3> QED BY <1>5, <2>5, <3>1, <3>2, <3>3 DEF JobIs
  <2>8. /\ IsList(A) /\ k \in Nat /\ x \in Nat /\ d \in Nat /\ k <= d + 3 * x
        /\ \A n \in 1 .. k : IsRequest(A[n])
        /\ \A s : Needs(s) => \E n \in 1 .. k : A[n].buf = s
    BY <1>1, AllocsLeftServe
  <2>9. Requested'
    BY <1>1, <2>8, SameCode DEF Requested
  <2>10. DdrFirst \in Nat /\ DdrStride \in Nat /\ Word \in Nat
    BY DdrAssumption, AllocAssumption
  <2>11. DdrFirst + (c + d + 3 * x) * DdrStride < Word
    BY AddressAssumption DEF CodeInv, ChainInv, ElideInv, Listing
  <2>12. (m + k) * DdrStride <= (c + d + 3 * x) * DdrStride
    <3>1. m + k \in Int /\ c + d + 3 * x \in Int /\ m + k <= c + d + 3 * x
      BY <2>1, <2>8
    <3> QED BY <2>10, <3>1, Scaled
  <2>13. DdrFirst + (m + k) * DdrStride < Word
    <3> PICK y, z : y = (m + k) * DdrStride /\ z = (c + d + 3 * x) * DdrStride
      OBVIOUS
    <3>1. y \in Int /\ z \in Int
      BY <2>1, <2>8, <2>10
    <3> QED BY <2>10, <2>11, <2>12, <3>1
  <2>14. Room'
    <3>1. SramBase \in SramBase .. SramBase + SramSize
      BY AllocAssumption
    <3>2. Len(job'.args) = m /\ Len(todo') = k
      BY <1>1, <2>5
    <3>3. /\ stage' = "args" /\ next_' = SramBase /\ curDdr' = DdrFirst /\ golden' = [b \in {} |-> 0]
          /\ placed' = {} /\ failed' = FALSE
      BY <1>1, <1>3
    <3>4. (~failed)'
      BY <3>3
    <3>5. DdrFirst + (Len(job'.args) + Len(todo')) * DdrStride < Word
      BY <2>13, <3>2
    <3> HIDE <2>13
    <3> QED BY <2>10, <3>1, <3>3, <3>4, <3>5 DEF Room
  <2>15. PlacedWell' /\ PlacedApart'
    BY <1>1, <1>3 DEF PlacedWell, PlacedApart, Sram
  <2>16. Provided'
    BY <1>1, <1>3, <2>8, SameCode DEF Provided
  <2> QED BY <1>2, <2>7, <2>9, <2>14, <2>15, <2>16 DEF MapInv, Mapped
<1> QED BY <1>4, <1>5

LEMMA FirstStrides ==
  ASSUME NEW n \in Nat, NEW k \in Nat, DdrFirst + (n + k) * DdrStride < Word
  PROVE  /\ DdrFirst + n * DdrStride \in Nat /\ DdrFirst <= DdrFirst + n * DdrStride
         /\ DdrFirst + n * DdrStride < Word /\ DdrFirst + n * DdrStride + k * DdrStride < Word
         /\ \A i \in 1 .. n :
              /\ DdrFirst + (i - 1) * DdrStride \in Nat
              /\ DdrFirst <= DdrFirst + (i - 1) * DdrStride
              /\ (DdrFirst + (i - 1) * DdrStride) % Word = DdrFirst + (i - 1) * DdrStride
<1>1. DdrFirst \in Nat /\ DdrStride \in Nat \ {0} /\ Word \in Nat
  BY DdrAssumption, AllocAssumption
<1> QED BY <1>1, Strides

\* The arguments take the first strides.
LEMMA MapArgs ==
  ASSUME Mapped, BindArgs, UNCHANGED elideVars
  PROVE  Mapped'
<1> PICK args, n, k : args = job.args /\ n = Len(args) /\ k = Len(todo)
  OBVIOUS
<1> DEFINE base(i) == DdrFirst + (i - 1) * DdrStride
           end == DdrFirst + n * DdrStride
<1>1. /\ stage = "args" /\ stage' = "layout" /\ UNCHANGED <<job, todo, next_, golden>>
      /\ curDdr' = (curDdr + n * DdrStride) % Word
      /\ placed' = placed \union
                     {Place(args[i], (curDdr + (i - 1) * DdrStride) % Word) : i \in 1 .. n}
  BY DEF BindArgs
<1>2. /\ placed = {} /\ curDdr = DdrFirst /\ DdrFirst + (n + k) * DdrStride < Word
      /\ golden = [b \in {} |-> 0] /\ next_ \in SramBase .. SramBase + SramSize
  BY <1>1 DEF Mapped, Room
<1>3. n \in Nat /\ k \in Nat
  BY ListOf DEF Mapped, JobIs, Requested, IsList
<1>4. DdrFirst \in Nat /\ DdrStride \in Nat \ {0} /\ Word \in Nat
  BY DdrAssumption, AllocAssumption
<1>5. /\ end \in Nat /\ DdrFirst <= end /\ end < Word /\ end + k * DdrStride < Word
      /\ \A i \in 1 .. n : base(i) \in Nat /\ DdrFirst <= base(i) /\ base(i) % Word = base(i)
  <2>1. n \in Nat /\ k \in Nat /\ DdrFirst + (n + k) * DdrStride < Word
    BY <1>2, <1>3
  <2> HIDE <1>2
  <2> QED BY <2>1, FirstStrides
<1>6. curDdr' = end
  <2>1. curDdr' = end % Word
    BY <1>1, <1>2
  <2> HIDE DEF end
  <2> QED BY <1>4, <1>5, <2>1, Fitting
<1> DEFINE Arg(i) == Place(args[i], base(i))
<1>7. placed' = {Arg(i) : i \in 1 .. n}
  BY <1>1, <1>2, <1>5
<1> HIDE DEF base, end
<1>8. \A i \in 1 .. n : args[i].space = "arg" /\ args[i].buf \in Args
  BY DEF Mapped, JobIs
<1>9. \A i \in 1 .. n : Arg(i).space = "arg" /\ Arg(i).buf = args[i].buf /\ Arg(i).base = base(i)
  BY <1>8 DEF Place
<1> HIDE DEF Arg
<1>10. ASSUME NEW p \in placed' PROVE p.space = "arg" /\ DdrAt(p)
  <2>1. PICK i \in 1 .. n : p = Arg(i)
    BY <1>7
  <2> QED BY <1>5, <1>8, <1>9, <2>1 DEF DdrAt, Buffers
<1>11. JobIs' /\ Requested'
  BY <1>1, SameCode DEF Mapped, JobIs, Requested
<1>12. Room'
  BY <1>1, <1>2, <1>5, <1>6 DEF Room
<1>13. PlacedWell' /\ PlacedApart'
  BY <1>10 DEF PlacedWell, PlacedApart, Sram, DdrAt
<1>14. Provided'
  <2>1. ~failed
    BY <1>1 DEF Mapped, Room
  <2>2. ASSUME NEW b \in Args PROVE IsPlaced(b)'
    <3>1. PICK i \in 1 .. n : args[i].buf = b
      BY DEF Mapped, JobIs
    <3> QED BY <1>7, <1>9, <3>1 DEF IsPlaced
  <2>3. \A s : Needs(s)' => \E m \in 1 .. Len(todo) : todo[m].buf = s
    BY <1>2, <2>1, SameCode DEF Mapped, Provided, IsPlaced
  <2> QED BY <1>1, <2>2, <2>3 DEF Provided
<1> QED BY <1>11, <1>12, <1>13, <1>14 DEF Mapped

\* The layout of a job without one.
LEMMA MapLayout ==
  ASSUME Mapped, BuildLayout, UNCHANGED elideVars
  PROVE  Mapped'
<1>1. /\ stage = "layout" /\ stage' = "allocs"
      /\ UNCHANGED <<job, todo, next_, curDdr, golden, placed, failed>>
  BY DEF Mapped, JobIs, BuildLayout
<1>2. JobIs' /\ Requested'
  BY <1>1, SameCode DEF Mapped, JobIs, Requested
<1>3. Room'
  BY <1>1 DEF Mapped, Room
<1>4. PlacedWell' /\ PlacedApart'
  BY <1>1, SameCode DEF Mapped, PlacedWell, PlacedApart, Sram, SramAt, DdrAt
<1>5. Provided'
  BY <1>1, SameCode DEF Mapped, Provided, IsPlaced
<1> QED BY <1>2, <1>3, <1>4, <1>5 DEF Mapped

LEMMA Rest ==
  ASSUME NEW s, IsList(s), s # <<>>
  PROVE  /\ Len(s) \in Nat \ {0} /\ IsList(Tail(s)) /\ Len(Tail(s)) = Len(s) - 1 /\ Head(s) = s[1]
         /\ \A n \in 1 .. Len(Tail(s)) : Tail(s)[n] = s[n + 1] /\ n + 1 \in 1 .. Len(s)
         /\ \A n \in 1 .. Len(s) : n = 1 \/ (n - 1 \in 1 .. Len(Tail(s)) /\ Tail(s)[n - 1] = s[n])
<1> DEFINE T == RangeOf(s)
<1>1. s \in Seq(T)
  BY DEF IsList
<1> HIDE DEF T
<1>2. Tail(s) \in Seq(T) /\ Len(s) \in Nat \ {0} /\ Len(Tail(s)) = Len(s) - 1 /\ Head(s) = s[1]
  BY <1>1
<1>3. \A n \in 1 .. Len(Tail(s)) : Tail(s)[n] = s[n + 1] /\ n + 1 \in 1 .. Len(s)
  BY <1>1, <1>2
<1>4. \A n \in 1 .. Len(s) : n = 1 \/ (n - 1 \in 1 .. Len(Tail(s)) /\ n = (n - 1) + 1)
  BY <1>2
<1> QED BY <1>2, <1>3, <1>4, ListOf

\* What the visit of the next alloc leaves to do.
LEMMA MapRest ==
  ASSUME Mapped, todo # <<>>, todo' = Tail(todo), UNCHANGED <<elideVars, job>>
  PROVE  /\ JobIs' /\ Requested' /\ IsRequest(Head(todo))
         /\ Len(todo) \in Nat \ {0} /\ Len(todo') = Len(todo) - 1
         /\ \A s : (\E n \in 1 .. Len(todo) : todo[n].buf = s)
                     => Head(todo).buf = s \/ \E n \in 1 .. Len(todo') : todo'[n].buf = s
<1>1. IsList(todo) /\ \A n \in 1 .. Len(todo) : IsRequest(todo[n])
  BY DEF Mapped, Requested
<1> PICK t : t = Tail(todo)
  OBVIOUS
<1>2. /\ Len(todo) \in Nat \ {0} /\ IsList(t) /\ Len(t) = Len(todo) - 1 /\ Head(todo) = todo[1]
      /\ \A n \in 1 .. Len(t) : t[n] = todo[n + 1] /\ n + 1 \in 1 .. Len(todo)
      /\ \A n \in 1 .. Len(todo) : n = 1 \/ (n - 1 \in 1 .. Len(t) /\ t[n - 1] = todo[n])
  BY <1>1, Rest
<1>3. IsRequest(Head(todo))
  BY <1>1, <1>2
<1>4. \A n \in 1 .. Len(t) : IsRequest(t[n])
  BY <1>1, <1>2
<1>5. todo' = t
  OBVIOUS
<1>6. Requested'
  BY <1>2, <1>4, <1>5, SameCode DEF Requested
<1>7. JobIs'
  BY DEF Mapped, JobIs
<1>8. ASSUME NEW n \in 1 .. Len(todo)
      PROVE  Head(todo).buf = todo[n].buf \/ \E k \in 1 .. Len(t) : t[k].buf = todo[n].buf
  BY <1>2
<1> QED BY <1>2, <1>3, <1>5, <1>6, <1>7, <1>8

\* With the head placed, or the walk failed, everything is still provided.
LEMMA MapProvides ==
  ASSUME Mapped, todo # <<>>, todo' = Tail(todo), UNCHANGED <<elideVars, job, stage>>,
         placed \subseteq placed', ~failed' => ~failed /\ \E p \in placed' : p.buf = Head(todo).buf
  PROVE  Provided'
<1> SUFFICES ASSUME ~failed' PROVE /\ stage # "args" => \A b \in Args : IsPlaced(b)'
                                   /\ \A s : Needs(s)' => IsPlaced(s)'
                                               \/ \E n \in 1 .. Len(todo') : todo'[n].buf = s
  BY DEF Provided
<1>1. \A b : IsPlaced(b) => IsPlaced(b)'
  BY DEF IsPlaced
<1> PICK h : h = Head(todo).buf
  OBVIOUS
<1>2. IsPlaced(h)'
  BY DEF IsPlaced
<1>3. stage # "args" => \A b \in Args : IsPlaced(b)
  BY DEF Mapped, Provided
<1>4. ASSUME NEW s, Needs(s)'
      PROVE  IsPlaced(s)' \/ \E n \in 1 .. Len(todo') : todo'[n].buf = s
  <2>1. Needs(s)
    BY <1>4, SameCode
  <2>2. IsPlaced(s) \/ \E n \in 1 .. Len(todo) : todo[n].buf = s
    BY <2>1 DEF Mapped, Provided
  <2>3. (\E n \in 1 .. Len(todo) : todo[n].buf = s)
          => h = s \/ \E n \in 1 .. Len(todo') : todo'[n].buf = s
    BY MapRest
  <2> QED BY <1>1, <1>2, <2>2, <2>3
<1> QED BY <1>1, <1>3, <1>4

LEMMA BumpAtNext ==
  ASSUME NEW r, r.align = 1, Request(r), next_ \in SramBase .. SramBase + SramSize
  PROVE  \/ Bump(r).base = 0 /\ Bump(r).next = next_
         \/ /\ Bump(r).base = next_ /\ Bump(r).next = next_ + r.size
            /\ next_ + r.size <= SramBase + SramSize
<1> PICK n, z, e : n = next_ /\ z = r.size /\ e = SramBase + SramSize
  OBVIOUS
<1>1. /\ n \in Nat /\ z \in Nat /\ e \in Nat /\ Word \in Nat /\ e < Word /\ n <= e
      /\ e + 1 + z <= Word
  BY AllocAssumption DEF Request
<1>2. AlignTo(n, 1) = n
  <2>1. (n + 1 - 1) \div 1 = n
    BY <1>1
  <2> QED BY <1>1, <2>1 DEF AlignTo
<1>3. n % Word = n /\ (n + z) % Word = n + z /\ e % Word = e
  <2>1. n < Word /\ n + z < Word /\ n + z \in Nat
    BY <1>1
  <2> QED BY <1>1, <2>1, Fitting
<1>4. Bump(r) = IF n + z > e THEN [base |-> 0, next |-> n] ELSE [base |-> n, next |-> n + z]
  BY <1>2, <1>3 DEF Bump
<1>5. CASE n + z > e
  BY <1>4, <1>5
<1>6. CASE ~(n + z > e)
  <2>1. n + z <= e
    BY <1>1, <1>6
  <2> QED BY <1>4, <1>6, <2>1
<1> QED BY <1>5, <1>6

\* An SRAM buffer goes behind all the others.
LEMMA MapSram ==
  ASSUME Mapped, AllocSram, UNCHANGED elideVars
  PROVE  Mapped'
<1> PICK r, got : r = Head(todo) /\ got = Bump(r)
  OBVIOUS
<1>1. /\ golden = [b \in {} |-> 0] /\ next_ \in SramBase .. SramBase + SramSize
      /\ SramBase \in Nat \ {0} /\ SramSize \in Nat /\ next_ \in Nat
      /\ curDdr \in Nat /\ DdrFirst <= curDdr
  BY AllocAssumption DEF Mapped, Room
<1>2. /\ stage = "allocs" /\ todo # <<>> /\ todo' = Tail(todo) /\ r.space = "sram"
      /\ UNCHANGED <<job, stage, curDdr, golden>>
  BY DEF AllocSram
<1>3. r.buf \notin DOMAIN golden
  BY <1>1
<1>4. /\ next_' = got.next
      /\ placed' = IF got.base = 0 THEN placed ELSE placed \union {Place(r, got.base)}
      /\ failed' = (failed \/ got.base = 0)
  BY <1>3 DEF AllocSram
<1>5. /\ JobIs' /\ Requested' /\ IsRequest(r)
      /\ Len(todo) \in Nat \ {0} /\ Len(todo') = Len(todo) - 1
  BY <1>2, MapRest
<1>6. SramId(r.buf) /\ r.size = Elements(SramShape(r.buf)) /\ r.align = 1 /\ Request(r)
  BY <1>2, <1>5 DEF IsRequest
<1>7. r.size \in Nat
  BY <1>6 DEF Request
<1>8. \/ got.base = 0 /\ got.next = next_
      \/ got.base = next_ /\ got.next = next_ + r.size /\ next_ + r.size <= SramBase + SramSize
  BY <1>1, <1>6, BumpAtNext
<1>9. next_' \in SramBase .. SramBase + SramSize /\ next_ <= next_'
  BY <1>1, <1>4, <1>7, <1>8
<1>10. Room'
  <2>1. curDdr + Len(todo) * DdrStride < Word
    BY <1>2 DEF Mapped, Room
  <2>2. DdrStride \in Nat \ {0} /\ Word \in Nat
    BY DdrAssumption, AllocAssumption
  <2>3. curDdr + (Len(todo) - 1) * DdrStride < Word
    BY <1>1, <1>5, <2>1, <2>2, StrideTaken
  <2>4. curDdr + Len(todo') * DdrStride < Word
    BY <1>5, <2>3
  <2>5. stage' = "allocs" /\ curDdr' = curDdr /\ golden' = golden
    BY <1>2
  <2> HIDE <2>1, <2>3
  <2> QED BY <1>1, <1>9, <2>4, <2>5 DEF Room
<1> PICK new : new = Place(r, next_)
  OBVIOUS
<1>11. /\ new.buf = r.buf /\ new.space = "sram" /\ new.size = r.size /\ new.base = next_
  BY <1>2 DEF Place
<1>12. placed \subseteq placed' /\ placed' \subseteq placed \union {new}
       /\ (~failed' => ~failed /\ new \in placed')
       /\ (new \notin placed' => placed' = placed)
       /\ (placed' # placed => next_' = next_ + r.size)
  BY <1>1, <1>4, <1>8
<1>13. SramAt(new)' \/ placed' = placed
  <2>1. CASE placed' # placed
    BY <1>1, <1>6, <1>7, <1>9, <1>11, <1>12, <2>1, SameCode DEF SramAt
  <2> QED BY <2>1
<1>14. ASSUME NEW p \in placed PROVE IF p.space = "sram" THEN SramAt(p)' ELSE DdrAt(p)'
  <2>1. CASE p.space = "sram"
    <3>1. SramAt(p)
      BY <2>1 DEF Mapped, PlacedWell
    <3>2. p.base + p.size <= next_'
      BY <1>1, <1>9, <3>1 DEF SramAt
    <3> QED BY <2>1, <3>1, <3>2, SameCode DEF SramAt
  <2>2. CASE p.space # "sram"
    BY <2>2 DEF Mapped, PlacedWell, DdrAt
  <2> QED BY <2>1, <2>2
<1>15. PlacedWell'
  BY <1>11, <1>12, <1>13, <1>14 DEF PlacedWell
<1>16. ASSUME NEW p \in Sram PROVE ~Overlap(p, new) /\ ~Overlap(new, p)
  <2>1. SramAt(p)
    BY DEF Mapped, PlacedWell, Sram
  <2> QED BY <1>1, <1>7, <1>11, <2>1 DEF SramAt, Overlap
<1>17. PlacedApart'
  <2>1. Sram' \subseteq Sram \union {new}
    BY <1>12 DEF Sram
  <2>2. ASSUME NEW p \in Sram', NEW q \in Sram', p # q PROVE ~Overlap(p, q)
    BY <1>16, <2>1, <2>2 DEF Mapped, PlacedApart
  <2> QED BY <2>2 DEF PlacedApart, Overlap
<1>18. Provided'
  BY <1>2, <1>11, <1>12, MapProvides
<1> QED BY <1>5, <1>10, <1>15, <1>17, <1>18 DEF Mapped

\* A DDR buffer takes the next stride.
LEMMA MapDdr ==
  ASSUME Mapped, AllocDdr, UNCHANGED elideVars
  PROVE  Mapped'
<1> PICK r : r = Head(todo)
  OBVIOUS
<1> DEFINE new == Place(r, curDdr)
<1>1. /\ golden = [b \in {} |-> 0] /\ next_ \in SramBase .. SramBase + SramSize
      /\ curDdr \in Nat /\ DdrFirst <= curDdr
  BY DEF Mapped, Room
<1>2. /\ stage = "allocs" /\ todo # <<>> /\ todo' = Tail(todo) /\ r.space = "ddr"
      /\ placed' = placed \union {new} /\ curDdr' = (curDdr + DdrStride) % Word
      /\ UNCHANGED <<job, stage, next_, golden, failed>>
  BY DEF AllocDdr
<1>3. /\ JobIs' /\ Requested' /\ IsRequest(r)
      /\ Len(todo) \in Nat \ {0} /\ Len(todo') = Len(todo) - 1
  BY <1>2, MapRest
<1>4. r.buf \in Allocs
  BY <1>2, <1>3 DEF IsRequest
<1>5. /\ curDdr' = curDdr + DdrStride /\ curDdr' \in Nat
      /\ curDdr' + Len(todo') * DdrStride < Word
  <2>1. curDdr + Len(todo) * DdrStride < Word
    BY <1>2 DEF Mapped, Room
  <2>2. DdrStride \in Nat \ {0} /\ Word \in Nat
    BY DdrAssumption, AllocAssumption
  <2>3. /\ curDdr + DdrStride \in Nat /\ curDdr + DdrStride < Word
        /\ curDdr + DdrStride + (Len(todo) - 1) * DdrStride < Word
    BY <1>1, <1>3, <2>1, <2>2, StrideTaken
  <2>4. curDdr' = curDdr + DdrStride
    <3> PICK a : a = curDdr + DdrStride
      OBVIOUS
    <3>1. a \in Nat /\ a < Word
      BY <2>3
    <3>2. a % Word = a
      BY <2>2, <3>1, Fitting
    <3> QED BY <1>2, <3>2
  <2> QED BY <1>3, <2>3, <2>4
<1>6. DdrFirst <= curDdr'
  BY <1>1, <1>5, DdrAssumption
<1>7. new.buf = r.buf /\ new.space = "ddr" /\ new.base = curDdr
  BY <1>2 DEF Place
<1> HIDE DEF new
<1>8. Room'
  BY <1>1, <1>2, <1>5, <1>6 DEF Room
<1>9. DdrAt(new)
  BY <1>1, <1>4, <1>7 DEF DdrAt, Buffers
<1>10. PlacedWell'
  BY <1>2, <1>7, <1>9, SameCode DEF Mapped, PlacedWell, SramAt, DdrAt
<1>11. PlacedApart'
  <2>1. Sram' = Sram
    BY <1>2, <1>7 DEF Sram
  <2> QED BY <2>1 DEF Mapped, PlacedApart
<1>12. Provided'
  BY <1>2, <1>7, MapProvides
<1> QED BY <1>3, <1>8, <1>10, <1>11, <1>12 DEF Mapped

LEMMA MapStep ==
  ASSUME CodeInv, MapInv, [Next]_compileVars
  PROVE  MapInv'
<1>1. CASE phase = "crashed"
  <2>1. phase' = "crashed" \/ UNCHANGED elideVars
    BY <1>1, PassSteps DEF LowerOne, WalkStore, WalkMatch, WalkOther, Visit, Rewire, EraseStore, Reject,
                           Crash, Lowered, Walked, Rewired, Elided, StartPass
  <2> QED BY <1>1, <2>1 DEF MapInv, elideVars
<1>2. CASE phase = "allocate" /\ Mapped
  <2>1. CASE Elide
    BY <1>2, <2>1 DEF Elide, ElideNext, LowerOne, WalkStore, WalkMatch, WalkOther, Visit, Rewire,
                      EraseStore, Reject, Lowered, Walked, Rewired, Elided, StartPass
  <2>2. CASE Canonicalize
    BY <1>2, <2>2 DEF Canonicalize, Mapped, JobIs
  <2>3. CASE Allocate
    <3>1. AllocStep /\ UNCHANGED elideVars
      BY <2>3 DEF Allocate
    <3>2. Mapped'
      BY <1>2, <3>1, MapArgs, MapLayout, MapSram, MapDdr DEF AllocStep
    <3> QED BY <1>2, <3>1, <3>2 DEF MapInv, elideVars
  <2>4. CASE Crash
    BY <2>4 DEF Crash, MapInv
  <2>5. CASE Emit \/ Stopped \/ UNCHANGED compileVars
    <3>1. UNCHANGED <<elideVars, allocVars>>
      BY <2>5 DEF Emit, Stopped, compileVars
    <3>2. UNCHANGED <<job, stage, todo, next_, curDdr, golden, placed, failed>>
      BY <3>1 DEF allocVars
    <3>3. JobIs' /\ Requested' /\ Room'
      BY <1>2, <3>1, <3>2, SameCode DEF Mapped, JobIs, Requested, Room
    <3>4. PlacedWell' /\ PlacedApart' /\ Provided'
      BY <1>2, <3>1, <3>2, SameCode
         DEF Mapped, PlacedWell, PlacedApart, Sram, SramAt, DdrAt, Provided, IsPlaced
    <3> QED BY <1>2, <3>1, <3>3, <3>4 DEF MapInv, Mapped, elideVars
  <2> QED BY <2>1, <2>2, <2>3, <2>4, <2>5 DEF Next
<1>3. CASE job = NoJob /\ AllocInit
  <2>1. CASE Canonicalize
    BY <1>3, <2>1, MapCanonicalize
  <2>2. CASE Crash
    BY <2>2 DEF Crash, MapInv
  <2>3. CASE Allocate \/ Emit
    BY <1>3, <2>3 DEF Allocate, Emit, ReadyToEmit
  <2>4. CASE Elide \/ Stopped \/ UNCHANGED compileVars
    <3>1. UNCHANGED allocVars
      BY <2>4 DEF Elide, Stopped, compileVars
    <3> QED BY <1>3, <3>1 DEF MapInv, AllocInit, allocVars
  <2> QED BY <2>1, <2>2, <2>3, <2>4 DEF Next
<1> QED BY <1>1, <1>2, <1>3 DEF MapInv

-----------------------------------------------------------------------------
(* Where the instructions of the trace read and write.                     *)

\* The allocator has placed everything.
Settled == CodeInv /\ phase = "allocate" /\ Mapped /\ stage # "args" /\ todo = <<>> /\ ~failed

LEMMA EverythingPlaced ==
  ASSUME Settled
  PROVE  /\ \A s \in UsedBy(Remaining) : IsPlaced(s)
         /\ \A o : IsLeft(o) /\ o.op = "load" /\ ~LeftOut(o) /\ o.buf \in Buffers => IsPlaced(o.buf)
<1>1. Len(todo) = 0
  BY DEF Settled
<1>2. \A s : Needs(s) => IsPlaced(s)
  BY <1>1 DEF Settled, Mapped, Provided
<1>3. \A b \in Args : IsPlaced(b)
  BY DEF Settled, Mapped, Provided
<1>4. ASSUME NEW o, IsLeft(o), o.op = "load", ~LeftOut(o), o.buf \in Buffers PROVE IsPlaced(o.buf)
  <2>1. o.buf \in Args \union Allocs
    BY <1>4 DEF LeftOut, Buffers
  <2>2. CASE o.buf \in Allocs
    <3>1. Needs(o.buf)
      BY <1>4, <2>2 DEF Needs, IsLeft
    <3> QED BY <1>2, <3>1
  <2> QED BY <1>3, <2>1, <2>2
<1> QED BY <1>2, <1>4 DEF Needs

\* The address of a buffer is the one of the buffer placed under its name.
LEMMA AddrIs ==
  ASSUME NEW b, IsPlaced(b)
  PROVE  \E p \in placed : p.buf = b /\ AddrOf(b) = p.base
BY DEF IsPlaced, AddrOf

LEMMA IdsArePairs ==
  ASSUME CodeInv, NEW s, SramId(s)
  PROVE  s \in Nat \X Nat /\ s \notin Buffers
<1>1. Offered(low, func) /\ Len(low) \in Nat
  BY ListOf DEF CodeInv, AllOffered, ChainInv, Recognition, IsList
<1>2. PICK i \in 1 .. Len(low) : \E y \in 1 .. Len(low[i].ins) + 1 : s = <<i, y>>
  BY DEF SramId
<1>3. Len(low[i].ins) \in 1 .. 2
  BY <1>1, OfferedIs
<1>4. PICK y \in 1 .. Len(low[i].ins) + 1 : s = <<i, y>>
  BY <1>2
<1>5. y \in Nat /\ i \in Nat
  BY <1>1, <1>3
<1> QED BY <1>4, <1>5, AddressAssumption

\* No other SRAM buffer in use reaches into this one.
Reach(s) == AddrOf(s) + Elements(SramShape(s))

LEMMA SramAddresses ==
  ASSUME Settled, NEW s \in UsedBy(Remaining)
  PROVE  /\ AddrOf(s) \in Nat /\ Elements(SramShape(s)) \in Nat /\ Reach(s) <= DdrFirst
         /\ \A t \in UsedBy(Remaining) : t # s => Reach(s) <= AddrOf(t) \/ Reach(t) <= AddrOf(s)
<1>1. ASSUME NEW t \in UsedBy(Remaining)
      PROVE  \E p \in Sram : p.buf = t /\ AddrOf(t) = p.base /\ SramAt(p)
  <2>1. IsPlaced(t)
    BY EverythingPlaced
  <2>2. PICK p \in placed : p.buf = t /\ AddrOf(t) = p.base
    BY <2>1, AddrIs
  <2>3. t \notin Buffers
    BY UsedIds, IdsArePairs DEF Settled
  <2>4. p.space = "sram" /\ SramAt(p)
    BY <2>2, <2>3 DEF Settled, Mapped, PlacedWell, DdrAt
  <2> QED BY <2>2, <2>4 DEF Sram
<1>2. PICK p \in Sram : p.buf = s /\ AddrOf(s) = p.base /\ SramAt(p)
  BY <1>1
<1>3. /\ p.base \in Nat /\ p.size \in Nat /\ p.size = Elements(SramShape(s))
      /\ p.base + p.size <= next_ /\ Reach(s) = p.base + p.size
  BY <1>2 DEF SramAt, Reach
<1>4. next_ \in SramBase .. SramBase + SramSize /\ SramBase + SramSize <= DdrFirst
      /\ SramBase \in Nat /\ SramSize \in Nat /\ DdrFirst \in Nat
  BY AddressAssumption, AllocAssumption, DdrAssumption DEF Settled, Mapped, Room
<1>5. ASSUME NEW t \in UsedBy(Remaining), t # s
      PROVE  Reach(s) <= AddrOf(t) \/ Reach(t) <= AddrOf(s)
  <2>1. PICK q \in Sram : q.buf = t /\ AddrOf(t) = q.base /\ SramAt(q)
    BY <1>1
  <2>2. q.base \in Nat /\ q.size \in Nat /\ Reach(t) = q.base + q.size
    BY <2>1 DEF SramAt, Reach
  <2>3. ~Overlap(p, q)
    BY <1>2, <1>5, <2>1 DEF Settled, Mapped, PlacedApart
  <2>4. p.base + p.size <= q.base \/ q.base + q.size <= p.base
    BY <1>3, <2>2, <2>3 DEF Overlap
  <2> QED BY <1>2, <1>3, <2>1, <2>2, <2>4
<1> QED BY <1>2, <1>3, <1>4, <1>5

LEMMA DdrAddress ==
  ASSUME Settled, NEW b \in Buffers, IsPlaced(b)
  PROVE  AddrOf(b) \in Nat /\ DdrFirst <= AddrOf(b)
<1>1. PICK p \in placed : p.buf = b /\ AddrOf(b) = p.base
  BY AddrIs
<1>2. p.space # "sram"
  BY <1>1, IdsArePairs DEF Settled, Mapped, PlacedWell, SramAt
<1> QED BY <1>1, <1>2 DEF Settled, Mapped, PlacedWell, DdrAt

LEMMA TileInside ==
  ASSUME NEW a \in Nat, NEW r \in Nat, NEW c \in Nat, NEW x \in Tile(a, r, c, c)
  PROVE  x \in Nat /\ a <= x /\ x < a + r * c
<1>1. PICK i \in 0 .. r - 1, j \in 0 .. c - 1 : x = a + c * i + j
  BY DEF Tile
<1>2. i * c + j \in 0 .. r * c - 1 /\ c * i = i * c /\ i * c \in Nat /\ r * c \in Nat
  <2>1. i * c + j \in 0 .. r * c - 1
    BY CellInTable
  <2> QED BY <2>1, SMT
<1> PICK y, z : y = i * c /\ z = r * c
  OBVIOUS
<1>3. x = a + y + j /\ y \in Nat /\ z \in Nat /\ j \in Nat /\ y + j < z
  BY <1>1, <1>2
<1> QED BY <1>3

LEMMA TileAbove ==
  ASSUME NEW a \in Nat, NEW r \in Nat, NEW c \in Nat, NEW w \in Nat, NEW x \in Tile(a, r, c, w)
  PROVE  x \in Nat /\ a <= x
<1>1. PICK i \in 0 .. r - 1, j \in 0 .. c - 1 : x = a + w * i + j
  BY DEF Tile
<1>2. i \in Nat /\ j \in Nat /\ w * i \in Nat
  BY SMT
<1> PICK y : y = w * i
  OBVIOUS
<1> QED BY <1>1, <1>2

\* A DMA_LOAD fills the SRAM buffer of its load, and reads above the SRAM.
LoadLies(d, o) ==
  /\ d.op = "DMA_LOAD" /\ d.sram = AddrOf(o.sram) /\ d.dstStride = d.cols
  /\ d.rows \in Nat /\ d.cols \in Nat /\ d.srcStride \in Nat
  /\ d.rows * d.cols = Elements(SramShape(o.sram))
  /\ d.ddr \in Nat /\ DdrFirst <= d.ddr

LEMMA ShapeOfTable == ASSUME NEW a, NEW b PROVE Elements(<<a, b>>) = a * b
BY DEF Elements

\* Operand y of an operation, and the SRAM buffer it is loaded into.
LEMMA OperandShape ==
  ASSUME CodeInv, NEW j \in 1 .. Len(low), NEW l, l = low[j], NEW y \in 1 .. Len(l.ins)
  PROVE  /\ l.ins[y] \in Buffers /\ IsShape(func.shape[l.ins[y]])
         /\ l.kind # "matmul" => SramShape(<<j, y>>) = func.shape[l.ins[y]]
         /\ l.kind = "matmul" /\ y = 1 => SramShape(<<j, y>>) = <<Rows(l.ins[y]), TileK>>
         /\ l.kind = "matmul" /\ y = 2 => SramShape(<<j, y>>) = <<TileK, Cols(l.ins[y])>>
<1> PICK sh : sh = func.shape
  OBVIOUS
<1>1. Offered(low, func)
  BY DEF CodeInv, AllOffered
<1>2. /\ func \in Functions /\ l \in Accepted(sh, func.ops[j])
      /\ IsList(l.ins) /\ \A k \in 1 .. Len(l.ins) : l.ins[k] \in Buffers
  BY <1>1, OfferedIs
<1>3. IsShape(func.shape[l.ins[y]])
  BY <1>2, FunctionAssumption DEF IsShape
<1>4. SramShape(<<j, y>>) = SramShapes(sh, l)[y]
  BY DEF SramShape
<1>5. CASE l.kind # "matmul"
  <2>1. Verified(sh, l) /\ DOMAIN l.ins = 1 .. Len(l.ins)
    BY <1>2, ListOf DEF Accepted, IsList
  <2>2. VerifyLoad(sh, l, y)
    BY <2>1 DEF Verified
  <2> QED BY <1>2, <1>3, <1>4, <1>5, <2>2 DEF VerifyLoad
<1>6. CASE l.kind = "matmul"
  <2>1. SramShapes(sh, l) = << <<sh[l.ins[1]][1], TileK>>, <<TileK, sh[l.ins[2]][2]>>,
                               <<sh[l.ins[1]][1], sh[l.ins[2]][2]>> >>
    BY <1>6 DEF SramShapes
  <2> QED BY <1>2, <1>3, <1>4, <1>6, <2>1 DEF Rows, Cols
<1> QED BY <1>5, <1>6

LEMMA LoadEmitted ==
  ASSUME Settled, NEW o, Ordinary(o), o.op = "load", ~LeftOut(o), ~HasNoColumns(o)
  PROVE  LoadLies(EmitOne(o), o)
<1> PICK j, l : j = o.at /\ l = low[j]
  OBVIOUS
<1>1. IsLeft(o) /\ j \in 1 .. Len(low) /\ OpLoad(o, l, j)
  BY Zenon DEF Ordinary
<1>2. PICK y, part, w :
        /\ y \in 1 .. Len(l.ins) /\ o = Load(j, l.ins[y], part, w, <<j, y>>)
        /\ IF l.kind = "matmul" THEN w \in Nat \ {0} /\ <<y, part>> \in {<<1, "cols">>, <<2, "rows">>}
           ELSE part = "whole"
  BY <1>1, Zenon DEF OpLoad
<1>2a. /\ l.kind # "matmul" => part = "whole"
       /\ l.kind = "matmul" => w \in Nat \ {0} /\ <<y, part>> \in {<<1, "cols">>, <<2, "rows">>}
  BY <1>2
<1>2b. y \in 1 .. Len(l.ins)
  BY <1>2
<1> PICK b, s : b = l.ins[y] /\ s = <<j, y>>
  OBVIOUS
<1>3. o.buf = b /\ o.sram = s /\ o.part = part /\ o.tile = w
  BY <1>2 DEF Load
<1>4. /\ b \in Buffers /\ IsShape(func.shape[b])
      /\ l.kind # "matmul" => SramShape(s) = func.shape[b]
      /\ l.kind = "matmul" /\ y = 1 => SramShape(s) = <<Rows(b), TileK>>
      /\ l.kind = "matmul" /\ y = 2 => SramShape(s) = <<TileK, Cols(b)>>
  BY <1>1, <1>2b, OperandShape DEF Settled
<1> PICK a, d, r, c : a = AddrOf(s) /\ d = AddrOf(b) /\ r = Rows(b) /\ c = Cols(b)
  OBVIOUS
<1>5. d \in Nat /\ DdrFirst <= d /\ DdrFirst \in Nat
  BY <1>1, <1>3, <1>4, EverythingPlaced, DdrAddress, DdrAssumption
<1>6. Len(func.shape[b]) = 2
  BY <1>3, <1>4 DEF HasNoColumns, IsShape
<1>7. r \in Nat /\ c \in Nat /\ Elements(func.shape[b]) = r * c
  <2>1. r \in Nat /\ c \in Nat
    BY <1>4, <1>6, ShapeElements DEF Rows, Cols
  <2> QED BY <1>6, <2>1, SMTT(30) DEF Elements, Rows, Cols
<1>8. TileK \in Nat \ {0}
  BY TileAssumption
<1>9. EmitOne(o) = EmitLoad(o)
  BY DEF EmitOne
<1>10. CASE l.kind # "matmul"
  <2>1. EmitLoad(o) = [op |-> "DMA_LOAD", sram |-> a, ddr |-> d + 0,
                       rows |-> r, cols |-> c, srcStride |-> c, dstStride |-> c]
    <3>1. part = "whole"
      BY <1>2a, <1>10
    <3>2. o.part = "whole" /\ o.buf = b /\ o.sram = s
      BY <1>3, <3>1
    <3>3. EmitLoad(o) = [op |-> "DMA_LOAD", sram |-> AddrOf(o.sram), ddr |-> AddrOf(o.buf) + 0,
                         rows |-> Rows(o.buf), cols |-> Cols(o.buf),
                         srcStride |-> Cols(o.buf), dstStride |-> Cols(o.buf)]
      BY <3>2 DEF EmitLoad
    <3> QED BY <3>2, <3>3
  <2>2. r * c = Elements(SramShape(s))
    BY <1>4, <1>7, <1>10
  <2> QED BY <1>3, <1>5, <1>7, <1>9, <2>1, <2>2 DEF LoadLies
<1>11. CASE l.kind = "matmul" /\ y = 1
  <2> PICK off : off = (w - 1) * TileK
    OBVIOUS
  <2>1. part = "cols" /\ w \in Nat \ {0}
    <3>1. l.kind = "matmul" /\ y = 1
      BY <1>11
    <3>2. w \in Nat \ {0} /\ <<1, part>> \in {<<1, "cols">>, <<2, "rows">>}
      BY <1>2a, <3>1
    <3> HIDE <1>2
    <3> QED BY <3>2
  <2>2. EmitLoad(o) = [op |-> "DMA_LOAD", sram |-> a, ddr |-> d + off,
                       rows |-> r, cols |-> TileK, srcStride |-> c, dstStride |-> TileK]
    <3>1. o.part = "cols" /\ o.buf = b /\ o.sram = s /\ o.tile = w
      BY <1>3, <2>1
    <3>2. EmitLoad(o) = [op |-> "DMA_LOAD", sram |-> AddrOf(o.sram),
                         ddr |-> AddrOf(o.buf) + (o.tile - 1) * TileK,
                         rows |-> Rows(o.buf), cols |-> TileK,
                         srcStride |-> Cols(o.buf), dstStride |-> TileK]
      BY <3>1 DEF EmitLoad
    <3> QED BY <3>1, <3>2
  <2>3. off \in Nat
    BY <1>8, <2>1, SMT
  <2>4. r * TileK = Elements(SramShape(s))
    BY <1>4, <1>11, ShapeOfTable
  <2>5. d + off \in Nat /\ DdrFirst <= d + off
    BY <1>5, <2>3
  <2> QED BY <1>3, <1>7, <1>8, <1>9, <2>2, <2>4, <2>5 DEF LoadLies
<1>12. CASE l.kind = "matmul" /\ y = 2
  <2> PICK off : off = (w - 1) * TileK * c
    OBVIOUS
  <2>1. part = "rows" /\ w \in Nat \ {0}
    <3>1. l.kind = "matmul" /\ y = 2
      BY <1>12
    <3>2. w \in Nat \ {0} /\ <<2, part>> \in {<<1, "cols">>, <<2, "rows">>}
      BY <1>2a, <3>1
    <3> HIDE <1>2
    <3> QED BY <3>2
  <2>2. EmitLoad(o) = [op |-> "DMA_LOAD", sram |-> a, ddr |-> d + off,
                       rows |-> TileK, cols |-> c, srcStride |-> c, dstStride |-> c]
    <3>1. o.part = "rows" /\ o.buf = b /\ o.sram = s /\ o.tile = w
      BY <1>3, <2>1
    <3>2. EmitLoad(o) = [op |-> "DMA_LOAD", sram |-> AddrOf(o.sram),
                         ddr |-> AddrOf(o.buf) + (o.tile - 1) * TileK * Cols(o.buf),
                         rows |-> TileK, cols |-> Cols(o.buf),
                         srcStride |-> Cols(o.buf), dstStride |-> Cols(o.buf)]
      BY <3>1 DEF EmitLoad
    <3> QED BY <3>1, <3>2
  <2>3. off \in Nat
    <3>1. (w - 1) * TileK \in Nat
      BY <1>8, <2>1, SMT
    <3> QED BY <1>7, <3>1, SMT
  <2>4. TileK * c = Elements(SramShape(s))
    BY <1>4, <1>12, ShapeOfTable
  <2>5. d + off \in Nat /\ DdrFirst <= d + off
    BY <1>5, <2>3
  <2> QED BY <1>3, <1>7, <1>8, <1>9, <2>2, <2>4, <2>5 DEF LoadLies
<1>13. y = 1 \/ y = 2 \/ l.kind # "matmul"
  BY <1>2a
<1> QED BY <1>10, <1>11, <1>12, <1>13

LEMMA LoadTouches ==
  ASSUME Settled, NEW d, NEW o, LoadLies(d, o), o.sram \in UsedBy(Remaining)
  PROVE  /\ \A x \in Trace!Writes(d) : x \in Nat /\ AddrOf(o.sram) <= x /\ x < Reach(o.sram)
         /\ \A x \in Trace!Reads(d) : x \in Nat /\ DdrFirst <= x
<1> PICK s, a : s = o.sram /\ a = AddrOf(s)
  OBVIOUS
<1>1. a \in Nat /\ DdrFirst \in Nat
  BY SramAddresses, DdrAssumption
<1>2. /\ d.op = "DMA_LOAD" /\ d.sram = a /\ d.dstStride = d.cols
      /\ d.rows \in Nat /\ d.cols \in Nat /\ d.srcStride \in Nat
      /\ Reach(s) = a + d.rows * d.cols /\ d.ddr \in Nat /\ DdrFirst <= d.ddr
  BY DEF LoadLies, Reach
<1>3. Trace!Writes(d) = Tile(a, d.rows, d.cols, d.cols)
  BY <1>2 DEF Trace!Writes, Trace!Tile, Tile
<1>4. Trace!Reads(d) = Tile(d.ddr, d.rows, d.cols, d.srcStride)
  BY <1>2 DEF Trace!Reads, Trace!Tile, Tile
<1>5. \A x \in Tile(a, d.rows, d.cols, d.cols) : x \in Nat /\ a <= x /\ x < a + d.rows * d.cols
  BY <1>1, <1>2, TileInside
<1>6. \A x \in Tile(d.ddr, d.rows, d.cols, d.srcStride) : x \in Nat /\ d.ddr <= x
  BY <1>2, TileAbove
<1>7. \A x \in Tile(d.ddr, d.rows, d.cols, d.srcStride) : x \in Nat /\ DdrFirst <= x
  BY <1>1, <1>2, <1>6
<1> QED BY <1>2, <1>3, <1>4, <1>5, <1>7

\* So two loads into different SRAM buffers do not collide.
LEMMA LoadsApart ==
  ASSUME Settled, NEW d, NEW o, LoadLies(d, o), o.sram \in UsedBy(Remaining),
         NEW e, NEW q, LoadLies(e, q), q.sram \in UsedBy(Remaining), o.sram # q.sram
  PROVE  /\ Trace!Writes(d) \intersect Trace!Reads(e) = {}
         /\ Trace!Reads(d) \intersect Trace!Writes(e) = {}
         /\ Trace!Writes(d) \intersect Trace!Writes(e) = {}
<1> PICK a, b, m, n, z : /\ a = AddrOf(o.sram) /\ m = Reach(o.sram)
                         /\ b = AddrOf(q.sram) /\ n = Reach(q.sram) /\ z = DdrFirst
  OBVIOUS
<1>1. /\ a \in Nat /\ b \in Nat /\ m \in Nat /\ n \in Nat /\ z \in Nat
      /\ m <= z /\ n <= z /\ (m <= b \/ n <= a)
  BY SramAddresses, DdrAssumption DEF Reach
<1>2. /\ \A x \in Trace!Writes(d) : x \in Nat /\ a <= x /\ x < m
      /\ \A x \in Trace!Reads(d) : x \in Nat /\ z <= x
  BY LoadTouches
<1>3. /\ \A x \in Trace!Writes(e) : x \in Nat /\ b <= x /\ x < n
      /\ \A x \in Trace!Reads(e) : x \in Nat /\ z <= x
  BY LoadTouches
<1>4. ASSUME NEW x \in Trace!Writes(d) \intersect Trace!Reads(e) PROVE FALSE
  BY <1>1, <1>2, <1>3
<1>5. ASSUME NEW x \in Trace!Reads(d) \intersect Trace!Writes(e) PROVE FALSE
  BY <1>1, <1>2, <1>3
<1>6. ASSUME NEW x \in Trace!Writes(d) \intersect Trace!Writes(e) PROVE FALSE
  BY <1>1, <1>2, <1>3
<1> QED BY <1>4, <1>5, <1>6

\* What is printed is the code without some loads, none of them a fence.
Printable(t) ==
  /\ IsList(t) /\ Fenced(t, 1 .. Len(t))
  /\ \A k \in 1 .. Len(t) : Ordinary(t[k]) /\ ~LeftOut(t[k]) /\ ~Unprintable(t[k])

LEMMA PrintedIs ==
  ASSUME NEW list, Orderly(list), \A n \in DOMAIN list : ~Unprintable(list[n]),
         NEW t, t = Without(list, {n \in DOMAIN list : LeftOut(list[n])})
  PROVE  Printable(t)
<1> PICK L, K, Q : L = 1 .. Len(list) /\ K = {n \in DOMAIN list : LeftOut(list[n])} /\ Q = 1 .. Len(t)
  OBVIOUS
<1> PICK P : P = L \ K
  OBVIOUS
<1>1. IsList(list) /\ Fenced(list, L) /\ \A k \in L : Ordinary(list[k])
  BY DEF Orderly
<1>2. DOMAIN list = L /\ L \subseteq Nat
  BY <1>1, ListOf DEF IsList
<1>3. Taken(t, list, P)
  BY <1>1, WithoutTakes
<1>4. \A k \in L : list[k].op = "sync" => k \in P
  BY <1>2 DEF LeftOut
<1>5. \A x, y : FenceIn(list, L, x, y) => FenceIn(list, P, x, y)
  BY <1>4 DEF FenceIn
<1>6. Fenced(list, P)
  BY <1>1, <1>5 DEF Fenced
<1>7. Fenced(t, Q)
  BY <1>2, <1>3, <1>6, FencesTaken
<1>8. IsList(t)
  BY <1>3 DEF Taken
<1>9. PICK p : TakenBy(p, t, list, P)
  BY <1>3 DEF Taken
<1>10. ASSUME NEW k \in Q PROVE Ordinary(t[k]) /\ ~LeftOut(t[k]) /\ ~Unprintable(t[k])
  <2>1. p[k] \in P /\ t[k] = list[p[k]]
    BY <1>9 DEF TakenBy
  <2>2. p[k] \in L /\ p[k] \notin K
    BY <2>1
  <2> QED BY <1>1, <1>2, <2>1, <2>2
<1> QED BY <1>7, <1>8, <1>10 DEF Printable

\* The kinds are printed one to one.
LEMMA KindsEmitted ==
  ASSUME NEW o
  PROVE  /\ o.op = "sync" => EmitOne(o).op = "SYNC"
         /\ o.op = "store" => EmitOne(o).op = "DMA_STORE"
         /\ o.op = "load" => EmitOne(o) = EmitLoad(o)
BY DEF EmitOne, EmitStore

\* Two instructions of the trace with no fence between them.
MayGoUnordered(d, e) ==
  \/ d.op = "DMA_STORE" /\ e.op = "DMA_LOAD"
  \/ /\ Trace!Writes(d) \intersect Trace!Reads(e) = {}
     /\ Trace!Reads(d) \intersect Trace!Writes(e) = {}
     /\ Trace!Writes(d) \intersect Trace!Writes(e) = {}

LEMMA UnfencedPair ==
  ASSUME Settled, NEW t, Printable(t), NEW x \in 1 .. Len(t), NEW y \in 1 .. Len(t), x < y,
         \A k \in x .. y : EmitOne(t[k]).op # "SYNC"
  PROVE  MayGoUnordered(EmitOne(t[x]), EmitOne(t[y]))
<1> PICK Q, o, q : Q = 1 .. Len(t) /\ o = t[x] /\ q = t[y]
  OBVIOUS
<1> PICK d, e : d = EmitOne(o) /\ e = EmitOne(q)
  OBVIOUS
<1>1. Fenced(t, Q) /\ Ordinary(o) /\ ~LeftOut(o) /\ ~Unprintable(o)
      /\ Ordinary(q) /\ ~LeftOut(q) /\ ~Unprintable(q)
  BY DEF Printable
<1>2. Q \subseteq Nat
  BY ListOf DEF Printable, IsList
<1>3. ~FenceIn(t, Q, x, y)
  <2> SUFFICES ASSUME NEW k \in Q, x <= k, k <= y, t[k].op = "sync" PROVE FALSE
    BY DEF FenceIn
  <2>1. k \in x .. y
    BY <1>2
  <2> QED BY <2>1, KindsEmitted
<1>4. q.op = "load" /\ (o.op = "store" \/ (o.op = "load" /\ o.sram # q.sram))
  BY <1>1, <1>3 DEF Fenced
<1>5. LoadLies(e, q)
  BY <1>1, <1>4, LoadEmitted DEF Unprintable
<1>6. CASE o.op = "store"
  BY <1>5, <1>6, KindsEmitted DEF LoadLies, MayGoUnordered
<1>7. CASE o.op = "load" /\ o.sram # q.sram
  <2>1. LoadLies(d, o)
    BY <1>1, <1>7, LoadEmitted DEF Unprintable
  <2>2. ASSUME NEW v, IsLeft(v), v.op = "load" PROVE v.sram \in UsedBy(Remaining)
    BY <2>2 DEF IsLeft, UsedBy, SramUsed
  <2>3. o.sram \in UsedBy(Remaining) /\ q.sram \in UsedBy(Remaining)
    BY <1>1, <1>4, <1>7, <2>2 DEF Ordinary
  <2> QED BY <1>5, <1>7, <2>1, <2>3, LoadsApart DEF MayGoUnordered
<1> QED BY <1>4, <1>6, <1>7

LEMMA EmitsInOrder ==
  ASSUME CodeInv, MapInv, Emit
  PROVE  OnlyStoreThenLoadUnfenced'
<1>1. phase = "allocate" /\ job # NoJob /\ AllocDone /\ ~failed
  BY DEF Emit, ReadyToEmit
<1>2. Settled
  BY <1>1 DEF MapInv, Settled, AllocDone
<1> PICK t : t = Without(Code, {n \in DOMAIN Code : LeftOut(Code[n])})
  OBVIOUS
<1>3. (\A n \in DOMAIN Code : ~Unprintable(Code[n])) /\ easm' = [n \in DOMAIN t |-> EmitOne(t[n])]
  BY DEF Emit
<1>4. Printable(t)
  BY <1>1, <1>3, CodeOrderly, PrintedIs
<1>5. DOMAIN t = 1 .. Len(t) /\ Len(t) \in Nat
  BY <1>4, ListOf DEF Printable, IsList
<1> PICK u : u = easm'
  OBVIOUS
<1>6. Len(u) = Len(t) /\ \A n \in 1 .. Len(t) : u[n] = EmitOne(t[n])
  <2> PICK m : m = Len(t)
    OBVIOUS
  <2>1. u = [n \in 1 .. m |-> u[n]] /\ \A n \in 1 .. m : u[n] = EmitOne(t[n])
    BY <1>3, <1>5
  <2> QED BY <1>5, <2>1, Listed
<1> SUFFICES ASSUME NEW i \in Trace!Index', NEW j \in Trace!Index',
                    i < j, Trace!Unfenced(i, j)', Trace!Collide(i, j)'
             PROVE  u[i].op = "DMA_STORE" /\ u[j].op = "DMA_LOAD"
  BY DEF OnlyStoreThenLoadUnfenced
<1>7. i \in 1 .. Len(t) /\ j \in 1 .. Len(t)
  BY <1>6 DEF Trace!Index
<1>8. \A k \in i .. j : EmitOne(t[k]).op # "SYNC"
  <2> SUFFICES ASSUME NEW k \in i .. j PROVE EmitOne(t[k]).op # "SYNC"
    OBVIOUS
  <2>1. k \in 1 .. Len(t)
    BY <1>5, <1>7
  <2> QED BY <1>6, <2>1 DEF Trace!Unfenced, Trace!IsSync
<1>9. u[i] = EmitOne(t[i]) /\ u[j] = EmitOne(t[j])
  BY <1>6, <1>7
<1>10. MayGoUnordered(EmitOne(t[i]), EmitOne(t[j]))
  BY <1>2, <1>4, <1>7, <1>8, UnfencedPair
<1> QED BY <1>9, <1>10 DEF Trace!Collide, MayGoUnordered

\* For every function whose buffers have addresses, the trace leaves unordered
\* nothing but a DMA_LOAD behind the DMA_STORE of an earlier operation: the
\* SYNCs of the lowerings stay in place through the elision, the unrolling and
\* the printing, and the loads of one operation fill disjoint SRAM buffers.
THEOREM OnlyReloadsUnordered == Spec => []OnlyStoreThenLoadUnfenced
<1>1. Init => CodeInv /\ MapInv /\ OnlyStoreThenLoadUnfenced
  <2>1. ASSUME Init PROVE OnlyStoreThenLoadUnfenced
    <3>1. easm = <<>>
      BY <2>1 DEF Init
    <3>2. Trace!Index = {}
      BY <3>1 DEF Trace!Index
    <3> QED BY <3>2 DEF OnlyStoreThenLoadUnfenced
  <2> QED BY <2>1, CodeStarts, MapStarts
<1>2. ASSUME CodeInv, MapInv, OnlyStoreThenLoadUnfenced, [Next]_compileVars
      PROVE  CodeInv' /\ MapInv' /\ OnlyStoreThenLoadUnfenced'
  <2>1. ASSUME Emit PROVE OnlyStoreThenLoadUnfenced'
    BY <1>2, <2>1, EmitsInOrder
  <2>2. ASSUME ~Emit PROVE OnlyStoreThenLoadUnfenced'
    <3>1. UNCHANGED easm
      BY <1>2, <2>2 DEF Next, Elide, Canonicalize, Allocate, Crash, Stopped, compileVars
    <3> QED BY <1>2, <3>1 DEF OnlyStoreThenLoadUnfenced, Trace!Index, Trace!Unfenced, Trace!IsSync,
                              Trace!Collide
  <2> QED BY <1>2, <2>1, <2>2, CodeStep, MapStep
<1> QED BY <1>1, <1>2, PTL DEF Spec
=============================================================================
