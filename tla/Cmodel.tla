------------------------------- MODULE Cmodel -------------------------------
(***************************************************************************)
(* What each instruction does to memory, element by element and in the     *)
(* order of the loops of cmodel_exec.cpp.  Elements are terms: arithmetic  *)
(* is left uninterpreted, so equal terms are equal numbers whatever fp16   *)
(* rounding does.  A matmul element lists the products summed before each  *)
(* rounding to fp16, one list per instruction that accumulated into it.    *)
(***************************************************************************)
EXTENDS Isa, Sequences, SequencesExt

Garbage == <<"garbage">>

\* A read outside the cells under study, and a write, is none of theirs.
At(mem, a) == IF a \in DOMAIN mem THEN mem[a] ELSE Garbage
Put(mem, a, v) == IF a \in DOMAIN mem THEN [mem EXCEPT ![a] = v] ELSE mem

(* A value computed from two, in either order if the operation commutes.   *)
Value(fn, a, b) == IF fn \in {"add", "mul", "max"} THEN <<fn, {a, b}>> ELSE <<fn, a, b>>
ZeroValue == <<"zero">>

Steps(n, Do(_, _), mem) == FoldLeft(Do, mem, [i \in 1 .. n |-> i - 1])

\* memcpy of each row.
ExecDma(mem, from, to, d) ==
  LET Row(m, i) == LET Elem(r, j) == Put(r, to + d.dstStride * i + j,
                                         At(m, from + d.srcStride * i + j))
                   IN  Steps(d.cols, Elem, m)
  IN  Steps(d.rows, Row, mem)

ExecMatmul(mem, d) ==
  LET Product(m, n, k) ==
        << At(mem, d.lhs + (IF d.transA THEN k * d.M + m ELSE m * d.K + k)),
           At(mem, d.rhs + (IF d.transB THEN n * d.K + k ELSE k * d.N + n)) >>
      Elem(r, x) ==
        LET sum == [k \in 1 .. d.K |-> Product(x \div d.N, x % d.N, k - 1)]
        IN  Put(r, d.dst + x, Append(IF d.acc THEN At(r, d.dst + x) ELSE <<"matmul">>, sum))
  IN  Steps(d.M * d.N, Elem, mem)

ExecElementwise(mem, d) ==
  LET Elem(m, i) ==
        LET s == (i \div d.cols) * d.stride + (i % d.blk)
        IN  Put(m, d.dst + i, Value(d.fn, At(m, d.lhs + i), At(m, d.rhs + s)))
  IN  Steps(d.rows * d.cols, Elem, mem)

ExecAct(mem, d) ==
  LET Activated(x) == IF d.kind = "relu" THEN Value("max", x, ZeroValue) ELSE <<d.kind, x>>
      Elem(m, i) == Put(m, d.dst + i, Activated(At(m, d.src + i)))
  IN  Steps(d.n, Elem, mem)

ExecReduce(mem, d) ==
  LET Term(x) == IF d.kind = "square_sum" THEN Value("mul", x, x) ELSE x
      fold == IF d.kind = "square_sum" THEN "sum" ELSE d.kind
      Row(m, i) ==
        LET row == [j \in 1 .. d.cols |-> Term(At(m, d.src + i * d.cols + j - 1))]
            val == Put(m, d.dst + i, <<fold>> \o row)
            Half(r, h) == Put(r, d.idx + i * IdxElems + h, <<"index", h>> \o row)
        IN  IF d.argmax THEN Steps(IdxElems, Half, val) ELSE val
  IN  Steps(d.rows, Row, mem)

Exec(mem, d) ==
  CASE d.op = "DMA_LOAD"  -> ExecDma(mem, d.ddr, d.sram, d)
    [] d.op = "DMA_STORE" -> ExecDma(mem, d.sram, d.ddr, d)
    [] d.op = "MATMUL"    -> ExecMatmul(mem, d)
    [] d.op = "EWISE"     -> ExecElementwise(mem, d)
    [] d.op = "ACT"       -> ExecAct(mem, d)
    [] d.op = "REDUCE"    -> ExecReduce(mem, d)
    [] d.op = "SYNC"      -> mem

\* Asking for DOMAIN m has TLC evaluate what the program did so far before the
\* loops of the next instruction begin.
ExecAll(mem, program) ==
  FoldLeft(LAMBDA m, d : IF DOMAIN m = {} THEN m ELSE Exec(m, d), mem, program)
=============================================================================
