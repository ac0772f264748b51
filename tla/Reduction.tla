----------------------------- MODULE Reduction -----------------------------
(***************************************************************************)
(* A row of numbers from the instruction that computes them to REDUCE_MAX  *)
(* and REDUCE_ARGMAX of it.  Results of an instruction are fp32; they are  *)
(* rounded to fp16 when they are stored and converted back when they are   *)
(* read.  The two reductions walk over the row from its first element.     *)
(***************************************************************************)
EXTENDS Dtype, Sequences

CONSTANT Rows    \* the rows of fp32 results

ASSUME RowsAssumption == Rows \subseteq Seq(Floats) \ {<<>>}

VARIABLES
  input,   \* the results of the instruction
  row,     \* the elements stored in SRAM so far
  j,       \* the number of elements the reductions have read
  max,     \* the maximum so far, of REDUCE_MAX
  arg,     \* value and index so far, of REDUCE_ARGMAX
  out      \* what the two write back, {} before

reductionVars == <<input, row, j, max, arg, out>>

(* The order of floats that are not NaN: the zeros are equal.              *)
Key(f) == IF f.sign = 1 THEN -f.mag ELSE f.mag
Greater(a, b) == ~IsNaN32(a) /\ ~IsNaN32(b) /\ Key(a) > Key(b)
Equal(a, b) == ~IsNaN32(a) /\ ~IsNaN32(b) /\ Key(a) = Key(b)

QuietNaN == Number(0, Inf32 + 4194304)

\* Mutant: of two zeros the first is kept.
ReduceMaxFirstZero(a, b) ==
  IF IsNaN32(a) \/ IsNaN32(b) THEN QuietNaN ELSE IF Greater(b, a) THEN b ELSE a

\* NaN wins; of two zeros the positive one.
ReduceMax(a, b) ==
  IF IsNaN32(a) \/ IsNaN32(b) THEN QuietNaN
  ELSE IF Greater(a, b) THEN a
  ELSE IF Greater(b, a) THEN b
  ELSE IF a.mag = 0 /\ b.mag = 0 THEN (IF a.sign = 1 THEN b ELSE a)
  ELSE a

\* Mutant: the later one of two equal values.
ReduceArgmaxLast(a, b) ==
  LET value == ReduceMax(a.value, b.value)
  IN  [value |-> value,
       index |-> IF IsNaN32(value)
                 THEN IF IsNaN32(a.value) THEN a.index ELSE b.index
                 ELSE IF Equal(b.value, value) THEN b.index ELSE a.index]

ReduceArgmax(a, b) ==
  LET value == ReduceMax(a.value, b.value)
  IN  [value |-> value,
       index |-> IF IsNaN32(value)
                 THEN IF IsNaN32(a.value) THEN a.index ELSE b.index
                 ELSE IF Equal(a.value, value) THEN a.index ELSE b.index]

-----------------------------------------------------------------------------

\* Element i, counted from 1, as readFP16 delivers it.
Element(i) == Fp16ToFp32(row[i])

RInit ==
  /\ input \in Rows
  /\ row = <<>> /\ j = 0
  /\ max = QuietNaN /\ arg = [value |-> QuietNaN, index |-> 0]
  /\ out = {}

\* writeFP16 of the next result.
StoreElement ==
  /\ Len(row) < Len(input)
  /\ row' = Append(row, Fp32ToFp16(input[Len(row) + 1]))
  /\ UNCHANGED <<input, j, max, arg, out>>

Stored == Len(row) = Len(input)

ReadFirst ==
  /\ Stored /\ j = 0
  /\ j' = 1
  /\ max' = Element(1)
  /\ arg' = [value |-> Element(1), index |-> 0]
  /\ UNCHANGED <<input, row, out>>

ReadNext ==
  /\ Stored /\ 0 < j /\ j < Len(row)
  /\ j' = j + 1
  /\ max' = ReduceMax(max, Element(j + 1))
  /\ arg' = ReduceArgmax(arg, [value |-> Element(j + 1), index |-> j])
  /\ UNCHANGED <<input, row, out>>

WriteBack ==
  /\ Stored /\ j = Len(row) /\ out = {}
  /\ out' = {[max |-> Fp32ToFp16(max), value |-> Fp32ToFp16(arg.value), index |-> arg.index]}
  /\ UNCHANGED <<input, row, j, max, arg>>

Reduced == out # {} /\ UNCHANGED reductionVars

RNext == StoreElement \/ ReadFirst \/ ReadNext \/ WriteBack \/ Reduced

RSpec == RInit /\ [][RNext]_reductionVars

-----------------------------------------------------------------------------

\* A result is stored as the fp16 number nearest to it, ties to even, through
\* subnormals, carries into the exponent and overflow to infinity; NaN stays
\* NaN (fp32ToFp16).
StoredIsNearest ==
  \A i \in 1 .. Len(row) :
    /\ row[i].sign = input[i].sign
    /\ IF IsNaN32(input[i]) THEN IsNaN16(row[i]) ELSE IsNearestHalf(row[i].mag, input[i].mag)

\* The maximum of what has been read is one of the elements, none is larger,
\* and it is +0 rather than -0 if there is a +0; it is NaN exactly if one of
\* them is, whatever the order they come in (reduceMax).
MaxIsLargest ==
  j > 0 =>
    IF \E i \in 1 .. j : IsNaN32(Element(i)) THEN IsNaN32(max)
    ELSE /\ \E i \in 1 .. j : Element(i) = max
         /\ \A i \in 1 .. j : /\ Key(Element(i)) <= Key(max)
                              /\ Element(i) = Number(0, 0) => max # Number(1, 0)

\* REDUCE_ARGMAX has the value of REDUCE_MAX and the index of the first element
\* numerically equal to it, or of the first NaN (reduceArgmax).
ArgmaxAgrees ==
  LET Has(i) == IF IsNaN32(max) THEN IsNaN32(Element(i)) ELSE Equal(Element(i), max)
  IN  j > 0 =>
        /\ arg.value = max
        /\ arg.index \in 0 .. j - 1
        /\ Has(arg.index + 1)
        /\ \A i \in 1 .. arg.index : ~Has(i)

\* What is written back is an element of the row bit for bit, and the same for
\* both reductions: the way through fp32 and back loses nothing.
MaximumIsAnElement ==
  \A r \in out :
    /\ r.max = r.value
    /\ IF \E i \in 1 .. Len(row) : IsNaN16(row[i]) THEN IsNaN16(r.max)
       ELSE \E i \in 1 .. Len(row) : row[i] = r.max

\* The conversion to bfloat16 that is kept ready rounds to the nearest, ties to
\* even, and overflows to infinity.  A NaN is not preserved: rounding can carry
\* it into the sign or leave an infinity (fp32ToBf16 looks for no NaN).
BfloatIsNearest ==
  \A i \in 1 .. Len(input) :
    LET b == Fp32ToBf16(input[i])
    IN  ~IsNaN32(input[i]) => b.sign = input[i].sign /\ IsNearestBfloat(b.mag, input[i].mag)
=============================================================================
