---------------------------- MODULE MCReduction ----------------------------
(***************************************************************************)
(* Rows of one element: for every fp16 subnormal, the halves next to every *)
(* power of two and to the infinity, the float of the same value and those *)
(* below, at and above the point half-way to the next half, of both signs, *)
(* and floats around ties of bfloat16.  Longer rows: up to MaxCols of the  *)
(* values where the rules of a maximum differ.                             *)
(***************************************************************************)
EXTENDS Reduction

CONSTANT MaxCols

NearPowers == {e * Man16 + k : e \in 1 .. 30, k \in {0, 1, 2, 511, 512, 1021, 1022, 1023}}
TestedHalves == (0 .. Man16 + 2) \union NearPowers

Around(h) == LET m == Midpoint(h) IN {Fp16ToFp32(Number(0, h)).mag, m - 1, m, m + 1}

Edges == {0, 1, Man32 - 1, Man32, Inf32 - 1, Inf32, Inf32 + 1, Inf32 + 8192, Mag32}
BfloatTies == {b * 65536 + r : b \in {0, 1, 127, 128, 16256, 32639, 32638, 32767},
                               r \in {0, 1, 32767, 32768, 32769, 65535}}

SingleMags == UNION {Around(h) : h \in TestedHalves} \union Edges \union BfloatTies

\* NaN, infinities, zeros, the smallest subnormals, one and its neighbours.
Special == {Inf32 + 1, Inf32, 0, 103 * Man32, 127 * Man32, 127 * Man32 + 4096, 127 * Man32 + 8192}

MCRows ==
  {<<Number(s, x)>> : s \in 0 .. 1, x \in SingleMags}
    \union UNION {[1 .. n -> [sign : 0 .. 1, mag : Special]] : n \in 2 .. MaxCols}
=============================================================================
