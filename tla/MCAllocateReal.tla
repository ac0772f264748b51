--------------------------- MODULE MCAllocateReal ---------------------------
(***************************************************************************)
(* One function at the addresses of eclipse_isa.h, in pages of 4 KiB, in   *)
(* which every constant is a whole number: SRAM_ADDR is 16#10000, DDR_ADDR *)
(* + 16#10000 is 16#40010, the stride 16#10, 2^32 is 2^20 pages.  An fp16  *)
(* [256, 256] has 32 pages and a [256, 16] tile of it has two.             *)
(***************************************************************************)
EXTENDS EclipseAllocate

Sram32(b) == Alloc(b, "sram", 32, 1)
Arg(b) == Alloc(b, "arg", 32, 1)

\* C = A x B, then C + bias, of [256, 256] each, with layout=golden-mirror.
MatmulAddJob ==
  [args |-> <<Arg("A"), Arg("B"), Arg("bias")>>,
   allocs |-> <<Alloc("lhs", "sram", 2, 1), Alloc("rhs", "sram", 2, 1), Sram32("dst"),
                Alloc("D", "ddr", 32, 1), Sram32("biasTile"), Sram32("sum")>>,
   matmuls |-> {<<"lhs", "rhs", "dst">>},
   layout |-> "golden-mirror"]

RealJobs == {MatmulAddJob}
=============================================================================
