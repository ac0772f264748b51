-------------------------------- MODULE MCDma --------------------------------
(***************************************************************************)
(* Bursts of 8 words and a DDR that answers after 4 cycles, as in dma.sv,  *)
(* and an SRAM of 1024 words in 32 banks.  Tiles of up to three rows,      *)
(* shorter than, equal to and longer than a burst and than two, packed and *)
(* strided, some across word 512, where the hash of bank_xbar folds, or    *)
(* across the end of the SRAM; and two unaligned ones.                     *)
(***************************************************************************)
EXTENDS Dma, Bitwise

BitXor(b, c) == b ^^ c

Tile(sram, ddr, rows, cols, gap) ==
  [sram |-> sram, ddr |-> ddr, rows |-> rows, cols |-> cols, stride |-> cols + gap]

MCDescriptors ==
  {Tile(sram, 8, rows, cols, gap) :
     sram \in {0, 472, 504, 1016}, rows \in 0 .. 3, cols \in {1, 7, 8, 9, 19}, gap \in {0, 1, 8}}
  \union {Tile(4, 8, 1, 8, 0), Tile(8, 12, 2, 8, 0)}
=============================================================================
