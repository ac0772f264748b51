--------------------------- MODULE MCTraceSafety ---------------------------
(***************************************************************************)
(* Every trace of at most MaxLen instructions out of a small set that has  *)
(* each kind of access: strided loads, an accumulating matmul, a broadcast *)
(* elementwise, an argmax with its index, a store and a fence.  And, as    *)
(* traces of one instruction, every shape of dimensions up to MaxDim: all  *)
(* layouts of MATMUL, every legal broadcast of ELEMENTWISE, all strides of *)
(* a DMA tile, both kinds of REDUCE, the operands of each apart.           *)
(***************************************************************************)
EXTENDS TraceSafety

CONSTANTS MaxLen, MaxDim

Dma(op, sram, ddr, rows, cols, src, dst) ==
  [op |-> op, sram |-> sram, ddr |-> ddr, rows |-> rows, cols |-> cols,
   srcStride |-> src, dstStride |-> dst]

MCInstr == {
  Dma("DMA_LOAD", 0, 20, 2, 1, 2, 1),
  Dma("DMA_LOAD", 3, 21, 1, 1, 1, 1),
  [op |-> "MATMUL", dst |-> 4, lhs |-> 0, rhs |-> 2, M |-> 1, N |-> 1, K |-> 2,
   acc |-> TRUE, transA |-> FALSE, transB |-> TRUE],
  [op |-> "EWISE", dst |-> 4, lhs |-> 0, rhs |-> 2, rows |-> 2, cols |-> 1,
   blk |-> 1, stride |-> 1],
  [op |-> "REDUCE", dst |-> 5, idx |-> 0, src |-> 3, rows |-> 1, cols |-> 2,
   argmax |-> TRUE],
  Dma("DMA_STORE", 4, 21, 1, 2, 2, 2),
  [op |-> "SYNC"] }

Dims == 1 .. MaxDim
Far == MaxDim * MaxDim    \* the cells of the largest operand

MCShapes ==
  [op : {"DMA_LOAD", "DMA_STORE"}, sram : {0}, ddr : {Far}, rows : Dims, cols : Dims,
   srcStride : Dims, dstStride : Dims]
  \union [op : {"MATMUL"}, dst : {0}, lhs : {Far}, rhs : {2 * Far}, M : Dims, N : Dims,
          K : Dims, acc : BOOLEAN, transA : BOOLEAN, transB : BOOLEAN]
  \union {d \in [op : {"EWISE"}, dst : {0}, lhs : {Far}, rhs : {2 * Far}, rows : Dims,
                 cols : Dims, blk : Dims, stride : {0} \union Dims] :
            d.cols % d.blk = 0 /\ d.stride \in {0, d.blk}}
  \union [op : {"ACT"}, dst : {0}, src : {Far}, n : 0 .. Far]
  \union [op : {"REDUCE"}, dst : {0}, idx : {Far}, src : {2 * Far}, rows : Dims,
          cols : Dims, argmax : BOOLEAN]

MCPrograms == UNION {[1 .. n -> MCInstr] : n \in 1 .. MaxLen} \union {<<d>> : d \in MCShapes}
MCAddr == 0 .. 3 * Far - 1
=============================================================================
