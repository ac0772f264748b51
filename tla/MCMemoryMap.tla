----------------------------- MODULE MCMemoryMap -----------------------------
(***************************************************************************)
(* Functions with up to two arguments and three allocs, of sizes up to the *)
(* whole SRAM of 16 cells and alignments 1, 2 and 4; Word is large enough  *)
(* for every sum, as 2^32 is for an SRAM that ends at 0x10080000.  The     *)
(* functions of two arguments and two results, each as large as a stride,  *)
(* are run, with every trace of up to MaxLines lines that loads arguments  *)
(* and results and stores results; some overflow the command queue.        *)
(***************************************************************************)
EXTENDS MemoryMap

CONSTANTS MaxAllocs, MaxLines

MCArgs == UNION {{[i \in 1 .. n |-> Alloc(<<"arg", i>>, "arg", s, 1)] : s \in {3, 4}} : n \in 0 .. 2}

MCShapes == [space : {"sram"}, size : {1, 3, 5, 16}, align : {1, 2, 4}]
              \union [space : {"ddr"}, size : {2, 4}, align : {4}]

MCAllocs == UNION {
  {[i \in 1 .. n |-> Alloc(<<"alloc", i>>, f[i].space, f[i].size, f[i].align)] : f \in [1 .. n -> MCShapes]} :
    n \in 1 .. MaxAllocs}

MCJobs == [args : MCArgs, allocs : MCAllocs, matmuls : {{}}, layout : {"bump"}]

\* One line of a trace of job j.
LineOf(j) ==
  {Access("sync", <<>>), Access("compute", <<>>)}
    \union {Access(k, j.allocs[i].buf) : k \in {"load", "store"}, i \in DOMAIN j.allocs}
    \union {Access("load", j.args[i].buf) : i \in DOMAIN j.args}

Run(j) ==
  /\ Len(j.args) = 2 /\ j.args[1].size = DdrStride
  /\ Len(j.allocs) = 2
  /\ \A i \in 1 .. 2 : j.allocs[i].space = "ddr" /\ j.allocs[i].size = DdrStride

MCTracesOf(j) ==
  IF Run(j) THEN UNION {[1 .. n -> LineOf(j)] : n \in 1 .. MaxLines} ELSE {}
=============================================================================
