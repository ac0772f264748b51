------------------------------ MODULE MemoryMap ------------------------------
(***************************************************************************)
(* From the addresses eclipse-allocate hands out to the run that uses      *)
(* them.  eclipse-to-easm prints the addresses of the buffers in the lines *)
(* of the trace and numbers the descriptors; eclipse-run takes neither the *)
(* addresses of the inputs nor those of the descriptors from the compiler  *)
(* but has the same numbers once more (DDR_ADDR + 0x10000 * i).            *)
(***************************************************************************)
EXTENDS EclipseAllocate, Loader

CONSTANT TracesOf(_)   \* the instruction streams of a job: its accesses to DDR

(* An instruction: SYNC, a compute instruction, or a DMA_LOAD or DMA_STORE *)
(* of a whole buffer.                                                      *)
Access(kind, b) == [kind |-> kind, buf |-> b]

\* The tensors of j in DDR: its arguments, and its allocs there.
InDdr(j, b) ==
  \/ \E i \in 1 .. Len(j.args) : b = j.args[i].buf
  \/ \E i \in 1 .. Len(j.allocs) : b = j.allocs[i].buf /\ j.allocs[i].space = "ddr"

ASSUME MapAssumption ==
  /\ DataFirst = DdrFirst /\ Stride = DdrStride
  /\ \A j \in Jobs :
       /\ \A i, k \in 1 .. Len(j.args) : j.args[i].buf = j.args[k].buf => i = k
       /\ \A i, k \in 1 .. Len(j.allocs) : j.allocs[i].buf = j.allocs[k].buf => i = k
       /\ \A i \in 1 .. Len(j.args), k \in 1 .. Len(j.allocs) : j.args[i].buf # j.allocs[k].buf
       /\ \A t \in TracesOf(j) :
            /\ t \in Seq(RangeOf(t))
            /\ \A n \in 1 .. Len(t) :
                 /\ t[n] = Access(t[n].kind, t[n].buf)
                 /\ t[n].kind \in {"load", "store"} => InDdr(j, t[n].buf)

VARIABLE trace

mapVars == <<allocVars, loaderVars, trace>>

MapInit ==
  /\ AllocStart
  /\ ops = <<>> /\ inputs = <<>> /\ LoaderIdle
  /\ trace = <<>>

Allocating == AllocStep /\ UNCHANGED <<loaderVars, trace>>

PlacedAs(b) == CHOOSE p \in placed : p.buf = b

SlotsOf(b) == Slots(PlacedAs(b).base, PlacedAs(b).size)

\* The trace with the addresses eclipse-allocate attached to the buffers, and
\* one input file per memref argument.
Compiled ==
  /\ AllocDone /\ ~failed /\ trace = <<>>
  /\ trace' \in TracesOf(job)
  /\ ops' = [n \in DOMAIN trace' |->
               [sync  |-> trace'[n].kind = "sync",
                load  |-> IF trace'[n].kind = "load" THEN SlotsOf(trace'[n].buf) ELSE {},
                store |-> IF trace'[n].kind = "store" THEN SlotsOf(trace'[n].buf) ELSE {}]]
  /\ inputs' = [i \in DOMAIN job.args |-> job.args[i].size]
  /\ UNCHANGED <<allocVars, lines, descAddr, loaded, pushed, run, ddr, read, data>>

Running == trace # <<>> /\ LoaderStep /\ UNCHANGED <<allocVars, trace>>

MapDone ==
  /\ \/ AllocDone /\ (failed \/ TracesOf(job) = {})
     \/ trace # <<>> /\ LoaderDone
  /\ UNCHANGED mapVars

MapNext == Allocating \/ Compiled \/ Running \/ MapDone

MapSpec == MapInit /\ [][MapNext]_mapVars

-----------------------------------------------------------------------------

\* What instruction n must find in the buffer it loads: what the last store to
\* the buffer left, or, in an argument, the input file of that number.
Contents(n) ==
  LET b == trace[n].buf
      stores == {m \in 1 .. n - 1 : trace[m] = Access("store", b)}
      args == {i \in DOMAIN job.args : job.args[i].buf = b}
  IN  IF stores # {} THEN <<"output", CHOOSE m \in stores : \A k \in stores : k <= m>>
      ELSE IF args # {} THEN <<"input", CHOOSE i \in args : TRUE>>
      ELSE Nothing

\* A tensor holds what was last written to it and nothing else, from the input
\* file to the last load: the arguments are where eclipse-run writes the inputs,
\* and no result, input or descriptor lies over another, as long as every
\* tensor fits its stride and the descriptors fit the command queue.
TensorsAreApart ==
  Fits /\ (\A p \in Ddr : p.size <= DdrStride) =>
    \A n \in 1 .. run : trace[n].kind = "load" =>
      LET value == Contents(n)
      IN  data[n] = [s \in SlotsOf(trace[n].buf) |-> value]
=============================================================================
