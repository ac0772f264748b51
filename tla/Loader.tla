------------------------------- MODULE Loader -------------------------------
(***************************************************************************)
(* The DDR as eclipse-to-easm and eclipse-run share it: descriptors from   *)
(* DESC_STARTADDR upwards in the command queue, tensors above it.  The     *)
(* emitter numbers the descriptors; the driver writes the inputs first,    *)
(* then one descriptor per instruction as it pushes it, then runs; the     *)
(* cmodel reads each descriptor when it executes the instruction.  DDR is  *)
(* counted in slots of DESC_LEN bytes.                                     *)
(***************************************************************************)
EXTENDS Integers, Sequences

CONSTANTS
  DescFirst,    \* DESC_STARTADDR
  DataFirst,    \* where eclipse-run puts the first input
  Stride,       \* the distance of two inputs
  Programs,     \* the instruction streams to emit, and
  Inputs        \* the sizes of the input files, one sequence per call

(* An operation to emit: whether it is a SYNC, and the slots of the DDR it *)
(* loads from and stores to, {} for none.                                  *)
ASSUME LoaderAssumption ==
  /\ DescFirst \in Nat /\ DataFirst \in Nat /\ Stride \in Nat
  /\ \A p \in Programs : \A n \in DOMAIN p : p[n].sync \in BOOLEAN

VARIABLES
  ops,       \* what eclipse-to-easm walks over
  lines,     \* the lines emitted so far: the descriptor address of each
  descAddr,  \* the next descriptor
  inputs,    \* the sizes of the input files
  loaded,    \* the number of inputs written
  pushed,    \* the number of lines parsed and pushed
  run,       \* the number of instructions executed
  ddr,       \* the contents of the slots written so far
  read,      \* history: the contents of the descriptor each instruction read
  data       \* history: what each instruction found in the slots it loads

loaderVars == <<ops, lines, descAddr, inputs, loaded, pushed, run, ddr, read, data>>

Nothing == <<"nothing", 0>>

Slots(base, size) == {base + k : k \in 0 .. size - 1}

\* Mutant: the first input is written one stride too high.
InputSlotsShifted(t) == Slots(DataFirst + t * Stride, inputs[t])

InputSlots(t) == Slots(DataFirst + (t - 1) * Stride, inputs[t])

At(s) == IF s \in DOMAIN ddr THEN ddr[s] ELSE Nothing

Written(slots, what) ==
  [s \in DOMAIN ddr \union slots |-> IF s \in slots THEN what ELSE ddr[s]]

LoaderIdle ==
  /\ lines = <<>> /\ descAddr = DescFirst
  /\ loaded = 0 /\ pushed = 0 /\ run = 0
  /\ ddr = [s \in {} |-> Nothing]
  /\ read = <<>> /\ data = <<>>

LoaderInit == ops \in Programs /\ inputs \in Inputs /\ LoaderIdle

\* Mutant: the number of the next descriptor is taken before a SYNC is skipped,
\* so the instruction behind a SYNC gets the descriptor of the one ahead of it.
NextDescSyncRewinds(o) == IF o.sync THEN descAddr - 1 ELSE descAddr + 1

\* SYNC takes no descriptor; every other instruction takes DESC_LEN bytes.
NextDesc(o) == IF o.sync THEN descAddr ELSE descAddr + 1

EmitLine ==
  /\ Len(lines) < Len(ops)
  /\ LET o == ops[Len(lines) + 1]
     IN  /\ lines' = Append(lines, descAddr)
         /\ descAddr' = NextDesc(o)
  /\ UNCHANGED <<ops, inputs, loaded, pushed, run, ddr, read, data>>

Emitted == Len(lines) = Len(ops)

WriteInput ==
  /\ Emitted /\ loaded < Len(inputs)
  /\ ddr' = Written(InputSlots(loaded + 1), <<"input", loaded + 1>>)
  /\ loaded' = loaded + 1
  /\ UNCHANGED <<ops, lines, descAddr, inputs, pushed, run, read, data>>

PushLine ==
  /\ Emitted /\ loaded = Len(inputs) /\ pushed < Len(lines)
  /\ pushed' = pushed + 1
  /\ LET n == pushed + 1
     IN  ddr' = IF ops[n].sync THEN ddr ELSE Written({lines[n]}, <<"desc", n>>)
  /\ UNCHANGED <<ops, lines, descAddr, inputs, loaded, run, read, data>>

ExecLine ==
  /\ Emitted /\ loaded = Len(inputs) /\ pushed = Len(lines) /\ run < Len(lines)
  /\ LET n == run + 1
         o == ops[n]
     IN  /\ read' = Append(read, IF o.sync THEN <<"sync", n>> ELSE At(lines[n]))
         /\ data' = Append(data, [s \in o.load |-> At(s)])
         /\ ddr' = IF o.store = {} THEN ddr ELSE Written(o.store, <<"output", n>>)
  /\ run' = run + 1
  /\ UNCHANGED <<ops, lines, descAddr, inputs, loaded, pushed>>

LoaderStep == EmitLine \/ WriteInput \/ PushLine \/ ExecLine

LoaderDone == Emitted /\ loaded = Len(inputs) /\ run = Len(lines)

Exit == LoaderDone /\ UNCHANGED loaderVars

LoaderNext == LoaderStep \/ Exit

LoaderSpec == LoaderInit /\ [][LoaderNext]_loaderVars

-----------------------------------------------------------------------------

\* The last descriptor lies below the first tensor, and tensors lie above it.
Fits == descAddr <= DataFirst

\* Every instruction executes with the descriptor written for it: no other
\* instruction's descriptor, no input and no output of the run took its place
\* (eclipse-to-easm numbers them, eclipse-run writes them, the cmodel reads
\* them again while the stores of the same run write the DDR).
OwnDescriptor ==
  Fits => \A n \in 1 .. run : read[n] = <<IF ops[n].sync THEN "sync" ELSE "desc", n>>

\* Documented: the command queue is 0x40000000 - 0x4000FFFF and tensor data
\* starts at 0x40010000 (docs/spec/isa.md), so the descriptors leave the
\* inputs as the driver wrote them.
InputsReachTheRun ==
  pushed = Len(lines) /\ run = 0 /\ loaded = Len(inputs) =>
    \A t \in DOMAIN inputs : \A s \in InputSlots(t) : ddr[s] = <<"input", t>>
=============================================================================
