------------------------------- MODULE DmaCopy -------------------------------
(***************************************************************************)
(* What the DMA engine promises: it takes one descriptor at a time, copies *)
(* the rows it names, packed, to SRAM as execDmaLoad does, in any order    *)
(* and at any pace, touches nothing else, and says done when every word is *)
(* in place.  A word of DDR is known by its address.                       *)
(***************************************************************************)
EXTENDS Integers

CONSTANTS
  SramWords,    \* the words of SRAM the engine addresses
  Descriptors,  \* [sram, ddr, rows, cols, stride], all in words
  Aligned(_)    \* the descriptors it takes

VARIABLES
  phase,   \* "idle", "busy", "done"
  job,     \* the descriptor
  copied,  \* the SRAM words written since it was taken |-> their contents
  aborts   \* the resets so far

Target(d) ==
  {[addr |-> (d.sram + i * d.cols + j) % SramWords, data |-> d.ddr + i * d.stride + j] :
     i \in 0 .. d.rows - 1, j \in 0 .. d.cols - 1}

Nothing == [a \in {} |-> 0]
Contents(writes) ==
  [a \in {w.addr : w \in writes} |-> (CHOOSE w \in writes : w.addr = a).data]

CopyInit == phase = "idle" /\ job \in Descriptors /\ copied = Nothing /\ aborts = 0

Accept ==
  /\ phase = "idle" /\ phase' = "busy"
  /\ job' \in Descriptors /\ copied' = Nothing /\ aborts' = aborts

\* Any words of the tile may be copied in one go, none is copied wrong or lost.
SomeWords ==
  /\ DOMAIN copied \subseteq DOMAIN copied'
  /\ \A a \in DOMAIN copied' :
       IF a \in DOMAIN copied THEN copied'[a] = copied[a]
       ELSE [addr |-> a, data |-> copied'[a]] \in Target(job)
  /\ job' = job

Move == phase = "busy" /\ Aligned(job) /\ SomeWords /\ UNCHANGED <<phase, aborts>>

Finish ==
  /\ phase = "busy" /\ Aligned(job) /\ copied = Contents(Target(job))
  /\ phase' = "done" /\ UNCHANGED <<job, copied, aborts>>

\* A descriptor that is not aligned is refused and nothing is copied.
Refuse ==
  /\ phase = "busy" /\ ~Aligned(job)
  /\ phase' = "idle" /\ UNCHANGED <<job, copied, aborts>>

Retire == phase = "done" /\ phase' = "idle" /\ UNCHANGED <<job, copied, aborts>>

\* Reset: the words of the last cycle are still copied, the rest is not.
Abort ==
  /\ phase # "idle" /\ phase' = "idle"
  /\ SomeWords /\ aborts' = aborts + 1

CopyNext == Accept \/ Move \/ Finish \/ Refuse \/ Retire \/ Abort

CopySpec == CopyInit /\ [][CopyNext]_<<phase, job, copied, aborts>>
=============================================================================
