------------------------------- MODULE Stream -------------------------------
(***************************************************************************)
(* An instruction trace (.easm file) and what it means for two of its      *)
(* instructions to be unordered.  isa.md: instructions are issued in order *)
(* but may complete in any order; only SYNC waits for all that precede it. *)
(***************************************************************************)
EXTENDS Isa, Sequences

CONSTANTS
  Programs,   \* the traces under study
  Addr        \* every SRAM and DDR element address in range

\* CModel::sram and CModel::ddr abort on an address outside the two memories,
\* so the traces are those whose accesses stay inside.
ASSUME ProgramsAssumption ==
  /\ Addr \subseteq Nat
  /\ Programs \subseteq Seq(Instr)
  /\ \A p \in Programs : \A i \in 1 .. Len(p) :
       Reads(p[i]) \subseteq Addr /\ Writes(p[i]) \subseteq Addr

VARIABLE prog   \* the trace all the components of this behaviour work on

Index == 1 .. Len(prog)

IsSync(i) == prog[i].op = "SYNC"

\* No fence between i and j, both included.
Unfenced(i, j) == \A k \in i .. j : ~IsSync(k)

\* Two instructions whose cells the cmodel's exec functions make collide.
Collide(i, j) ==
  \/ Writes(prog[i]) \intersect Reads(prog[j]) # {}
  \/ Reads(prog[i]) \intersect Writes(prog[j]) # {}
  \/ Writes(prog[i]) \intersect Writes(prog[j]) # {}

HazardFree ==
  \A i, j \in Index : i < j /\ Unfenced(i, j) => ~Collide(i, j)
=============================================================================
