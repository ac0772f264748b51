---------------------------- MODULE TraceSafety ----------------------------
(***************************************************************************)
(* One trace, three consumers: hazard_check.py scans it, eclipse-run       *)
(* executes it on the cmodel, and a device that reorders between fences    *)
(* executes it.  They share nothing but the trace, so they run one after   *)
(* the other here.  The verdict of the scan does not stop the others: a    *)
(* trace with hazards runs as well as one without.                         *)
(***************************************************************************)
EXTENDS HazardCheck, Simulator, Npu

vars == <<prog, checkVars, simVars, npuVars>>

Init == prog \in Programs /\ CheckInit /\ SimInit /\ NpuInit

Check    == CheckNext /\ UNCHANGED <<prog, simVars, npuVars>>
Simulate == Scanned /\ SimNext /\ UNCHANGED <<prog, checkVars, npuVars>>
Execute  == SimDone /\ Scanned /\ NpuNext /\ UNCHANGED <<prog, checkVars, simVars>>
Finished == NpuDone /\ SimDone /\ Scanned /\ UNCHANGED vars

Next == Check \/ Simulate \/ Execute \/ Finished

Spec == Init /\ [][Next]_vars

-----------------------------------------------------------------------------
(* Reference: the hazards of a trace, from the intervals of its lines.     *)

HazardOf(type, j, i) ==
  CASE type = "RAW" -> RangesOverlap(CheckedReads(prog[i]), CheckedWrites(prog[j]))
    [] type = "WAR" -> RangesOverlap(CheckedWrites(prog[i]), CheckedReads(prog[j]))
    [] type = "WAW" -> RangesOverlap(CheckedWrites(prog[i]), CheckedWrites(prog[j]))

Hazards(upTo) ==
  {h \in (1 .. upTo) \X {"RAW", "WAR", "WAW"} \X (1 .. upTo) :
     h[3] < h[1] /\ Unfenced(h[3], h[1]) /\ HazardOf(h[2], h[3], h[1])}

CellsOf(ranges) == UNION {r[1] .. r[2] - 1 : r \in ranges}

NonEmptyShape(d) ==
  d.op \in {"DMA_LOAD", "DMA_STORE", "EWISE", "REDUCE"} => d.rows > 0 /\ d.cols > 0

-----------------------------------------------------------------------------

\* The ranges of every component's state.
TypeOK ==
  /\ prog \in Programs
  /\ cursor \in 1 .. Len(prog) + 1
  /\ active \subseteq [index : Index, kind : {"read", "write"},
                       ranges : SUBSET (Int \X Int)]
  /\ violations \subseteq Index \X {"RAW", "WAR", "WAW"} \X Index
  /\ queue \in Seq(Index) /\ log \in Seq(Index)
  /\ mem \in [Addr -> Index \union {0}]
  /\ next \in 1 .. Len(prog) + 1
  /\ status \in [Index -> Status]
  /\ cells \in [Addr -> Index \union {0}]
  /\ DOMAIN obs = Index

\* hazard_check.py reports a pair of instructions if and only if no SYNC lies
\* between them and their intervals overlap: clearing the active list at a
\* fence forgets no hazard, and nothing stale is left in it to raise a false
\* alarm (main, lines 159-187).
CheckerIsExact == Scanned => violations = Hazards(Len(prog))

\* The intervals parse_instruction derives from a line are the cells the
\* cmodel touches when it executes that line: broadcast rhs of ELEMENTWISE,
\* accumulating MATMUL and the u32 indexes of REDUCE included.
CheckerSeesTheCells ==
  \A i \in Index : NonEmptyShape(prog[i]) =>
    /\ Reads(prog[i]) = CellsOf(CheckedReads(prog[i]))
    /\ Writes(prog[i]) = CellsOf(CheckedWrites(prog[i]))

\* A trace the checker calls clean computes on the reordering device what it
\* computes on the sequential cmodel: whatever the order the device picks,
\* every instruction reads, cell by cell, the results of the same instructions.
CleanTraceReadsTheSame ==
  Clean => \A i \in Index : status[i] \in {"running", "done"} => obs[i] = seen[i]

\* ... and leaves the same memory when it ends, tensors nobody reads included.
CleanTraceLeavesTheSame == Clean /\ NpuDone => cells = mem

\* SYNC is a fence: no instruction behind one fetches an operand before every
\* instruction ahead of it is finished (isa.md, execution model).
FenceSeparates ==
  \A i \in Index : status[i] # "waiting" =>
    \A s \in 1 .. i - 1 : IsSync(s) => \A j \in 1 .. s : status[j] = "done"
=============================================================================
