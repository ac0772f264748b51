---------------------------- MODULE HazardCheck ----------------------------
(***************************************************************************)
(* tools/hazard_check.py: one pass over the trace that keeps the accesses  *)
(* made since the last SYNC and reports every later access that overlaps   *)
(* one of them.                                                            *)
(***************************************************************************)
EXTENDS Stream

VARIABLES
  cursor,       \* the next line of the trace
  active,       \* the accesses made since the last SYNC
  violations    \* the hazards found: <<index, type, earlier index>>

checkVars == <<cursor, active, violations>>

Scanned == cursor = Len(prog) + 1

Access(i, kind, ranges) == [index |-> i, kind |-> kind, ranges |-> ranges]

CheckInit ==
  /\ cursor = 1
  /\ active = {}
  /\ violations = {}

\* Mutant: the access list survives the fence.
ScanSyncKeepsActive ==
  /\ ~Scanned
  /\ IsSync(cursor)
  /\ cursor' = cursor + 1
  /\ UNCHANGED <<active, violations>>

ScanSync ==
  /\ ~Scanned
  /\ IsSync(cursor)
  /\ active' = {}
  /\ cursor' = cursor + 1
  /\ UNCHANGED violations

\* The earlier accesses of one kind that a set of ranges runs into.
Hits(kind, ranges) ==
  {e.index : e \in {f \in active : f.kind = kind /\ RangesOverlap(ranges, f.ranges)}}

Found(type, indexes) == {<<cursor, type, j>> : j \in indexes}

\* Mutant: two writes never conflict.
ScanInstrNoWAW ==
  /\ ~Scanned
  /\ ~IsSync(cursor)
  /\ LET reads  == CheckedReads(prog[cursor])
         writes == CheckedWrites(prog[cursor])
     IN  /\ violations' = violations
                            \union Found("RAW", Hits("write", reads))
                            \union Found("WAR", Hits("read", writes))
         /\ active' = active \union {Access(cursor, "read", reads),
                                     Access(cursor, "write", writes)}
  /\ cursor' = cursor + 1

ScanInstr ==
  /\ ~Scanned
  /\ ~IsSync(cursor)
  /\ LET reads  == CheckedReads(prog[cursor])
         writes == CheckedWrites(prog[cursor])
     IN  /\ violations' = violations
                            \union Found("RAW", Hits("write", reads))
                            \union Found("WAR", Hits("read", writes))
                            \union Found("WAW", Hits("write", writes))
         /\ active' = active \union {Access(cursor, "read", reads),
                                     Access(cursor, "write", writes)}
  /\ cursor' = cursor + 1

CheckNext == ScanSync \/ ScanInstr

\* The verdict main() prints: "no hazards".
Clean == Scanned /\ violations = {}
=============================================================================
