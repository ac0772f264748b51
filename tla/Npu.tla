--------------------------------- MODULE Npu ---------------------------------
(***************************************************************************)
(* The device isa.md describes and hazard_check.py presumes: instructions  *)
(* are issued in order without waiting for each other, SYNC waits until    *)
(* all of them are finished.  Nothing orders two instructions between the  *)
(* same two fences, so each reads its operands at some moment after it is  *)
(* issued and writes its results at some later moment.  No source file     *)
(* implements this machine yet (the cmodel is sequential): it is modelled  *)
(* from the contract the compiler's SYNCs and the checker rely on.         *)
(***************************************************************************)
EXTENDS Stream

VARIABLES
  next,     \* the next instruction to issue
  status,   \* of each instruction
  cells,    \* the last writer of each cell, as in Simulator
  obs       \* history: what each instruction has read

npuVars == <<next, status, cells, obs>>

Status == {"waiting", "issued", "running", "done"}

NothingRead == [a \in {} |-> 0]

NpuInit ==
  /\ next = 1
  /\ status = [i \in Index |-> "waiting"]
  /\ cells = [a \in Addr |-> 0]
  /\ obs = [i \in Index |-> NothingRead]

NpuDone == next = Len(prog) + 1 /\ \A i \in Index : status[i] = "done"

Issue ==
  /\ next <= Len(prog)
  /\ ~IsSync(next)
  /\ status' = [status EXCEPT ![next] = "issued"]
  /\ next' = next + 1
  /\ UNCHANGED <<cells, obs>>

Fence ==
  /\ next <= Len(prog)
  /\ IsSync(next)
  /\ \A i \in 1 .. next - 1 : status[i] = "done"
  /\ status' = [status EXCEPT ![next] = "done"]
  /\ next' = next + 1
  /\ UNCHANGED <<cells, obs>>

Fetch(i) ==
  /\ status[i] = "issued"
  /\ obs' = [obs EXCEPT ![i] = [a \in Reads(prog[i]) |-> cells[a]]]
  /\ status' = [status EXCEPT ![i] = "running"]
  /\ UNCHANGED <<next, cells>>

Finish(i) ==
  /\ status[i] = "running"
  /\ cells' = [a \in Addr |-> IF a \in Writes(prog[i]) THEN i ELSE cells[a]]
  /\ status' = [status EXCEPT ![i] = "done"]
  /\ UNCHANGED <<next, obs>>

NpuNext == Issue \/ Fence \/ \E i \in Index : Fetch(i) \/ Finish(i)
=============================================================================
