----------------------------- MODULE Simulator -----------------------------
(***************************************************************************)
(* eclipse-run and the Simulator: the driver pushes the whole trace on a   *)
(* queue, run() pops one instruction at a time and the cmodel executes it  *)
(* to the end.  The contents of a cell is the index of the instruction     *)
(* that last wrote it, 0 for the contents before the run: what an          *)
(* instruction computes is a function of what it reads, so two runs in     *)
(* which every instruction reads the same writers compute the same values. *)
(* A cycle-log entry is a function of the instruction it is made for, so   *)
(* the log keeps the index only.                                           *)
(***************************************************************************)
EXTENDS Stream

VARIABLES
  queue,   \* queue_: the indexes pushed and not yet popped
  log,     \* log_: the indexes executed, in order
  mem,     \* sram_ and ddr_: the last writer of each cell
  seen     \* history: what each executed instruction read

simVars == <<queue, log, mem, seen>>

Loaded  == Len(log) + Len(queue) = Len(prog)
SimDone == Loaded /\ queue = <<>>

SimInit ==
  /\ queue = <<>>
  /\ log = <<>>
  /\ mem = [a \in Addr |-> 0]
  /\ seen = <<>>

\* Mutant: the driver pushes one instruction too many.
PushOneMore ==
  /\ log = <<>> /\ Len(queue) <= Len(prog)
  /\ queue' = Append(queue, Len(queue) + 1)
  /\ UNCHANGED <<log, mem, seen>>

\* The loop of eclipse-run's main: run() is called after the last push.
Push ==
  /\ ~Loaded
  /\ queue' = Append(queue, Len(queue) + 1)
  /\ UNCHANGED <<log, mem, seen>>

\* One turn of Simulator::run: pop, CModel::exec, log.
RunStep ==
  /\ Loaded
  /\ queue # <<>>
  /\ LET i == Head(queue)
     IN  /\ seen' = Append(seen, [a \in Reads(prog[i]) |-> mem[a]])
         /\ mem' = [a \in Addr |-> IF a \in Writes(prog[i]) THEN i ELSE mem[a]]
         /\ log' = Append(log, i)
  /\ queue' = Tail(queue)

SimNext == Push \/ RunStep
=============================================================================
