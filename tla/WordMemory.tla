------------------------------ MODULE WordMemory ------------------------------
(***************************************************************************)
(* What the banked SRAM promises its requesters: one flat memory.  Of the  *)
(* reads and writes on the ports some are served in a cycle and the rest   *)
(* stay.  A read gets the word from before the writes of its cycle; writes *)
(* to one address are done in their order, at most one in a cycle.         *)
(***************************************************************************)
EXTENDS Lists

CONSTANTS Addrs, ReadBatches, WriteBatches, Blank

VARIABLES
  word,      \* the memory
  reads,     \* the addresses still to be read
  writes,    \* the [addr, data] still to be written
  answer     \* the words read in the last cycle, by position in reads

MemoryInit ==
  /\ word = [a \in Addrs |-> Blank]
  /\ reads = <<>> /\ writes = <<>> /\ answer = <<>>

Ask ==
  \/ reads = <<>> /\ reads' \in ReadBatches /\ UNCHANGED <<word, writes, answer>>
  \/ writes = <<>> /\ writes' \in WriteBatches /\ UNCHANGED <<word, reads, answer>>

Serve(R, W) ==
  /\ \A k \in W, j \in 1 .. Len(writes) : j < k => writes[j].addr # writes[k].addr
  /\ answer' = [k \in R |-> word[reads[k]]]
  /\ word' = [a \in Addrs |->
                IF \E k \in W : writes[k].addr = a
                THEN writes[CHOOSE k \in W : writes[k].addr = a].data ELSE word[a]]
  /\ reads' = Without(reads, R) /\ writes' = Without(writes, W)

MemoryNext ==
  Ask \/ \E R \in SUBSET DOMAIN reads, W \in SUBSET DOMAIN writes : Serve(R, W)

MemorySpec == MemoryInit /\ [][MemoryNext]_<<word, reads, writes, answer>>
=============================================================================
