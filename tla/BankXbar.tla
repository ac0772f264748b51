------------------------------- MODULE BankXbar -------------------------------
(***************************************************************************)
(* The banked SRAM: the crossbar of rtl/bank/bank_xbar.sv over the banks   *)
(* of bank_mem.sv and sram.sv, with the requesters of tb_bank_xbar.cpp,    *)
(* which put what was not granted back on the first ports.  A step is a    *)
(* clock edge, or a requester with nothing left taking up a new batch.     *)
(* Port i of the code is port i + 1 here.                                  *)
(***************************************************************************)
EXTENDS FiniteSetsExt, Lists

CONSTANTS
  NBANK, DEPTH,    \* banks, and words in each
  Blank,           \* the reset value of a bank's output
  BankXor(_, _),   \* exclusive or of two bank numbers
  ReadBatches,     \* sequences of addresses
  WriteBatches     \* sequences of [addr, data]

Banks == 0 .. NBANK - 1
Locals == 0 .. DEPTH - 1
Addrs == 0 .. NBANK * DEPTH - 1
Ports == 1 .. NBANK

ASSUME XbarAssumption ==
  /\ NBANK \in Nat \ {0} /\ DEPTH \in Nat \ {0}
  /\ \A b, c \in Banks : BankXor(b, c) \in Banks /\ BankXor(BankXor(b, c), c) = b
  /\ \A s \in ReadBatches : s \in Seq(Addrs) /\ Len(s) \in Ports
  /\ \A s \in WriteBatches :
       /\ s = [i \in 1 .. Len(s) |-> s[i]] /\ Len(s) \in Ports
       /\ \A i \in DOMAIN s : s[i].addr \in Addrs

VARIABLES
  hash_en,       \* whether the bank is hashed; fixed by the design
  mem,           \* the banks
  b_rd_data,     \* each bank's output register
  grant,         \* which reads were granted at the last edge
  bank_of_d,     \* the banks the ports read at the last edge
  reads, writes, \* what is on the ports
  asked,         \* history: how many reads were on the ports at the last edge
  rounds         \* history: the edges due and taken, of the present batches

xbarVars == <<hash_en, mem, b_rd_data, grant, bank_of_d, reads, writes, asked, rounds>>

Bank(a) ==
  IF hash_en THEN BankXor(a % NBANK, (a \div NBANK) % NBANK) ELSE a % NBANK
Local(a) == a \div NBANK

-----------------------------------------------------------------------------

\* An idle read port has address 0: reads carry no valid bit.
req_addr(i) == IF i \in DOMAIN reads THEN reads[i] ELSE 0

\* Mutant: one flag for all the banks instead of one for each.
FirstPortOnly(i) == i = 1

\* The lowest port of those that want a bank has it.
served(i) == \A j \in 1 .. i - 1 : Bank(req_addr(j)) # Bank(req_addr(i))

Readers(b) == {i \in Ports : Bank(req_addr(i)) = b}
b_rd_addr(b) == IF Readers(b) = {} THEN 0 ELSE Local(req_addr(Min(Readers(b))))

\* Mutant: the bank of the port's present request, not of the one answered.
RdDataOfNow(i) == b_rd_data[Bank(req_addr(i))]

rd_data(i) == b_rd_data[bank_of_d[i]]

wr_grant(i) ==
  i \in DOMAIN writes /\ \A j \in 1 .. i - 1 : Bank(writes[j].addr) # Bank(writes[i].addr)

\* A bank takes the write of the lowest port that wants it.
Writers(b) == {i \in DOMAIN writes : Bank(writes[i].addr) = b}
Written(b, l) ==
  IF Writers(b) # {} /\ Local(writes[Min(Writers(b))].addr) = l
  THEN writes[Min(Writers(b))].data ELSE mem[b][l]

-----------------------------------------------------------------------------

\* The most requests of a sequence for one bank.
Crowd(addrs) ==
  Max({Cardinality({i \in DOMAIN addrs : Bank(addrs[i]) = b}) : b \in Banks})
WriteAddrs == [i \in DOMAIN writes |-> writes[i].addr]

NoRounds == [readsDue |-> 0, reads |-> 0, writesDue |-> 0, writes |-> 0]

XbarInit ==
  /\ hash_en \in BOOLEAN
  /\ mem = [b \in Banks |-> [l \in Locals |-> Blank]]
  /\ b_rd_data = [b \in Banks |-> Blank]
  /\ grant = [i \in Ports |-> FALSE] /\ bank_of_d = [i \in Ports |-> 0]
  /\ reads = <<>> /\ writes = <<>>
  /\ asked = 0 /\ rounds = NoRounds

\* At every edge, in reset too: the granted writes are in the banks.
WriteSide ==
  /\ mem' = [b \in Banks |-> [l \in Locals |-> Written(b, l)]]
  /\ writes' = Without(writes, {i \in DOMAIN writes : wr_grant(i)})

ReadSide ==
  /\ b_rd_data' = [b \in Banks |-> mem[b][b_rd_addr(b)]]
  /\ grant' = [i \in Ports |-> served(i)]
  /\ bank_of_d' = [i \in Ports |-> Bank(req_addr(i))]
  /\ reads' = Without(reads, {i \in DOMAIN reads : served(i)})
  /\ asked' = Len(reads)

ClockEdge ==
  /\ ReadSide /\ WriteSide
  /\ rounds' = [rounds EXCEPT !.reads = IF reads = <<>> THEN @ ELSE @ + 1,
                              !.writes = IF writes = <<>> THEN @ ELSE @ + 1]
  /\ UNCHANGED hash_en

\* An edge with rst_n low: no read is answered.
ResetEdge ==
  /\ b_rd_data' = [b \in Banks |-> Blank]
  /\ grant' = [i \in Ports |-> FALSE] /\ bank_of_d' = [i \in Ports |-> 0]
  /\ WriteSide
  /\ rounds' = [rounds EXCEPT !.writes = IF writes = <<>> THEN @ ELSE @ + 1]
  /\ asked' = Len(reads)
  /\ UNCHANGED <<hash_en, reads>>

NewReads ==
  /\ reads = <<>> /\ reads' \in ReadBatches
  /\ rounds' = [rounds EXCEPT !.readsDue = Crowd(reads'), !.reads = 0]
  /\ UNCHANGED <<hash_en, mem, b_rd_data, grant, bank_of_d, writes, asked>>

NewWrites ==
  /\ writes = <<>> /\ writes' \in WriteBatches
  /\ rounds' = [rounds EXCEPT !.writesDue = Crowd(WriteAddrs'), !.writes = 0]
  /\ UNCHANGED <<hash_en, mem, b_rd_data, grant, bank_of_d, reads, asked>>

XbarNext == ClockEdge \/ ResetEdge \/ NewReads \/ NewWrites

XbarSpec == XbarInit /\ [][XbarNext]_xbarVars

-----------------------------------------------------------------------------

Memory == INSTANCE WordMemory WITH
  word <- [a \in Addrs |-> mem[Bank(a)][Local(a)]],
  answer <- [i \in {p \in 1 .. asked : grant[p]} |-> rd_data(i)]

\* Seen from its ports the banked SRAM is one memory: a granted read has, one
\* cycle later, the word its address held before that edge, whatever has taken
\* its port since; a write not granted changes nothing and one granted is done;
\* the writes to one address keep their order (bank_xbar over sram).
ImplementsMemory == Memory!MemorySpec

\* A batch is done in as many edges as the most crowded bank has requests,
\* neither more nor fewer: no bank idles while a request for it waits, and the
\* address 0 on idle read ports takes no bank from a request (served, found).
RoundsAreConflicts ==
  /\ rounds.reads + Crowd(reads) = rounds.readsDue
  /\ rounds.writes + Crowd(WriteAddrs) = rounds.writesDue
=============================================================================
