--------------------------------- MODULE Dma ---------------------------------
(***************************************************************************)
(* The DMA engine of rtl/dma/dma.sv (DMA_LOAD, DDR to SRAM), one clock     *)
(* edge per step, with the DDR of tb_dma.cpp behind it.  Every cycle it    *)
(* requests up to two bursts, A and B, which may belong to different rows, *)
(* and sends a write command down a pipeline as long as the DDR takes to   *)
(* answer.  Addresses count 16-bit words; a burst has Burst of them.       *)
(***************************************************************************)
EXTENDS Integers, Sequences, FiniteSets

CONSTANTS
  Burst,        \* words in a burst, 8
  SramWords,    \* 2^AW
  NBank,        \* banks of the SRAM
  BankXor(_, _),\* exclusive or of two bank numbers
  Latency,      \* DDR_LATENCY
  Overhead,     \* DMA_FIXED_OVERHEAD of the cycle model
  Descriptors,  \* [sram, ddr, rows, cols, stride], in words
  MaxResets,    \* bound on the resets
  MaxCycles     \* where the count of clock edges stops

ASSUME DmaAssumption ==
  /\ Burst \in Nat \ {0} /\ SramWords \in Nat \ {0} /\ NBank \in Nat \ {0}
  /\ Latency \in Nat \ {0} /\ Overhead \in Nat /\ MaxResets \in Nat /\ MaxCycles \in Nat \ {0}
  /\ \A b, c \in 0 .. NBank - 1 : BankXor(b, c) \in 0 .. NBank - 1
  /\ 2 * Burst <= NBank /\ SramWords % NBank = 0
  /\ \A d \in Descriptors :
       {d.sram, d.ddr, d.rows, d.cols, d.stride} \subseteq Nat

VARIABLES
  desc,      \* the descriptor ports
  state,     \* "idle", "check", "run", "done"
  st,        \* the position: row, start of the row, block, words left, write pointer
  pl,        \* the write commands in flight, the newest first
  ring,      \* the requests the DDR is to answer, the newest first
  resets,    \* the resets so far
  written,   \* history: the SRAM words written since the last start
  bursts,    \* history: the bursts requested since
  issues,    \* history: the cycles with a request since
  cycles     \* history: the clock edges since

dmaVars == <<desc, state, st, pl, ring, resets, written, bursts, issues, cycles>>

Block(a) == a - (a % Burst)

Aligned(d) == d.sram % Burst = 0 /\ d.ddr % Burst = 0

\* A tile is not larger than the SRAM it goes to.
ASSUME TileAssumption ==
  \A d \in Descriptors : Aligned(d) => d.rows * d.cols <= SramWords

-----------------------------------------------------------------------------

\* The words of block s.blk that belong to the row: lo .. lo + take - 1.
Lo(s) == IF s.blk = Block(s.rstart) THEN s.rstart % Burst ELSE 0
Take(s) == IF s.left < Burst - Lo(s) THEN s.left ELSE Burst - Lo(s)

\* Mutant: the write pointer is rounded up to a burst at the end of a row.
AfterPadsRow(s, d) ==
  IF s.left - Take(s) = 0
  THEN [row |-> s.row + 1, rstart |-> s.rstart + d.stride,
        blk |-> Block(s.rstart + d.stride), left |-> d.cols, wptr |-> s.wptr + Burst - Lo(s)]
  ELSE [s EXCEPT !.blk = @ + Burst, !.left = @ - Take(s), !.wptr = @ + Take(s)]

\* Mutant: the write pointer stays at the end of a row.
AfterRowKeepsPointer(s, d) ==
  IF s.left - Take(s) = 0
  THEN [row |-> s.row + 1, rstart |-> s.rstart + d.stride,
        blk |-> Block(s.rstart + d.stride), left |-> d.cols, wptr |-> s.wptr]
  ELSE [s EXCEPT !.blk = @ + Burst, !.left = @ - Take(s), !.wptr = @ + Take(s)]

\* The position behind the burst at s: the same row, or the start of the next.
After(s, d) ==
  IF s.left - Take(s) = 0
  THEN [row |-> s.row + 1, rstart |-> s.rstart + d.stride,
        blk |-> Block(s.rstart + d.stride), left |-> d.cols, wptr |-> s.wptr + Take(s)]
  ELSE [s EXCEPT !.blk = @ + Burst, !.left = @ - Take(s), !.wptr = @ + Take(s)]

IssueA == state = "run" /\ st.row < desc.rows
\* Mutant: the two bursts of a cycle belong to the same row.
IssueBSameRow == IssueA /\ After(st, desc).row = st.row

IssueB == IssueA /\ After(st, desc).row < desc.rows

NoBurst == [v |-> FALSE, addr |-> 0, lo |-> 0, n |-> 0]
NoRequest == [v |-> FALSE, addr |-> 0]

Command(v, s) == IF v THEN [v |-> TRUE, addr |-> s.wptr % SramWords, lo |-> Lo(s), n |-> Take(s)]
                 ELSE NoBurst
Request(v, s) == IF v THEN [v |-> TRUE, addr |-> s.blk] ELSE NoRequest

-----------------------------------------------------------------------------

\* The word writes of a command once its burst is back; a burst is the Burst
\* words from its address on.
WordWrites(c, r) ==
  IF c.v /\ r.v
  THEN {[addr |-> (c.addr + w - c.lo) % SramWords, data |-> r.addr + w] :
          w \in c.lo .. c.lo + c.n - 1}
  ELSE {}

WritesNow == WordWrites(pl[Latency].a, ring[Latency].a)
               \union WordWrites(pl[Latency].b, ring[Latency].b)

\* Mutant: the oldest command does not count.
PlEmptyButLast == \A i \in 1 .. Latency - 1 : ~pl[i].a.v /\ ~pl[i].b.v

PlEmpty == \A i \in 1 .. Latency : ~pl[i].a.v /\ ~pl[i].b.v

\* The bank of a word, and the one bank_xbar's hash_en gives it instead.
BankOf(a) == a % NBank
HashedBankOf(a) == BankXor(a % NBank, (a \div NBank) % NBank)

\* Mutant: the pipeline moves only in a cycle with a request.
ShiftOnRequest(q, new) ==
  IF new.a.v THEN [i \in 1 .. Latency |-> IF i = 1 THEN new ELSE q[i - 1]] ELSE q

Shift(q, new) == [i \in 1 .. Latency |-> IF i = 1 THEN new ELSE q[i - 1]]

Contents(f, writes) ==
  [a \in DOMAIN f \union {w.addr : w \in writes} |->
     IF \E w \in writes : w.addr = a THEN (CHOOSE w \in writes : w.addr = a).data ELSE f[a]]

-----------------------------------------------------------------------------

Rest == [row |-> 0, rstart |-> 0, blk |-> 0, left |-> 0, wptr |-> 0]
Quiet(none) == [i \in 1 .. Latency |-> [a |-> none, b |-> none]]

DmaInit ==
  /\ desc \in Descriptors
  /\ state = "idle" /\ st = Rest
  /\ pl = Quiet(NoBurst) /\ ring = Quiet(NoRequest)
  /\ resets = 0
  /\ written = [a \in {} |-> 0] /\ bursts = 0 /\ issues = 0 /\ cycles = 0

\* The DDR takes this cycle's requests and its oldest answer is gone.
DdrStep ==
  ring' = Shift(ring, [a |-> Request(IssueA, st), b |-> Request(IssueB, After(st, desc))])

\* What every clock edge does: a command in, the writes of the oldest out.
Pipeline ==
  /\ pl' = Shift(pl, [a |-> Command(IssueA, st), b |-> Command(IssueB, After(st, desc))])
  /\ DdrStep

Write(f) == written' = Contents(f, WritesNow)

\* desc_start in S_IDLE; the host holds the descriptor until done.
Start ==
  /\ state = "idle"
  /\ state' = "check"
  /\ desc' \in Descriptors
  /\ Pipeline
  /\ Write([a \in {} |-> 0]) /\ bursts' = 0 /\ issues' = 0 /\ cycles' = 1
  /\ UNCHANGED <<st, resets>>

Elapsed ==
  /\ cycles' = IF cycles < MaxCycles THEN cycles + 1 ELSE cycles
  /\ UNCHANGED <<desc, resets>>

Check ==
  /\ state = "check"
  /\ state' = IF Aligned(desc) THEN "run" ELSE "idle"
  /\ st' = IF Aligned(desc)
           THEN [row |-> 0, rstart |-> desc.ddr, blk |-> Block(desc.ddr),
                 left |-> desc.cols, wptr |-> desc.sram % SramWords]
           ELSE st
  /\ Pipeline /\ Write(written) /\ Elapsed
  /\ UNCHANGED <<bursts, issues>>

\* A cycle in S_RUN: both bursts, one, or none while the answers drain.
Run ==
  /\ state = "run"
  /\ state' = IF ~IssueA /\ PlEmpty THEN "done" ELSE "run"
  /\ st' = IF IssueB THEN After(After(st, desc), desc)
           ELSE IF IssueA THEN After(st, desc) ELSE st
  /\ Write(written)
  /\ bursts' = bursts + (IF IssueB THEN 2 ELSE IF IssueA THEN 1 ELSE 0)
  /\ issues' = issues + (IF IssueA THEN 1 ELSE 0)
  /\ Pipeline /\ Elapsed

\* S_DONE lasts one cycle, in which desc_start goes unheard.
Done ==
  /\ state = "done"
  /\ state' = "idle"
  /\ Pipeline /\ Write(written) /\ Elapsed
  /\ UNCHANGED <<st, bursts, issues>>

\* rst_n low at a clock edge.  The DDR is not reset and answers what it was
\* asked; the commands that would have taken the answers are gone.
Reset ==
  /\ resets < MaxResets /\ resets' = resets + 1
  /\ state # "idle" /\ state' = "idle"
  /\ st' = Rest
  /\ pl' = Quiet(NoBurst)
  /\ DdrStep
  /\ Write(written)
  /\ UNCHANGED <<desc, bursts, issues, cycles>>

\* An edge in S_IDLE without desc_start.
Idle ==
  /\ state = "idle"
  /\ Pipeline /\ Write(written)
  /\ UNCHANGED <<desc, state, st, resets, bursts, issues, cycles>>

Clock == Start \/ Check \/ Run \/ Done \/ Idle

DmaNext == Clock \/ Reset

DmaSpec == DmaInit /\ [][DmaNext]_dmaVars /\ WF_dmaVars(Check \/ Run \/ Done)

-----------------------------------------------------------------------------

\* The bursts of row i, as cyclesDma and ref_bursts count them, of the first n
\* rows for every n, and of all of them.
RowBursts(d, i) ==
  LET start == d.ddr + d.stride * i
  IN  ((start + d.cols - 1) \div Burst) - (start \div Burst) + 1
BurstsBefore(d) ==
  LET sum[n \in 0 .. d.rows] == IF n = 0 THEN 0 ELSE sum[n - 1] + RowBursts(d, n - 1)
  IN  sum
ModelBursts(d) == BurstsBefore(d)[d.rows]

CeilHalf(n) == (n + 1) \div 2

\* The model's allowance covers the engine's, and the clock edges of a transfer
\* are counted to the end.
ASSUME CountAssumption ==
  /\ Latency + 3 <= Overhead
  /\ \A d \in Descriptors :
       Aligned(d) /\ d.cols > 0 => CeilHalf(ModelBursts(d)) + 3 + Latency <= MaxCycles

Phase == IF state \in {"check", "run"} THEN "busy" ELSE state

Copy == INSTANCE DmaCopy WITH
  phase <- Phase, job <- desc, copied <- written, aborts <- resets

\* The engine implements the copy: between start and done it writes exactly
\* the words of the tile, each with the contents cmodel's memcpy gives it; a
\* reset in the middle, with answers on their way, corrupts no later transfer.
ImplementsCopy == Copy!CopySpec

\* The cycle model counts the engine's bursts and its requests take half as
\* many cycles, rounded up once: a row may end and the next begin in one cycle
\* (cyclesDma against ddr_ren).
BurstsAsModelled ==
  state = "done" /\ desc.cols > 0 =>
    bursts = ModelBursts(desc) /\ issues = CeilHalf(ModelBursts(desc))

\* From start to done the engine takes the cycle model's transfer cycles and
\* 3 + DDR_LATENCY more, whatever the shape, and never more than the model.
FixedOverhead ==
  state = "done" /\ desc.cols > 0 /\ desc.rows > 0 =>
    /\ cycles = CeilHalf(ModelBursts(desc)) + 3 + Latency
    /\ cycles <= CeilHalf(ModelBursts(desc)) + Overhead

\* The words written in one cycle, across the end of a row too, lie in banks
\* of their own, so the crossbar grants them all; the engine does not look at
\* wr_grant.
OneWritePerBank ==
  /\ \A x, y \in WritesNow : BankOf(x.addr) = BankOf(y.addr) => x = y
  /\ Cardinality(WritesNow) =
       (IF ring[Latency].a.v THEN pl[Latency].a.n ELSE 0)
         + (IF ring[Latency].b.v THEN pl[Latency].b.n ELSE 0)

Fold == (NBank * NBank) \div 2

\* The exclusive or with a bank number can be undone, and its highest bit is the
\* exclusive or of the highest bits.
ASSUME XorAssumption ==
  /\ NBank % 2 = 0 /\ 4 * Burst <= NBank
  /\ \A b, c, e \in 0 .. NBank - 1 : BankXor(b, c) = BankXor(e, c) => b = e
  /\ \A b, c \in 0 .. NBank - 1 :
       (2 * BankXor(b, c) < NBank) <=> (2 * b < NBank <=> 2 * c < NBank)

\* With hash_en two words of a cycle meet in one bank, and one of them is lost,
\* only where the cycle's words lie on both sides of a multiple of NBank^2 / 2
\* (512 words): a tile that crosses none survives the hash.
HashedBanksMeetAtFolds ==
  \A x, y \in WritesNow :
    HashedBankOf(x.addr) = HashedBankOf(y.addr) =>
      x = y \/ x.addr \div Fold # y.addr \div Fold

\* An aligned descriptor is carried out and done is raised, once resets stop.
TransferFinishes ==
  (state = "check" /\ Aligned(desc) /\ resets = MaxResets) ~> state = "done"
=============================================================================
