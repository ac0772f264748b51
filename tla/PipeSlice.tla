------------------------------ MODULE PipeSlice ------------------------------
(***************************************************************************)
(* The two-entry pipeline slice of rtl/pip/pipe_slice.sv between an        *)
(* upstream and a downstream that keep to valid/ready.  A state is the     *)
(* stable cycle before a clock edge, the input ports included; a step is   *)
(* the edge, and gives the ports their values in the next cycle.           *)
(***************************************************************************)
EXTENDS Integers, Sequences

CONSTANTS
  Data,       \* what s_data carries
  Zero,       \* the reset value of the registers
  MaxStall,   \* cycles on end in which the downstream may be busy
  MaxBeats    \* bound on the beats offered between two resets

ASSUME PipeAssumption == Zero \in Data /\ MaxStall \in Nat /\ MaxBeats \in Nat \ {0}

VARIABLES
  cnt, r0, r1,        \* the registers
  rst_n,              \* the reset port
  s_valid, s_data,    \* the upstream's ports
  m_ready,            \* the downstream's port
  stalled,            \* cycles since the downstream was last ready
  sent, got           \* history: the beats passed at either side since the reset

pipeVars == <<cnt, r0, r1, rst_n, s_valid, s_data, m_ready, stalled, sent, got>>

\* Mutant: a full slice takes another beat.
ReadyWhenFull == cnt < 3

s_ready == cnt < 2

\* Mutant: the last beat is not offered.
ValidButLast == cnt > 1

m_valid == cnt > 0
m_data == r0
push == s_valid /\ s_ready
pop == m_valid /\ m_ready

-----------------------------------------------------------------------------

\* At power-up the registers hold anything, the unused count 3 included.
PipeInit ==
  /\ cnt \in 0 .. 3 /\ r0 \in Data /\ r1 \in Data
  /\ rst_n = FALSE
  /\ s_valid \in BOOLEAN /\ s_data \in Data /\ m_ready \in BOOLEAN
  /\ stalled = 0
  /\ sent = <<>> /\ got = <<>>

\* Mutant: a beat out cancels the beat in of the same cycle.
CountMissesPush ==
  cnt' = IF pop THEN cnt - 1 ELSE IF push THEN cnt + 1 ELSE cnt

Count == cnt' = (cnt + (IF push THEN 1 ELSE 0) - (IF pop THEN 1 ELSE 0)) % 4

\* Mutant: the second beat does not move up.
FrontStays == r0' = IF push /\ (cnt = 0 \/ pop) THEN s_data ELSE r0

\* Mutant: a new beat goes to the front whether or not the front has left.
FrontOverwritten ==
  r0' = IF pop /\ cnt = 2 THEN r1 ELSE IF push THEN s_data ELSE r0

Front ==
  r0' = IF pop /\ cnt = 2 THEN r1
        ELSE IF push /\ (cnt = 0 \/ pop) THEN s_data ELSE r0

Second == r1' = IF cnt = 1 /\ push /\ ~pop THEN s_data ELSE r1

\* An edge with rst_n low; what the slice held is gone.
Reset ==
  /\ ~rst_n
  /\ cnt' = 0 /\ r0' = Zero /\ r1' = Zero
  /\ sent' = <<>> /\ got' = <<>>

Transfer ==
  /\ rst_n
  /\ Count /\ Front /\ Second
  /\ sent' = IF push THEN Append(sent, s_data) ELSE sent
  /\ got' = IF pop THEN Append(got, m_data) ELSE got

\* The upstream holds an offer, and its data, until it is taken.
Upstream ==
  /\ s_valid' \in BOOLEAN /\ s_data' \in Data
  /\ s_valid /\ ~(rst_n /\ s_ready) => s_valid' /\ s_data' = s_data
  /\ s_valid' => Len(sent') < MaxBeats

Downstream ==
  /\ m_ready' \in BOOLEAN
  /\ stalled < MaxStall \/ m_ready'
  /\ stalled' = IF m_ready' THEN 0 ELSE stalled + 1

Host == rst_n' \in BOOLEAN

Environment == Upstream /\ Downstream /\ Host

ResetEdge == Reset /\ Environment
TransferEdge == Transfer /\ Environment

PipeNext == ResetEdge \/ TransferEdge

PipeSpec == PipeInit /\ [][PipeNext]_pipeVars /\ WF_pipeVars(PipeNext)

-----------------------------------------------------------------------------

\* The types of the registers, the ports and the histories.
PipeTypeOK ==
  /\ cnt \in 0 .. 3 /\ r0 \in Data /\ r1 \in Data
  /\ rst_n \in BOOLEAN /\ s_valid \in BOOLEAN /\ s_data \in Data /\ m_ready \in BOOLEAN
  /\ stalled \in 0 .. MaxStall
  /\ sent \in Seq(Data) /\ got \in Seq(Data)

\* What went in is what came out and, behind it, what is still held, in order:
\* no beat is lost, doubled or overtaken, whatever the two sides do in the same
\* cycle and whatever the registers held before the reset (cnt, r0, r1).
InOrder ==
  rst_n =>
    /\ cnt <= 2 /\ Len(sent) = Len(got) + cnt
    /\ \A i \in 1 .. Len(got) : got[i] = sent[i]
    /\ cnt > 0 => sent[Len(got) + 1] = r0
    /\ cnt = 2 => sent[Len(got) + 2] = r1

Channel == INSTANCE BeatChannel WITH in <- sent, out <- got, Depth <- 2

\* At its ports the slice is a channel of two beats.
ImplementsChannel == Channel!ChannelSpec

\* A beat offered downstream and not taken is offered again in the next cycle,
\* with the same data, though a beat may come in meanwhile (m_valid, m_data).
OfferHolds ==
  [][rst_n /\ m_valid /\ ~m_ready => m_valid' /\ m_data' = m_data]_pipeVars

\* A slice with an upstream that offers a beat in every cycle has one for the
\* downstream in every cycle, after a stall too: full throughput without a
\* combinational path from m_ready to s_ready.
NoBubble == [][rst_n /\ s_valid => m_valid']_pipeVars

\* Every beat taken in is delivered, unless a reset intervenes, when the
\* downstream is ready every so often.
EveryBeatDelivered ==
  \A n \in 1 .. MaxBeats : (rst_n /\ Len(sent) >= n) ~> (Len(got) >= n \/ ~rst_n)
=============================================================================
