--------------------------- MODULE PipeSliceProofs ---------------------------
(***************************************************************************)
(* Proofs about the pipeline slice, for any data and any environment that  *)
(* keeps to valid/ready.  The invariant is the type invariant and InOrder; *)
(* both are inductive together, since an edge with rst_n low establishes   *)
(* InOrder from any registers at all.                                      *)
(***************************************************************************)
EXTENDS PipeSlice, TLAPS

\* The invariant of the proofs.
PipeInv == PipeTypeOK /\ InOrder

\* A power-up state is in the types, and not out of reset.
LEMMA PipeInitInv == PipeInit => PipeInv
<1> SUFFICES ASSUME PipeInit PROVE PipeInv
  OBVIOUS
<1>1. /\ cnt \in 0 .. 3 /\ r0 \in Data /\ r1 \in Data
      /\ rst_n \in BOOLEAN /\ s_valid \in BOOLEAN /\ s_data \in Data /\ m_ready \in BOOLEAN
  BY DEF PipeInit
<1>2. stalled \in 0 .. MaxStall
  BY PipeAssumption DEF PipeInit
<1>3. sent \in Seq(Data) /\ got \in Seq(Data)
  BY DEF PipeInit
<1>4. InOrder
  BY Zenon DEF PipeInit, InOrder
<1> QED BY <1>1, <1>2, <1>3, <1>4 DEF PipeInv, PipeTypeOK

\* The edge and the environment keep the types.
LEMMA PipeTypes == PipeInv /\ [PipeNext]_pipeVars => PipeTypeOK'
<1> SUFFICES ASSUME PipeInv, [PipeNext]_pipeVars PROVE PipeTypeOK'
  OBVIOUS
<1> USE PipeAssumption DEF PipeInv, PipeTypeOK
<1>1. CASE ResetEdge
  BY <1>1 DEF ResetEdge, Reset, Environment, Upstream, Downstream, Host
<1>2. CASE TransferEdge
  <2>1. cnt' \in 0 .. 3 /\ r0' \in Data /\ r1' \in Data
    BY <1>2 DEF TransferEdge, Transfer, Count, Front, Second, push, pop
  <2>2. sent' \in Seq(Data) /\ got' \in Seq(Data)
    BY <1>2 DEF TransferEdge, Transfer, m_data
  <2>3. /\ rst_n' \in BOOLEAN /\ s_valid' \in BOOLEAN /\ s_data' \in Data
        /\ m_ready' \in BOOLEAN /\ stalled' \in 0 .. MaxStall
    BY <1>2 DEF TransferEdge, Environment, Upstream, Downstream, Host
  <2> QED BY <2>1, <2>2, <2>3
<1>3. CASE UNCHANGED pipeVars
  BY <1>3 DEF pipeVars
<1> QED BY <1>1, <1>2, <1>3 DEF PipeNext

\* An edge keeps the beats in order.
LEMMA PipeOrder == PipeInv /\ [PipeNext]_pipeVars => InOrder'
<1> SUFFICES ASSUME PipeInv, [PipeNext]_pipeVars PROVE InOrder'
  OBVIOUS
<1>1. CASE ResetEdge
  BY <1>1 DEF ResetEdge, Reset, InOrder
<1>2. CASE TransferEdge
  <2>1. /\ r0 \in Data /\ s_data \in Data /\ sent \in Seq(Data) /\ got \in Seq(Data)
        /\ cnt \in 0 .. 2 /\ Len(sent) = Len(got) + cnt
        /\ \A i \in 1 .. Len(got) : got[i] = sent[i]
        /\ cnt > 0 => sent[Len(got) + 1] = r0
        /\ cnt = 2 => sent[Len(got) + 2] = r1
    BY <1>2 DEF TransferEdge, Transfer, PipeInv, PipeTypeOK, InOrder
  <2>2. /\ push => cnt < 2
        /\ pop => cnt > 0
    BY DEF push, pop, s_ready, m_valid
  <2>3. /\ cnt' = (cnt + (IF push THEN 1 ELSE 0) - (IF pop THEN 1 ELSE 0)) % 4
        /\ r0' = IF pop /\ cnt = 2 THEN r1
                 ELSE IF push /\ (cnt = 0 \/ pop) THEN s_data ELSE r0
        /\ r1' = IF cnt = 1 /\ push /\ ~pop THEN s_data ELSE r1
    BY <1>2 DEF TransferEdge, Transfer, Count, Front, Second
  <2>4. /\ sent' = IF push THEN Append(sent, s_data) ELSE sent
        /\ got' = IF pop THEN Append(got, r0) ELSE got
    BY <1>2 DEF TransferEdge, Transfer, m_data
  <2>5. /\ Len(sent') = Len(sent) + (IF push THEN 1 ELSE 0)
        /\ \A i \in 1 .. Len(sent) : sent'[i] = sent[i]
        /\ push => sent'[Len(sent) + 1] = s_data
    BY <2>1, <2>4
  <2>6. /\ Len(got') = Len(got) + (IF pop THEN 1 ELSE 0)
        /\ \A i \in 1 .. Len(got) : got'[i] = got[i]
        /\ pop => got'[Len(got) + 1] = r0
    BY <2>1, <2>4
  <2>7. cnt' = cnt + (IF push THEN 1 ELSE 0) - (IF pop THEN 1 ELSE 0) /\ cnt' \in 0 .. 2
    BY <2>1, <2>2, <2>3
  <2>l. Len(got) \in Nat /\ Len(sent) \in Nat
    BY <2>1
  <2>8. Len(sent') = Len(got') + cnt'
    <3>1. CASE push /\ pop
      BY <3>1, <2>1, <2>l, <2>5, <2>6, <2>7
    <3>2. CASE push /\ ~pop
      BY <3>2, <2>1, <2>l, <2>5, <2>6, <2>7
    <3>3. CASE ~push
      BY <3>3, <2>1, <2>l, <2>5, <2>6, <2>7
    <3> QED BY <3>1, <3>2, <3>3
  <2>9. \A i \in 1 .. Len(got') : got'[i] = sent'[i]
    BY <2>1, <2>2, <2>5, <2>6, <2>l, <2>8
  <2>10. cnt' > 0 => sent'[Len(got') + 1] = r0'
    BY <2>1, <2>2, <2>3, <2>5, <2>6, <2>7, <2>l, <2>8
  <2>11. cnt' = 2 => sent'[Len(got') + 2] = r1'
    BY <2>1, <2>2, <2>3, <2>5, <2>6, <2>7, <2>l, <2>8
  <2> QED BY <2>7, <2>8, <2>9, <2>10, <2>11 DEF InOrder
<1>3. CASE UNCHANGED pipeVars
  BY <1>3 DEF PipeInv, InOrder, pipeVars
<1> QED BY <1>1, <1>2, <1>3 DEF PipeNext

\* Every state has its types and its beats in order.
LEMMA PipeInvariant == PipeSpec => []PipeInv
<1>1. PipeInv /\ [PipeNext]_pipeVars => PipeInv'
  BY PipeTypes, PipeOrder DEF PipeInv
<1> QED BY PipeInitInv, <1>1, PTL DEF PipeSpec

\* The registers and the histories keep to their types.
THEOREM PipeTypeCorrect == PipeSpec => []PipeTypeOK
  BY PipeInvariant, PTL DEF PipeInv

\* No beat is lost, doubled or overtaken (cnt, r0, r1 of pipe_slice).
THEOREM NoBeatLost == PipeSpec => []InOrder
  BY PipeInvariant, PTL DEF PipeInv

\* An offer stands until it is taken (m_valid, m_data of pipe_slice).
THEOREM OfferStands == PipeSpec => OfferHolds
<1>1. PipeInv /\ [PipeNext]_pipeVars =>
        [rst_n /\ m_valid /\ ~m_ready => m_valid' /\ m_data' = m_data]_pipeVars
  <2> SUFFICES ASSUME PipeInv, PipeNext, rst_n, m_valid, ~m_ready
               PROVE  m_valid' /\ m_data' = m_data
    OBVIOUS
  <2>1. Transfer
    BY DEF PipeNext, ResetEdge, TransferEdge, Reset
  <2>2. cnt \in 1 .. 2
    BY DEF PipeInv, PipeTypeOK, InOrder, m_valid
  <2> QED BY <2>1, <2>2 DEF Transfer, Count, Front, push, pop, s_ready, m_valid, m_data
<1> QED BY <1>1, PipeInvariant, PTL DEF PipeSpec, OfferHolds

\* A steady upstream leaves no cycle without an offer downstream.
THEOREM FullThroughput == PipeSpec => NoBubble
<1>1. PipeInv /\ [PipeNext]_pipeVars => [rst_n /\ s_valid => m_valid']_pipeVars
  <2> SUFFICES ASSUME PipeInv, PipeNext, rst_n, s_valid PROVE m_valid'
    OBVIOUS
  <2>1. Transfer
    BY DEF PipeNext, ResetEdge, TransferEdge, Reset
  <2>2. cnt \in 0 .. 2
    BY DEF PipeInv, PipeTypeOK, InOrder
  <2> QED BY <2>1, <2>2 DEF Transfer, Count, push, pop, s_ready, m_valid
<1> QED BY <1>1, PipeInvariant, PTL DEF PipeSpec, NoBubble

\* An edge is a step of the channel.
LEMMA StepIsChannelStep ==
  PipeInv /\ [PipeNext]_pipeVars =>
    [Channel!Forget \/ (Channel!Deliver /\ Channel!Take)]_<<sent, got>>
<1> SUFFICES ASSUME PipeInv, PipeNext
             PROVE  Channel!Forget \/ (Channel!Deliver /\ Channel!Take)
                      \/ UNCHANGED <<sent, got>>
  BY DEF pipeVars
<1>1. CASE ResetEdge
  BY <1>1 DEF ResetEdge, Reset, Channel!Forget
<1>2. CASE TransferEdge
  <2>1. /\ cnt \in 0 .. 2 /\ s_data \in Data /\ got \in Seq(Data) /\ sent \in Seq(Data)
        /\ Len(sent) = Len(got) + cnt /\ (cnt > 0 => sent[Len(got) + 1] = r0)
    BY <1>2 DEF TransferEdge, Transfer, PipeInv, InOrder, PipeTypeOK
  <2>2. /\ sent' = IF push THEN Append(sent, s_data) ELSE sent
        /\ got' = IF pop THEN Append(got, r0) ELSE got
    BY <1>2 DEF TransferEdge, Transfer, m_data
  <2>3. Channel!Deliver
    BY <2>1, <2>2 DEF Channel!Deliver, pop, m_valid
  <2>4. Channel!Take
    BY <2>1, <2>2 DEF Channel!Take, push, s_ready
  <2> QED BY <2>3, <2>4
<1> QED BY <1>1, <1>2 DEF PipeNext

\* The slice implements a channel of two beats.
THEOREM SliceIsChannel == PipeSpec => ImplementsChannel
<1>1. PipeInit => Channel!ChannelInit
  BY DEF PipeInit, Channel!ChannelInit
<1> QED BY <1>1, StepIsChannelStep, PipeInvariant, PTL
        DEF PipeSpec, ImplementsChannel, Channel!ChannelSpec
=============================================================================
