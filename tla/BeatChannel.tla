----------------------------- MODULE BeatChannel -----------------------------
(***************************************************************************)
(* What a pipeline stage promises at its two sides: beats come out in the  *)
(* order they went in, each once, and no more than Depth are inside; a     *)
(* reset forgets them all.  In one cycle a beat may go in, one come out,   *)
(* or both, but none comes out in the cycle it goes in.                    *)
(***************************************************************************)
EXTENDS Integers, Sequences

CONSTANTS Data, Depth

VARIABLES in, out

ChannelInit == in = <<>> /\ out = <<>>

Forget == in' = <<>> /\ out' = <<>>

Deliver ==
  \/ UNCHANGED out
  \/ Len(out) < Len(in) /\ out' = Append(out, in[Len(out) + 1])

Take ==
  \/ UNCHANGED in
  \/ Len(in) - Len(out) < Depth /\ \E d \in Data : in' = Append(in, d)

ChannelSpec == ChannelInit /\ [][Forget \/ (Deliver /\ Take)]_<<in, out>>
=============================================================================
