----------------------------- MODULE MCPipeSlice -----------------------------
(***************************************************************************)
(* Two values of data and five beats, over twice what the slice holds, so  *)
(* that it is filled, drained and filled again; a downstream ready in one  *)
(* cycle of four, as in tb_pipe_slice.cpp.                                 *)
(***************************************************************************)
EXTENDS PipeSlice
=============================================================================
