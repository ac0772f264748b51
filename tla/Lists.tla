-------------------------------- MODULE Lists --------------------------------
(***************************************************************************)
(* Taking elements out of a list.                                          *)
(***************************************************************************)
EXTENDS Integers, Sequences

\* The elements of s at the positions not in K, taken over one after the other.
Without(s, K) ==
  LET keep[n \in 0 .. Len(s)] ==
        IF n = 0 THEN <<>> ELSE IF n \in K THEN keep[n - 1] ELSE Append(keep[n - 1], s[n])
  IN  keep[Len(s)]
=============================================================================
