------------------------------ MODULE MCBankXbar ------------------------------
(***************************************************************************)
(* Four banks of four words.  The reads are the ones of tb_bank_xbar.cpp,  *)
(* scaled down: consecutive words, one bank's words (a row stride of the   *)
(* number of banks), the padded stride, both together, one word twice, and *)
(* batches that leave ports idle; the writes collide on banks and words.   *)
(***************************************************************************)
EXTENDS BankXbar, Bitwise

BitXor(b, c) == b ^^ c

Stride(s, n) == [i \in 1 .. n |-> (i - 1) * s]
MCReadBatches ==
  {Stride(1, 4), Stride(4, 4), Stride(5, 4), Stride(4, 2) \o Stride(1, 2),
   <<5, 5, 1>>, <<6, 2>>}

W(a, d) == [addr |-> a, data |-> d]
MCWriteBatches ==
  {<<W(0, 1), W(1, 2), W(4, 1), W(5, 2)>>, <<W(5, 1), W(5, 2), W(5, 1)>>, <<W(6, 2), W(2, 1)>>, <<W(4, 2)>>}
=============================================================================
