---------------------------- MODULE MCTransfers ----------------------------
(* Transfers with chunks of two words and a file buffer of two chunks.     *)
EXTENDS Transfers

A == <<0, 0, 0, 0>>
B == <<1, 2, 3, 4>>
MCWords == {A, B}
MCSpoilt == <<9, 9, 9, 9>>
(* One word: memory starts as all A or all B, so it may be right or wrong. *)
MCLate == {B}
(* Too short; no body; a body that ends off a word, at the end of a buffer *)
(* and in the middle of a chunk of the second one.                         *)
MCFiles ==
  {[size |-> 2, word |-> <<>>], [size |-> 4, word |-> <<>>],
   [size |-> 10, word |-> <<B>>],
   [size |-> 20, word |-> <<A, B, A, B>>],
   [size |-> 27, word |-> <<A, A, A, B, B>>]}
MCAddresses == {1, 8, 14, 15}
MCLengths == {1, 3, 9}
=============================================================================
