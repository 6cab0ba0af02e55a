----------------------------- MODULE MCJtagLink -----------------------------
(* JtagLink on two words, the second of which ends a block. *)
EXTENDS JtagLink

MCSeqNext == [a \in Addr |-> (a + 1) % NumWords]
MCTransfers == {<<0, NumWords>>}
=============================================================================
