----------------------------- MODULE MCJtagScan -----------------------------
(* JtagScan on two words, the second of which ends a block. *)
EXTENDS JtagScan

MCSeqNext == [a \in Addr |-> (a + 1) % NumWords]
=============================================================================
