---------------------------- MODULE MCDebugLink ----------------------------
(* DebugLink on a memory that is one block of sequential access. *)
EXTENDS DebugLink

MCSeqNext == [a \in Addr |-> (a + 1) % NumWords]
MCTransfers == {<<NumWords - 2, 2>>}  \* the last word is the last of the block
=============================================================================
