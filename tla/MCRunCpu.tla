------------------------------ MODULE MCRunCpu ------------------------------
(* RunCpu on the two cores of a GR712RC. *)
EXTENDS RunCpu

MCFirst == {0}
MCBoth == {0, 1}
=============================================================================
