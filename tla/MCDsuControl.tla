---------------------------- MODULE MCDsuControl ----------------------------
(* DsuControl on the two cores of a GR712RC, with the two flags that       *)
(* decide what a core does; the others only stay as they were written.     *)
EXTENDS DsuControl
=============================================================================
