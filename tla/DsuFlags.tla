------------------------------ MODULE DsuFlags ------------------------------
(***************************************************************************)
(* What the set and clear functions of leon3_dsu.c promise of the debug    *)
(* support unit: its registers are sets of flags, a function turns one     *)
(* flag of one register on or off.  A function whose read failed turns off *)
(* the other flags of that register; one whose read took a late answer, or *)
(* whose write failed, leaves anything in it.  No other register is ever   *)
(* touched.                                                                *)
(***************************************************************************)
CONSTANTS Registers, Flags

VARIABLES
  on,   \* the flags that are on, as pairs of register and flag
  lost  \* what went wrong in the present call, or the last one

vars == <<on, lost>>

Lost == {"nothing", "read", "late", "write"}
Pairs == Registers \X Flags
Of(r) == {r} \X Flags

Init == on \subseteq Pairs /\ lost = "nothing"

Call == lost' = "nothing" /\ UNCHANGED on
ReadFails == lost' = "read" /\ UNCHANGED on
LateRead == lost' = "late" /\ UNCHANGED on

Turn(s, r, f, up) == IF up THEN s \cup {<<r, f>>} ELSE s \ {<<r, f>>}

Change(r, f, up) ==
  /\ lost = "nothing"
  /\ on' = Turn(on, r, f, up)
  /\ UNCHANGED lost

Forget(r, f, up) ==
  /\ lost = "read"
  /\ on' = Turn(on \ Of(r), r, f, up)
  /\ UNCHANGED lost

Within(r) == on' \in SUBSET Pairs /\ on' \ Of(r) = on \ Of(r)
Muddle(r) == lost = "late" /\ Within(r) /\ UNCHANGED lost
WriteFails(r) == lost' = "write" /\ Within(r)

Next ==
  \/ Call \/ ReadFails \/ LateRead
  \/ \E r \in Registers :
       \/ \E f \in Flags, up \in BOOLEAN : Change(r, f, up) \/ Forget(r, f, up)
       \/ Muddle(r) \/ WriteFails(r)

Spec == Init /\ [][Next]_vars
=============================================================================
