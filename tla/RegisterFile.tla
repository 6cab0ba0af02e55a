---------------------------- MODULE RegisterFile ----------------------------
(***************************************************************************)
(* Where leon3_dsu.c finds the registers of a core, in words from the      *)
(* start of the register file in the core's debug support unit, and where  *)
(* a SPARC core with overlapping windows keeps them.                       *)
(***************************************************************************)
EXTENDS Integers

CONSTANT NWINDOWS  \* register windows, 8 in the code

ASSUME WindowsAssumption == NWINDOWS \in 1..31

Group == 0..7
Span == NWINDOWS * 16

(* A function that refuses its window answers the bus address 0. *)
Nowhere == -1

dsu_get_output_reg_addr(n, cwp) ==
  IF cwp > NWINDOWS THEN Nowhere ELSE (cwp * 16 + 8 + n) % Span
dsu_get_local_reg_addr(n, cwp) ==
  IF cwp > NWINDOWS THEN Nowhere ELSE (cwp * 16 + 16 + n) % Span
(* Variant: the ins are the outs of the window before. *)
input_reg_addr_before(n, cwp) ==
  IF cwp > NWINDOWS THEN Nowhere ELSE (cwp * 16 - 8 + n) % Span
dsu_get_input_reg_addr(n, cwp) ==
  IF cwp > NWINDOWS THEN Nowhere ELSE (cwp * 16 + 24 + n) % Span
dsu_get_global_reg_addr(n) == Span + n
dsu_get_fpu_reg_addr(n) == 1024 + n
DSU_DOUBLE(n) == 1024 + 32 + n * 2

(* The macros for eight registers in one access. *)
DSU_REG_OUT(cwp) == (cwp * 16 + 8) % Span
DSU_REG_LOCAL(cwp) == (cwp * 16 + 16) % Span
DSU_REG_IN(cwp) == (cwp * 16 + 24) % Span
DSU_REG_GLOBAL == Span

DSU_SPECIAL == 262144
Specials == <<"y", "psr", "wim", "tbr", "pc", "npc", "fsr">>
DSU_REG_SPECIAL(name) == DSU_SPECIAL + (CHOOSE k \in 1..7 : Specials[k] = name) - 1
DSU_REG_PSR == DSU_SPECIAL + 1

IuWords == 0..(Span + 7)
FpuWords == 1024..1087
SpecialWords == DSU_SPECIAL..(DSU_SPECIAL + 6)

-----------------------------------------------------------------------------
(* The core: outs, locals and ins of a window follow one another, and the  *)
(* ins of a window are the outs of the next.  The debug support unit shows *)
(* the windows from word 8 on.                                             *)
Shown(p) == (p + 8) % Span

CoreReg(kind, n, w) ==
  CASE kind = "o" -> (w * 16 + n) % Span
    [] kind = "l" -> (w * 16 + 8 + n) % Span
    [] kind = "i" -> (w * 16 + 16 + n) % Span

Word(kind, n, w) ==
  CASE kind \in {"o", "l", "i"} -> Shown(CoreReg(kind, n, w))
    [] kind = "g" -> Span + n
    [] kind = "f" -> 1024 + n
    [] kind = "d" -> 1024 + 32 + n * 2
    [] OTHER -> DSU_REG_SPECIAL(kind)
=============================================================================
