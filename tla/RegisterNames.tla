---------------------------- MODULE RegisterNames ----------------------------
(***************************************************************************)
(* The names of the command reg, uviemon_reg.c.  A name is a sequence of   *)
(* characters; those of the special registers are one element each.        *)
(***************************************************************************)
EXTENDS RegisterFile, Sequences

Digits == <<"0", "1", "2", "3", "4", "5", "6", "7", "8", "9">>
IsDigit(c, high) == \E d \in 0..high : Digits[d + 1] = c
Digit(c) == CHOOSE d \in 0..9 : Digits[d + 1] = c

Desc(name, n, w) == [name |-> name, num |-> n, window |-> w]
Invalid(w) == Desc("inv", 0, w)

(* parse_register_number is given what follows the letter, at most two     *)
(* characters, looks from the second on, and adds up.                      *)
parse_register_number(s) == IF Len(s) < 2 THEN 0 ELSE Digit(s[2])
NumberAccepted(s) == Len(s) \in {1, 2} /\ (Len(s) = 2 => IsDigit(s[2], 9))

SpecialNames == {"psr", "tbr", "wim", "y", "pc", "npc", "fsr", "sp", "fp"}
Windowed == {"g", "i", "l", "o"}

(* w is the current window, from the PSR. *)
parse_register(reg, w) ==
  CASE Len(reg) = 1 /\ reg[1] \in SpecialNames -> Desc(reg[1], 0, w)
    [] Len(reg) = 2 /\ reg[1] \in Windowed /\ IsDigit(reg[2], 7) ->
         Desc(reg[1], Digit(reg[2]), w)
    [] Len(reg) > 1 /\ reg[1] \in {"f", "d"} /\ NumberAccepted(Tail(reg)) ->
         Desc(reg[1], parse_register_number(Tail(reg)), w)
    [] Len(reg) = 2 /\ reg[1] = "w" /\ IsDigit(reg[2], 7) ->
         Desc("w", 0, Digit(reg[2]))
    [] Len(reg) = 4 /\ reg[1] = "w" /\ IsDigit(reg[2], 7) /\ IsDigit(reg[4], 7) ->
         (* only one-letter names of standard registers are found *)
         IF reg[3] \in Windowed \cup {"y", "w"}
           THEN Desc(reg[3], Digit(reg[4]), Digit(reg[2]))
           ELSE Invalid(w)
    [] OTHER -> Invalid(w)

(* The words get_value and set_value use, first word first. *)
Target(d) ==
  CASE d.name = "g" -> <<dsu_get_global_reg_addr(d.num)>>
    [] d.name = "o" -> <<dsu_get_output_reg_addr(d.num, d.window)>>
    [] d.name = "l" -> <<dsu_get_local_reg_addr(d.num, d.window)>>
    [] d.name = "i" -> <<dsu_get_input_reg_addr(d.num, d.window)>>
    [] d.name = "sp" -> <<dsu_get_output_reg_addr(6, d.window)>>
    [] d.name = "fp" -> <<dsu_get_input_reg_addr(6, d.window)>>
    [] d.name = "f" -> <<dsu_get_fpu_reg_addr(d.num)>>
    [] d.name = "d" -> <<DSU_DOUBLE(d.num), DSU_DOUBLE(d.num) + 1>>
    [] OTHER -> <<DSU_REG_SPECIAL(d.name)>>

-----------------------------------------------------------------------------
(* The number that is written. *)
WholeNumber(s) == IF Len(s) = 1 THEN Digit(s[1]) ELSE 10 * Digit(s[1]) + Digit(s[2])

(* What a name means, w being the current window. *)
Means(reg, w) ==
  CASE reg[1] = "w" /\ reg[3] # "y" -> Word(reg[3], Digit(reg[4]), Digit(reg[2]))
    [] reg[1] = "w" /\ reg[3] = "y" -> Word("y", 0, w)
    [] reg[1] = "sp" -> Word("o", 6, w)
    [] reg[1] = "fp" -> Word("i", 6, w)
    [] reg[1] \in Windowed -> Word(reg[1], Digit(reg[2]), w)
    [] reg[1] \in {"f", "d"} -> Word(reg[1], WholeNumber(Tail(reg)), w)
    [] OTHER -> Word(reg[1], 0, w)

(* The names of floating-point registers whose number is taken as written. *)
Literal(reg) == reg[1] \in {"f", "d"} => WholeNumber(Tail(reg)) = parse_register_number(Tail(reg))
=============================================================================
