-------------------------------- MODULE Leon --------------------------------
(***************************************************************************)
(* What uviemon sees of the target through its registers: the cores with   *)
(* their debug support unit, the UART the programs print to, the timers.   *)
(* All of it is external, modelled from the register descriptions in       *)
(* leon3_dsu.h and leon3_dsu.c and from how ftdi_device.c uses it; pure    *)
(* operators on one record, the target, that RunCpu carries as a state.    *)
(*                                                                         *)
(* Of a program matters what it prints and that it stops by a trap, of an  *)
(* address whether it is the boot software's ("boot") or that of the       *)
(* loaded program ("ram").  A core that goes on after a trap is "stray".   *)
(***************************************************************************)
EXTENDS Integers, Sequences

CONSTANTS
  NumCores,   \* cores with a DSU
  FifoDepth,  \* characters the UART holds
  MaxOut      \* bound: characters a program prints before it stops

Cores == 0..NumCores - 1
Flags == {"TE", "BE", "BW", "BS", "BX", "BZ"}
Status == {"DM", "PE", "HL"}
Entries == {"boot", "ram"}
Traps == {"ok", "bad"}  \* trap types: 0x80, any other

Core(mode, down) ==
  [mode |-> mode, down |-> down, halt |-> FALSE, flags |-> {},
   pc |-> "boot", tbr |-> "boot", left |-> 0, tt |-> "bad", tbrtt |-> "bad"]

(* The first core runs the boot software or waits for a debugger, the      *)
(* others are powered down; the last timer is the watchdog.                *)
PowerOn(mode) ==
  [core |-> [c \in Cores |-> IF c = 0 THEN Core(mode, FALSE) ELSE Core("running", TRUE)],
   break |-> {}, noforce |-> {}, timers |-> {4},
   uart |-> [debug |-> FALSE, fifo |-> <<>>]]

Runs(h, c) == h.core[c].mode = "running" /\ ~h.core[c].halt /\ ~h.core[c].down

(* Cores enter debug mode; unless told not to, each forces the others. *)
EnterDebug(h, cs) ==
  LET all == IF cs \subseteq h.noforce THEN cs
             ELSE cs \cup {d \in Cores : Runs(h, d)}
  IN  [h EXCEPT !.core = [c \in Cores |->
         IF c \in all THEN [h.core[c] EXCEPT !.mode = "debug"] ELSE h.core[c]]]

(* "force a processors into debug mode if Break on Watchpoint [...] is set" *)
Forced(h) ==
  EnterDebug(h, {c \in h.break : h.core[c].mode = "running" /\ "BW" \in h.core[c].flags})

(* "clear debug and halt flag": a core leaves error mode, a halted core    *)
(* goes on; whether one in debug mode does is left open.                   *)
Released(k) ==
  LET awake == [k EXCEPT !.halt = FALSE]
      going == [awake EXCEPT !.mode = "running"]
  IN  CASE k.mode = "error" -> {going}
        [] k.mode = "debug" -> {awake, going}
        [] OTHER -> {awake}

WriteCtrl(h, c, bits) ==
  LET k == [h.core[c] EXCEPT !.flags = bits \cap Flags,
                             !.halt = "HL" \in bits /\ (@ \/ h.core[c].mode = "debug")]
  IN  {Forced([h EXCEPT !.core[c] = r]) : r \in IF "PE" \in bits THEN Released(k) ELSE {k}}

(* Set, a bit forces its core into debug mode; cleared, it lets it go on. *)
WriteBreak(h, cs) ==
  Forced([h EXCEPT !.break = cs,
                   !.core = [c \in Cores |->
                      IF c \in h.break \ cs /\ h.core[c].mode = "debug"
                        THEN [h.core[c] EXCEPT !.mode = "running"] ELSE h.core[c]]])

(* The registers of a core can be changed while it is in debug mode. *)
WriteCore(h, c, k) == IF h.core[c].mode = "debug" THEN [h EXCEPT !.core[c] = k] ELSE h

Read(h, reg) ==
  CASE reg[1] = "ctrl" ->
         LET k == h.core[reg[2]]
         IN  k.flags \cup {s \in Status : \/ s = "DM" /\ k.mode = "debug"
                                          \/ s = "PE" /\ k.mode = "error"
                                          \/ s = "HL" /\ k.halt}
    [] reg[1] = "break" -> h.break
    [] reg[1] = "noforce" -> h.noforce

(* The targets a write can lead to. *)
Written(h, w) ==
  LET c == w.reg[2]
      k == h.core[c]
  IN  CASE w.reg[1] = "ctrl" -> WriteCtrl(h, c, w.val)
        [] w.reg[1] = "break" -> {WriteBreak(h, w.val)}
        [] w.reg[1] = "noforce" -> {[h EXCEPT !.noforce = w.val]}
        [] w.reg[1] = "tbr" -> {WriteCore(h, c, [k EXCEPT !.tbr = w.val, !.tbrtt = "bad"])}
        [] w.reg[1] = "pc" -> {WriteCore(h, c, [k EXCEPT !.pc = w.val, !.left = MaxOut])}
        [] w.reg[1] = "wake" -> {[h EXCEPT !.core = [d \in Cores |->
                                    [h.core[d] EXCEPT !.down = @ /\ d \notin w.val]]]}
        [] w.reg[1] = "uart" -> {[h EXCEPT !.uart.debug = "debug" \in w.val]}
        [] w.reg[1] = "timer" -> {[h EXCEPT !.timers = @ \ {c}]}
        [] OTHER -> {h}

-----------------------------------------------------------------------------
(* Steps of the cores *)

(* The program prints: the UART holds the character for the debugger, or,  *)
(* not told to do so, may send it down the line instead.                   *)
CanSend(h, c) ==
  /\ Runs(h, c) /\ h.core[c].pc = "ram" /\ h.core[c].left > 0
  /\ Len(h.uart.fifo) < FifoDepth
SendChar(h, c, char) ==
  LET g == [h EXCEPT !.core[c].left = @ - 1]
      kept == [g EXCEPT !.uart.fifo = Append(@, char)]
  IN  IF h.uart.debug THEN {kept} ELSE {kept, g}

(* It stops by a trap no handler takes: in debug mode if BE is set. *)
CanStop(h, c) == Runs(h, c) /\ h.core[c].pc \in {"ram", "stray"}
Stop(h, c, trap, tbr_trap) ==
  LET g == [h EXCEPT !.core[c].pc = "stray", !.core[c].tt = trap, !.core[c].tbrtt = tbr_trap]
  IN  IF "BE" \in h.core[c].flags THEN EnterDebug(g, {c})
                                  ELSE [g EXCEPT !.core[c].mode = "error"]

(* The boot software parks a secondary core. *)
CanPark(h, c) == c # 0 /\ Runs(h, c) /\ h.core[c].pc = "boot"
Park(h, c) == [h EXCEPT !.core[c].down = TRUE]
=============================================================================
