------------------------------ MODULE JtagTap ------------------------------
(***************************************************************************)
(* The chip end of the debug link, clock by clock: the TAP controller, its *)
(* instruction and data registers, the AHB master behind them, and the     *)
(* MPSSE commands of the FT2232H that clock them.  All of it is external   *)
(* to uviemon and modelled from how ftdi_device.c drives it; pure          *)
(* operators on one record, the chip, that JtagLink and JtagScan carry as  *)
(* a state.                                                                *)
(*                                                                         *)
(* Registers hold bits with a name: <<"const", b, 0>> is a 0 or a 1 the    *)
(* host put there, <<"addr", a, k>> and <<"word", w, k>> the k-th bit of   *)
(* an address or of a word.  A field counts only if its 32 bits are those  *)
(* of one value in their order, so a pattern that is one clock too long or *)
(* too short is noticed.                                                   *)
(***************************************************************************)
EXTENDS Integers, Sequences

CONSTANTS
  NumWords,   \* words of target memory
  Words,      \* contents the host can ask for
  Junk,       \* a register content nobody asked for
  SeqNext,    \* word -> word addressed after it when SEQ = 1
  CODE_ADDR_COMM, CODE_DATA, RW_DWORD

Addr == 0..NumWords - 1

ASSUME NumWordsAssumption == NumWords \in Nat \ {0}
ASSUME JunkAssumption == Junk \notin Words /\ Junk \notin Addr
ASSUME SeqNextAssumption == SeqNext \in [Addr -> Addr]
ASSUME CodesAssumption ==
  /\ CODE_ADDR_COMM \in 0..63 /\ CODE_DATA \in 0..63 /\ CODE_ADDR_COMM # CODE_DATA
  /\ RW_DWORD \in 0..3

(* Successor of a TAP state for TMS = 0 and for TMS = 1 (IEEE 1149.1). *)
TapNext == [
  TestLogicReset |-> <<"RunTestIdle", "TestLogicReset">>,
  RunTestIdle    |-> <<"RunTestIdle", "SelectDR">>,
  SelectDR       |-> <<"CaptureDR", "SelectIR">>,
  CaptureDR      |-> <<"ShiftDR", "Exit1DR">>,
  ShiftDR        |-> <<"ShiftDR", "Exit1DR">>,
  Exit1DR        |-> <<"PauseDR", "UpdateDR">>,
  PauseDR        |-> <<"PauseDR", "Exit2DR">>,
  Exit2DR        |-> <<"ShiftDR", "UpdateDR">>,
  UpdateDR       |-> <<"RunTestIdle", "SelectDR">>,
  SelectIR       |-> <<"CaptureIR", "TestLogicReset">>,
  CaptureIR      |-> <<"ShiftIR", "Exit1IR">>,
  ShiftIR        |-> <<"ShiftIR", "Exit1IR">>,
  Exit1IR        |-> <<"PauseIR", "UpdateIR">>,
  PauseIR        |-> <<"PauseIR", "Exit2IR">>,
  Exit2IR        |-> <<"ShiftIR", "UpdateIR">>,
  UpdateIR       |-> <<"RunTestIdle", "SelectDR">>]

TapStates == DOMAIN TapNext

Bit(b) == <<"const", b, 0>>
Zeros(n) == [k \in 1..n |-> Bit(0)]
Weight == <<1, 2, 4, 8, 16, 32, 64, 128>>
BitOf(byte, k) == (byte \div Weight[k]) % 2  \* the first is the lowest
Bits(n, byte) == [k \in 1..n |-> Bit(BitOf(byte, k))]
Field(tag, v) == [k \in 1..32 |-> <<tag, v, k>>]

(* The value of the 32-bit field at the front of a register. *)
ReadField(tag, reg) ==
  IF reg[1][1] = tag /\ SubSeq(reg, 1, 32) = Field(tag, reg[1][2]) THEN reg[1][2] ELSE Junk

(* Opcode -> register: 35 bits of address, size and RW; 33 of data and SEQ; *)
(* the identification code after a reset; BYPASS for any other opcode.      *)
Selected(ireg) ==
  CASE ireg = Bits(6, CODE_ADDR_COMM) -> "ADDR"
    [] ireg = Bits(6, CODE_DATA) -> "DATA"
    [] OTHER -> "BYPASS"

CapturedDR(c) ==
  CASE c.ir = "ADDR" -> Field("addr", c.cmd.addr) \o Bits(2, 2) \o <<Bit(IF c.cmd.write THEN 1 ELSE 0)>>
    [] c.ir = "DATA" -> Field("word", c.rdata) \o <<Bit(1)>>
    [] c.ir = "IDCODE" -> Field("idcode", 0)
    [] OTHER -> <<Bit(0)>>

-----------------------------------------------------------------------------
(* The AHB master *)

AhbRead(c, a) == IF a \in Addr THEN c.mem[a] ELSE Junk
Following(a, seq) == IF seq /\ a \in Addr THEN SeqNext[a] ELSE a

UpdateADDR(c) ==
  LET a == ReadField("addr", c.dreg)
      w == c.dreg[35] = Bit(1)
  IN  [c EXCEPT !.cmd = [addr |-> a, write |-> w],
                !.rdata = IF w THEN @ ELSE AhbRead(c, a)]

UpdateDATA(c) ==
  LET a == c.cmd.addr
      seq == c.dreg[33] = Bit(1)
      next == Following(a, seq)
  IN  IF c.cmd.write
        THEN [c EXCEPT !.cmd.addr = next,
                       !.mem = IF a \in Addr THEN [@ EXCEPT ![a] = ReadField("word", c.dreg)]
                                             ELSE @,
                       !.stray = @ \/ a \notin Addr]
        ELSE [c EXCEPT !.cmd.addr = next,
                       !.rdata = IF seq THEN AhbRead(c, next) ELSE @]

-----------------------------------------------------------------------------
(* Clocks *)

ShiftIn(reg, bits) == SubSeq(reg \o bits, Len(bits) + 1, Len(bits) + Len(reg))

(* Shifting n bits with TMS = 0. *)
Shifted(c, bits) ==
  CASE c.tap = "ShiftDR" -> [c EXCEPT !.dreg = ShiftIn(@, bits)]
    [] c.tap = "ShiftIR" -> [c EXCEPT !.ireg = ShiftIn(@, bits)]
    [] OTHER -> c

(* What entering a state does. *)
Entered(c) ==
  CASE c.tap = "TestLogicReset" -> [c EXCEPT !.ir = "IDCODE"]
    [] c.tap = "CaptureDR" -> [c EXCEPT !.dreg = CapturedDR(c)]
    [] c.tap = "CaptureIR" -> [c EXCEPT !.ireg = Bits(6, 1)]
    [] c.tap = "UpdateIR" -> [c EXCEPT !.ir = Selected(c.ireg)]
    [] c.tap = "UpdateDR" /\ c.ir = "ADDR" -> UpdateADDR(c)
    [] c.tap = "UpdateDR" /\ c.ir = "DATA" -> UpdateDATA(c)
    [] OTHER -> c

Clock(c, tms, tdi) == Entered([Shifted(c, <<tdi>>) EXCEPT !.tap = TapNext[c.tap][tms + 1]])

(* The chip after clocks with the given <<TMS, TDI>>. *)
Clocked(c, edges) ==
  LET after[k \in 0..Len(edges)] ==
        IF k = 0 THEN c ELSE Clock(after[k - 1], edges[k][1], edges[k][2])
  IN  after[Len(edges)]

-----------------------------------------------------------------------------
(* MPSSE commands *)

(* 0x4B n-1 byte: n bits to TMS, bit 7 of the byte on TDI throughout *)
Tms(n, byte) == [do |-> "tms", n |-> n, byte |-> byte]
(* 0x19, 0x1B: bytes or bits to TDI; 0x8E clocks what is on TDI, a zero *)
Tdi(bits) == [do |-> "tdi", bits |-> bits]
(* 0x28, 0x2A, 0x3B: the bits shifted out come back to the host *)
Tdo(bits) == [do |-> "tdo", bits |-> bits]

(* Data clocks are only sent with the TAP in a shift state; elsewhere, with *)
(* TMS low, two of them take it to a state it stays in, a shift state or   *)
(* one where clocks do nothing.                                            *)
Drifted(c, bits) ==
  LET n == IF Len(bits) < 2 THEN Len(bits) ELSE 2
      d == Clocked(c, [k \in 1..n |-> <<0, bits[k]>>])
  IN  Shifted(d, SubSeq(bits, n + 1, Len(bits)))

Do(c, command) ==
  LET shifting == c.tap \in {"ShiftDR", "ShiftIR"}
      bits == command.bits
      reg == IF c.tap = "ShiftDR" THEN c.dreg ELSE c.ireg
  IN  CASE shifting /\ command.do = "tdi" -> Shifted(c, bits)
        [] shifting /\ command.do = "tdo" ->
             [Shifted(c, bits) EXCEPT !.out = Append(@, SubSeq(reg \o bits, 1, Len(bits)))]
        [] ~shifting /\ command.do = "tdi" -> Drifted(c, bits)
        [] ~shifting /\ command.do = "tdo" ->
             [Drifted(c, bits) EXCEPT !.out = Append(@, Zeros(Len(bits)))]
        [] command.do = "tms" ->
             Clocked(c, [k \in 1..command.n |->
                           <<BitOf(command.byte, k), Bit(command.byte \div 128)>>])

Run(c, commands) ==
  LET after[k \in 0..Len(commands)] ==
        IF k = 0 THEN c ELSE Do(after[k - 1], commands[k])
  IN  after[Len(commands)]

PowerOn(m) ==
  [tap |-> "TestLogicReset", ir |-> "IDCODE", ireg |-> Zeros(6), dreg |-> Zeros(1),
   cmd |-> [addr |-> Junk, write |-> FALSE], mem |-> m, rdata |-> Junk,
   out |-> <<>>, stray |-> FALSE]

(* What a register can hold, the states of the chip, and the commands. *)
Value == Words \cup {Junk}
Signals ==
  {Bit(b) : b \in {0, 1}} \cup {<<"idcode", 0, k>> : k \in 1..32}
    \cup {<<"addr", a, k>> : a \in Addr \cup {Junk}, k \in 1..32}
    \cup {<<"word", w, k>> : w \in Value, k \in 1..32}
Registers == Seq(Signals) \ {<<>>}
Chips ==
  [tap : TapStates, ir : {"IDCODE", "ADDR", "DATA", "BYPASS"},
   ireg : Registers, dreg : Registers,
   cmd : [addr : Addr \cup {Junk}, write : BOOLEAN],
   mem : [Addr -> Value], rdata : Value, out : Seq(Seq(Signals)), stray : BOOLEAN]
Commands ==
  [do : {"tms"}, n : 1..8, byte : 0..255] \cup [do : {"tdi", "tdo"}, bits : Seq(Signals)]

-----------------------------------------------------------------------------
(* Batches ftdi_device.c builds, from its literal bytes *)

(* Variants: a reset of four clocks; a word left with TDI, and SEQ, low; an *)
(* address sent without its size.                                          *)
ResetOfFour == <<Tms(4, 63)>>
LoopWithoutSeq == <<Tms(5, 7)>>
AddressWithoutSize(addr, size, rw) == <<Tdi(Field("addr", addr)), Tms(1, 1 + 128 * rw)>>

ResetBatch == <<Tms(5, 63)>>                                       \* 0b00111111
ToShiftIR == Tms(6, 13)                                            \* 0b00001101
Opcode(code) == <<Tdi(Bits(5, code)), Tms(1, ((code * 4) % 256) + 1)>>
ToShiftDR == Tms(4, 3)                                             \* 0b00000011
BackToShiftIR == Tms(5, 7)                                         \* 0b0000111

(* Shift-DR of the address register: address, size and, leaving, RW. *)
AddressPhase(addr, size, rw) ==
  <<Tdi(Field("addr", addr)), Tdi(Bits(2, size)), Tms(1, 1 + 128 * rw)>>
SelectAddress == <<ToShiftIR>> \o Opcode(CODE_ADDR_COMM) \o <<ToShiftDR>>
SelectDataReg == <<BackToShiftIR>> \o Opcode(CODE_DATA) \o <<ToShiftDR>>
FlushZeros == <<Tdi(Zeros(48)), Tdi(Zeros(8))>>
ReadData == <<Tdo(Zeros(32))>>
LoopAfterRead == <<Tms(5, 135)>>                                   \* 0b10000111
LoopAfterWrite == <<Tms(4, 3)>>                                    \* 0b00000011
DataPhase(w, seq) == <<Tdi(Field("word", w)), Tms(1, 1 + 128 * seq)>>
=============================================================================
