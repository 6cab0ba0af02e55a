------------------------------ MODULE JtagLink ------------------------------
(***************************************************************************)
(* The same accesses as DebugLink, over the TAP of JtagTap: every action   *)
(* sends the MPSSE commands of one FT_Write batch of ftdi_device.c, or, if *)
(* the write fails, the first few of them.  The module shows that the      *)
(* clock patterns in the source do what DebugLink says of them.            *)
(*                                                                         *)
(* A short write of the three bytes of a reset is not an error to its      *)
(* caller: reset_JTAG_state_machine returns only the status.  LostSpec has *)
(* such resets and no other failure.                                       *)
(***************************************************************************)
EXTENDS JtagTap

CONSTANTS Zero, Transfers, MaxFaults  \* as in DebugLink

ASSUME ZeroAssumption == Zero \in Words
ASSUME TransfersAssumption == Transfers \subseteq Addr \X (Nat \ {0})
ASSUME MaxFaultsAssumption == MaxFaults \in Nat

VARIABLES
  pc, op, i, polled, loaded,  \* the host, as in DebugLink
  chip,                       \* TAP, registers, AHB master, memory: JtagTap
  rx,                         \* replies in the driver's input queue
  faults

vars == <<pc, op, i, polled, loaded, chip, rx, faults>>

Writes == {"write", "writeraw"}
Access(k, a, n, d) == [kind |-> k, addr |-> a, len |-> n, data |-> d]
NoData(n) == [j \in 0..n - 1 |-> Zero]
NoAccess == Access("none", 0, 1, NoData(1))

Init ==
  /\ pc = "idle" /\ op = NoAccess /\ i = 0 /\ polled = 0 /\ loaded = <<>>
  /\ \E m \in [Addr -> Words] : chip = PowerOn(m)
  /\ rx = <<>>
  /\ faults = 0

-----------------------------------------------------------------------------
(* The batch of each step, as the source assembles it *)

CommandBatch ==
  CASE op.kind \in Writes ->
         SelectAddress \o AddressPhase(op.addr, RW_DWORD, 1)
    [] op.kind = "read" ->
         SelectAddress \o FlushZeros \o AddressPhase(op.addr, RW_DWORD, 0)
           \o SelectDataReg \o ReadData
    [] op.kind = "readraw" ->
         SelectAddress \o FlushZeros \o AddressPhase(op.addr, RW_DWORD, 0)
           \o SelectDataReg

WordBatch ==
  IF op.kind = "write" THEN DataPhase(op.data[i], 0)
  ELSE DataPhase(op.data[i], 1)
         \o (IF i < op.len - 1 THEN LoopAfterWrite ELSE <<>>)

BatchAt ==
  CASE pc = "reset" -> ResetBatch
    [] pc = "command" -> CommandBatch
    [] pc = "select" -> SelectDataReg
    [] pc = "data" -> WordBatch
    [] pc = "fetch" -> ReadData
    [] pc = "next" -> LoopAfterRead

Sending == {"reset", "command", "select", "data", "fetch", "next"}

-----------------------------------------------------------------------------
Start(k, a, n, d) ==
  /\ pc = "idle"
  /\ op' = Access(k, a, n, d)
  /\ pc' = "reset" /\ i' = 0 /\ polled' = 0
  /\ UNCHANGED <<loaded, chip, rx, faults>>

StartRead ==
  \/ \E a \in Addr : Start("read", a, 1, NoData(1))
  \/ \E t \in Transfers : Start("readraw", t[1], t[2], NoData(t[2]))

StartWrite ==
  \/ \E a \in Addr, d \in [0..0 -> Words] : Start("write", a, 1, d)
  \/ \E t \in Transfers : \E d \in [0..t[2] - 1 -> Words] :
       Start("writeraw", t[1], t[2], d)

Close == pc = "idle" /\ pc' = "closed" /\ UNCHANGED <<op, i, polled, loaded, chip, rx, faults>>

Return == pc' = "idle" /\ op' = NoAccess /\ i' = 0 /\ polled' = 0
GoOn(next) == pc' = next /\ UNCHANGED <<op, i, polled>>

Abort ==
  /\ faults < MaxFaults
  /\ faults' = faults + 1
  /\ Return
  /\ loaded' = IF op.kind = "read" THEN <<op.addr, Zero>> ELSE loaded

(* The whole batch goes out and the host goes on to its next one. *)
Send ==
  /\ pc \in Sending
  /\ chip' = Run(chip, BatchAt)
  /\ \/ pc = "reset" /\ GoOn("command")
     \/ pc = "command" /\ GoOn(CASE op.kind \in Writes -> "select"
                                 [] op.kind = "read" -> "poll"
                                 [] op.kind = "readraw" -> "fetch")
     \/ pc = "select" /\ GoOn("data")
     \/ pc = "fetch" /\ GoOn("poll")
     \/ pc = "data" /\ i < op.len - 1 /\ i' = i + 1 /\ UNCHANGED <<pc, op, polled>>
     \/ pc = "data" /\ i = op.len - 1 /\ Return
     \/ pc = "next" /\ i + 1 < op.len /\ pc' = "fetch" /\ i' = i + 1 /\ UNCHANGED <<op, polled>>
     \/ pc = "next" /\ i + 1 = op.len /\ Return
  /\ UNCHANGED <<loaded, rx, faults>>

(* FT_Write reports an error or a short count: some of the batch went out. *)
SendFails ==
  /\ pc \in Sending
  /\ \E n \in 0..Len(BatchAt) : chip' = Run(chip, SubSeq(BatchAt, 1, n))
  /\ Abort
  /\ UNCHANGED rx

(* Nothing of a reset went out, FT_Write said FT_OK, the access goes on. *)
ResetShort ==
  /\ faults < MaxFaults
  /\ pc = "reset"
  /\ faults' = faults + 1
  /\ GoOn("command")
  /\ UNCHANGED <<loaded, chip, rx>>

Deliver ==
  /\ chip.out # <<>>
  /\ LET bits == Head(chip.out)
     IN  rx' = Append(rx, ReadField("word", bits))
  /\ chip' = [chip EXCEPT !.out = Tail(@)]
  /\ UNCHANGED <<pc, op, i, polled, loaded, faults>>

PollQueue ==
  /\ pc = "poll" /\ rx # <<>>
  /\ polled' = Len(rx)
  /\ pc' = "take"
  /\ UNCHANGED <<op, i, loaded, chip, rx, faults>>

PollFails ==
  /\ pc = "poll"
  /\ \/ rx' = rx
     \/ i > 0 /\ rx # <<>> /\ rx' = Tail(rx)
  /\ Abort
  /\ UNCHANGED chip

TakeReply ==
  /\ pc = "take"
  /\ loaded' = <<op.addr + i, Head(rx)>>
  /\ rx' = SubSeq(rx, polled + 1, Len(rx))
  /\ IF op.kind = "read" THEN Return ELSE GoOn("next")
  /\ UNCHANGED <<chip, faults>>

TakeFails ==
  /\ pc = "take"
  /\ \E n \in 0..polled : rx' = SubSeq(rx, n + 1, Len(rx))
  /\ Abort
  /\ UNCHANGED chip

Next ==
  \/ StartRead \/ StartWrite \/ Close
  \/ Send \/ SendFails
  \/ Deliver \/ PollQueue \/ PollFails \/ TakeReply \/ TakeFails

LostNext ==
  \/ StartRead \/ StartWrite \/ Close
  \/ Send \/ ResetShort
  \/ Deliver \/ PollQueue \/ TakeReply

Spec == Init /\ [][Next]_vars
LostSpec == Init /\ [][LostNext]_vars

-----------------------------------------------------------------------------
(* What a reset, whose TDI is low, would carry through Update-DR. *)
Parked ==
  LET reg == CASE chip.tap = "Exit1DR" -> chip.dreg
               [] chip.tap = "ShiftDR" -> ShiftIn(chip.dreg, <<Bit(0)>>)
               [] OTHER -> <<>>
  IN  IF reg = <<>> \/ chip.ir \notin {"ADDR", "DATA"} THEN [reg |-> "NONE"]
      ELSE IF chip.ir = "ADDR"
             THEN [reg |-> "ADDR", addr |-> ReadField("addr", reg), write |-> reg[35] = Bit(1)]
             ELSE [reg |-> "DATA", data |-> ReadField("word", reg), seq |-> reg[33] = Bit(1)]

WordLevel == INSTANCE DebugLink WITH
  shift <- Parked,
  cmd <- chip.cmd,
  mem <- chip.mem,
  rdata <- chip.rdata,
  wire <- [k \in DOMAIN chip.out |-> ReadField("word", chip.out[k])]

(* The TMS patterns and bit counts of the source walk the TAP exactly as   *)
(* the word-level model says, for complete batches and for cut ones.       *)
ImplementsDebugLink == WordLevel!Spec

(* Between two FT_Writes the TAP is where it stays for any number of       *)
(* clocks or in one of the places the next reset is known to leave.        *)
ParkingPlaces ==
  chip.tap \in {"TestLogicReset", "RunTestIdle", "ShiftIR", "Exit1IR", "ShiftDR", "Exit1DR"}

(* Even when resets are lost and the next command starts from wherever the *)
(* TAP was, an AHB write carries either the parked word to the address it  *)
(* was parked for, or a word of the call in progress to its own address.   *)
OnlyAskedWrites ==
  [][/\ ~chip'.stray
     /\ \A a \in Addr : chip'.mem[a] # chip.mem[a] =>
       \/ /\ op.kind \in Writes /\ a - op.addr \in DOMAIN op.data
          /\ chip'.mem[a] = op.data[a - op.addr]
       \/ /\ chip.cmd = [addr |-> a, write |-> TRUE]
          /\ Parked.reg = "DATA" /\ Parked.data = chip'.mem[a] /\ Parked.data \in Words]_vars
=============================================================================
