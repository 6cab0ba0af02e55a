----------------------------- MODULE DebugLink -----------------------------
(***************************************************************************)
(* The word accesses of ftdi_device.c (ioread32, ioread32raw, iowrite32,   *)
(* iowrite32raw) over the JTAG debug link of a LEON, one action per        *)
(* FT_Write batch, queue poll or FT_Read of the host.                      *)
(*                                                                         *)
(* The link has a memory of its own.  A batch ends with the TAP parked     *)
(* inside the data-register path, and what has been shifted in takes       *)
(* effect only when a LATER batch clocks the TAP through Update-DR: an     *)
(* iowrite32 is committed by the reset that opens the next access, or      *)
(* never.  "shift" is what the next pass through Update-DR will hand over. *)
(* JtagLink refines it to the sixteen TAP states and the MPSSE commands.   *)
(*                                                                         *)
(* External, modelled from how the code drives it: the AHB side of the     *)
(* debug link (UpdateDR, AhbRead) and the USB delivery (Deliver).          *)
(***************************************************************************)
EXTENDS Integers, Sequences

CONSTANTS
  NumWords,   \* words of target memory
  Words,      \* contents the host can ask for
  Zero,       \* the 0 a failed ioread32 returns
  Junk,       \* a register content or address nobody asked for
  SeqNext,    \* word -> word the debug link addresses after it when SEQ = 1
  Transfers,  \* <<start, length>> pairs the callers of the raw functions use
  MaxFaults   \* bound: D2XX calls that fail in one behaviour

Addr == 0..NumWords - 1
Value == Words \cup {Junk}

ASSUME NumWordsAssumption == NumWords \in Nat \ {0}
ASSUME WordsAssumption == Zero \in Words /\ Junk \notin Words
ASSUME JunkAssumption == Junk \notin Addr
ASSUME SeqNextAssumption == SeqNext \in [Addr -> Addr]
ASSUME TransfersAssumption == Transfers \subseteq Addr \X (Nat \ {0})
ASSUME MaxFaultsAssumption == MaxFaults \in Nat

VARIABLES
  pc,      \* where the host is inside the access
  op,      \* the access: kind, first word, number of words, data to write
  i,       \* loop variable of the raw functions
  shift,   \* what the next pass through Update-DR hands over
  cmd,     \* the AHB address register and the RW bit
  mem,     \* target memory
  rdata,   \* the word the last AHB read put in the data register
  wire,    \* replies on their way to the host
  rx,      \* replies in the driver's input queue
  polled,  \* how many replies FT_GetQueueStatus reported
  loaded,  \* address and value of the last completed read
  faults   \* D2XX calls that failed so far

host == <<pc, op, i, polled, loaded>>
ahb == <<cmd, mem, rdata>>
queue == <<wire, rx>>
vars == <<pc, op, i, shift, cmd, mem, rdata, wire, rx, polled, loaded, faults>>

None == [reg |-> "NONE"]
Command(a, w) == [reg |-> "ADDR", addr |-> a, write |-> w]
Data(v, s) == [reg |-> "DATA", data |-> v, seq |-> s]
Open == Data(Junk, FALSE)  \* in Shift-DR of the data register, nothing put in

Shifts ==
  {None} \cup [reg : {"ADDR"}, addr : Addr \cup {Junk}, write : BOOLEAN]
         \cup [reg : {"DATA"}, data : Value, seq : BOOLEAN]

Writes == {"write", "writeraw"}
Reads == {"read", "readraw"}
Access(k, a, n, d) == [kind |-> k, addr |-> a, len |-> n, data |-> d]
NoData(n) == [j \in 0..n - 1 |-> Zero]
NoAccess == Access("none", 0, 1, NoData(1))

Init ==
  /\ pc = "idle" /\ op = NoAccess /\ i = 0
  /\ shift = None
  /\ cmd = [addr |-> Junk, write |-> FALSE]
  /\ mem \in [Addr -> Words]
  /\ rdata = Junk
  /\ wire = <<>> /\ rx = <<>> /\ polled = 0
  /\ loaded = <<>>
  /\ faults = 0

-----------------------------------------------------------------------------
(* The debug link and the bus behind it (external). *)

AhbRead(a) == IF a \in Addr THEN mem[a] ELSE Junk
Following(a, seq) == IF seq /\ a \in Addr THEN SeqNext[a] ELSE a

(* The TAP passes through Update-DR with s in the selected register.  A    *)
(* command with RW = 0 reads at once; data written while RW = 1 goes to    *)
(* the bus; SEQ = 1 steps the address, and on a read fetches the next word *)
UpdateDR(s) ==
  \/ /\ s.reg = "NONE"
     /\ UNCHANGED ahb
  \/ /\ s.reg = "ADDR"
     /\ cmd' = [addr |-> s.addr, write |-> s.write]
     /\ rdata' = IF s.write THEN rdata ELSE AhbRead(s.addr)
     /\ mem' = mem
  \/ /\ s.reg = "DATA" /\ cmd.write
     /\ cmd' = [addr |-> Following(cmd.addr, s.seq), write |-> TRUE]
     /\ mem' = IF cmd.addr \in Addr THEN [mem EXCEPT ![cmd.addr] = s.data] ELSE mem
     /\ rdata' = rdata
  \/ /\ s.reg = "DATA" /\ ~cmd.write
     /\ cmd' = [addr |-> Following(cmd.addr, s.seq), write |-> FALSE]
     /\ rdata' = IF s.seq THEN AhbRead(Following(cmd.addr, TRUE)) ELSE rdata
     /\ mem' = mem

(* The bytes of one reply reach the driver's queue, together. *)
Deliver ==
  /\ wire # <<>>
  /\ rx' = Append(rx, Head(wire))
  /\ wire' = Tail(wire)
  /\ UNCHANGED <<host, shift, ahb, faults>>

-----------------------------------------------------------------------------
(* Calls, returns and failures. *)

Start(k, a, n, d) ==
  /\ pc = "idle"
  /\ op' = Access(k, a, n, d)
  /\ pc' = "reset" /\ i' = 0 /\ polled' = 0
  /\ UNCHANGED <<loaded, shift, ahb, queue, faults>>

StartRead ==
  \/ \E a \in Addr : Start("read", a, 1, NoData(1))
  \/ \E t \in Transfers : Start("readraw", t[1], t[2], NoData(t[2]))

StartWrite ==
  \/ \E a \in Addr, d \in [0..0 -> Words] : Start("write", a, 1, d)
  \/ \E t \in Transfers : \E d \in [0..t[2] - 1 -> Words] :
       Start("writeraw", t[1], t[2], d)

(* exit: ftdi_close_device clocks nothing, so "shift" is never handed over *)
Close ==
  /\ pc = "idle"
  /\ pc' = "closed"
  /\ UNCHANGED <<op, i, polled, loaded, shift, ahb, queue, faults>>

Return ==
  /\ pc' = "idle" /\ op' = NoAccess /\ i' = 0 /\ polled' = 0

(* A D2XX call failed: ioread32 answers 0, the others answer nothing. *)
Abort ==
  /\ faults < MaxFaults
  /\ faults' = faults + 1
  /\ Return
  /\ loaded' = IF op.kind = "read" THEN <<op.addr, Zero>> ELSE loaded

GoOn(next) == pc' = next /\ UNCHANGED <<op, i, polled, loaded, faults>>

(* A batch that fails may have been executed up to any of its commands.    *)
(* These are the places the TAP can be left in by part of an address phase *)
(* (a register filled short takes its missing RW bit, 0, from the reset).  *)
PartOfCommand(write) ==
  /\ shift' \in {shift, Command(Junk, FALSE), Command(op.addr, FALSE)}
                \cup (IF write THEN {Command(op.addr, TRUE)} ELSE {})
  /\ UNCHANGED ahb

-----------------------------------------------------------------------------
(* reset_JTAG_state_machine, the first call of every access *)

(* Variant: a reset whose clocks miss Update-DR loses the parked word. *)
ResetJtagPastUpdate ==
  /\ pc = "reset"
  /\ shift' = None
  /\ GoOn("command")
  /\ UNCHANGED <<ahb, queue>>

ResetJtag ==
  /\ pc = "reset"
  /\ UpdateDR(shift)
  /\ shift' = None
  /\ GoOn("command")
  /\ UNCHANGED queue

ResetFails ==
  /\ pc = "reset"
  /\ \/ UNCHANGED <<shift, ahb>>
     \/ UpdateDR(shift) /\ shift' = None
  /\ Abort
  /\ UNCHANGED queue

-----------------------------------------------------------------------------
(* iowrite32 and iowrite32raw *)

SendCommand ==
  /\ pc = "command" /\ op.kind \in Writes
  /\ shift' = Command(op.addr, TRUE)
  /\ GoOn("select")
  /\ UNCHANGED <<ahb, queue>>

SendCommandFails ==
  /\ pc = "command" /\ op.kind \in Writes
  /\ PartOfCommand(TRUE)
  /\ Abort
  /\ UNCHANGED queue

SelectData ==
  /\ pc = "select"
  /\ UpdateDR(shift)
  /\ shift' = Open
  /\ GoOn("data")
  /\ UNCHANGED queue

SelectDataFails ==
  /\ pc = "select"
  /\ \/ UNCHANGED <<shift, ahb>>
     \/ UpdateDR(shift) /\ shift' \in {None, Open}
  /\ Abort
  /\ UNCHANGED queue

(* The word to write with its SEQ bit: 0 in iowrite32, 1 in iowrite32raw. *)
WordToWrite == Data(op.data[i], op.kind = "writeraw")

(* Variant: the loop back to Shift-DR is forgotten between words. *)
ShiftWordNoLoop ==
  /\ pc = "data" /\ i < op.len - 1
  /\ shift' = WordToWrite
  /\ i' = i + 1
  /\ UNCHANGED <<pc, op, polled, loaded, faults, ahb, queue>>

(* Every word but the last loops through Update-DR in its own batch. *)
ShiftWord ==
  /\ pc = "data" /\ i < op.len - 1
  /\ UpdateDR(WordToWrite)
  /\ shift' = Open
  /\ i' = i + 1
  /\ UNCHANGED <<pc, op, polled, loaded, faults, queue>>

(* The last one is left in Exit1-DR, and the call returns. *)
ShiftLastWord ==
  /\ pc = "data" /\ i = op.len - 1
  /\ shift' = WordToWrite
  /\ Return
  /\ UNCHANGED <<loaded, ahb, queue, faults>>

ShiftWordFails ==
  /\ pc = "data"
  /\ \/ UNCHANGED <<shift, ahb>>
     \/ shift' \in {Data(op.data[i], FALSE), WordToWrite} /\ UNCHANGED ahb
     \/ i < op.len - 1 /\ UpdateDR(WordToWrite) /\ shift' = Open
  /\ Abort
  /\ UNCHANGED queue

-----------------------------------------------------------------------------
(* ioread32 and ioread32raw *)

(* ioread32 sends command, register change and read in a single batch. *)
ReadWord ==
  /\ pc = "command" /\ op.kind = "read"
  /\ UpdateDR(Command(op.addr, FALSE))
  /\ shift' = Open
  /\ wire' = Append(wire, rdata')
  /\ GoOn("poll")
  /\ UNCHANGED rx

(* ioread32raw stops in Shift-DR before the first word. *)
OpenRead ==
  /\ pc = "command" /\ op.kind = "readraw"
  /\ UpdateDR(Command(op.addr, FALSE))
  /\ shift' = Open
  /\ GoOn("fetch")
  /\ UNCHANGED queue

ReadCommandFails ==
  /\ pc = "command" /\ op.kind \in Reads
  /\ \/ PartOfCommand(FALSE) /\ wire' = wire
     \/ /\ UpdateDR(Command(op.addr, FALSE))
        /\ \/ shift' \in {None, Open} /\ wire' = wire
           \/ op.kind = "read" /\ shift' = Open /\ wire' = Append(wire, rdata')
  /\ Abort
  /\ UNCHANGED rx

FetchWord ==
  /\ pc = "fetch"
  /\ wire' = Append(wire, rdata)
  /\ GoOn("poll")
  /\ UNCHANGED <<shift, ahb, rx>>

FetchWordFails ==
  /\ pc = "fetch"
  /\ wire' \in {wire, Append(wire, rdata)}
  /\ Abort
  /\ UNCHANGED <<shift, ahb, rx>>

(* Variant: wait for the words of the whole transfer. *)
PollForAll ==
  /\ pc = "poll" /\ Len(rx) >= op.len
  /\ polled' = Len(rx)
  /\ pc' = "take"
  /\ UNCHANGED <<op, i, loaded, shift, ahb, queue, faults>>

(* Spin on FT_GetQueueStatus until the queue is not empty. *)
PollQueue ==
  /\ pc = "poll" /\ rx # <<>>
  /\ polled' = Len(rx)
  /\ pc' = "take"
  /\ UNCHANGED <<op, i, loaded, shift, ahb, queue, faults>>

(* An error ends the spin; FT_Read is called all the same, with the count  *)
(* the previous word left behind, and what it reads is thrown away.        *)
PollFails ==
  /\ pc = "poll"
  /\ \/ rx' = rx
     \/ i > 0 /\ rx # <<>> /\ rx' = Tail(rx)
  /\ Abort
  /\ UNCHANGED <<shift, ahb, wire>>

(* FT_Read takes all that was reported; the value is its first word. *)
TakeReply ==
  /\ pc = "take"
  /\ loaded' = <<op.addr + i, Head(rx)>>
  /\ rx' = SubSeq(rx, polled + 1, Len(rx))
  /\ IF op.kind = "read" THEN Return
     ELSE pc' = "next" /\ UNCHANGED <<op, i, polled>>
  /\ UNCHANGED <<shift, ahb, wire, faults>>

TakeFails ==
  /\ pc = "take"
  /\ \E n \in 0..polled : rx' = SubSeq(rx, n + 1, Len(rx))
  /\ Abort
  /\ UNCHANGED <<shift, ahb, wire>>

(* Variants: SEQ = 0 between the words; one word too many; the clocks of   *)
(* the loop read back, which nobody waits for.                             *)
NextWordNoSeq ==
  /\ pc = "next"
  /\ UpdateDR(Data(Junk, FALSE))
  /\ shift' = Open
  /\ IF i + 1 < op.len
       THEN pc' = "fetch" /\ i' = i + 1 /\ UNCHANGED <<op, polled>>
       ELSE Return
  /\ UNCHANGED <<loaded, queue, faults>>

NextWordPastEnd ==
  /\ pc = "next"
  /\ UpdateDR(Data(Junk, TRUE))
  /\ shift' = Open
  /\ IF i < op.len
       THEN pc' = "fetch" /\ i' = i + 1 /\ UNCHANGED <<op, polled>>
       ELSE Return
  /\ UNCHANGED <<loaded, queue, faults>>

NextWordReadBack ==
  /\ pc = "next"
  /\ UpdateDR(Data(Junk, TRUE))
  /\ shift' = Open
  /\ wire' = Append(wire, rdata)
  /\ IF i + 1 < op.len
       THEN pc' = "fetch" /\ i' = i + 1 /\ UNCHANGED <<op, polled>>
       ELSE Return
  /\ UNCHANGED <<loaded, rx, faults>>

(* Through Update-DR with SEQ = 1, after the last word as well. *)
NextWord ==
  /\ pc = "next"
  /\ UpdateDR(Data(Junk, TRUE))
  /\ shift' = Open
  /\ IF i + 1 < op.len
       THEN pc' = "fetch" /\ i' = i + 1 /\ UNCHANGED <<op, polled>>
       ELSE Return
  /\ UNCHANGED <<loaded, queue, faults>>

NextWordFails ==
  /\ pc = "next"
  /\ \/ UNCHANGED <<shift, ahb>>
     \/ UpdateDR(Data(Junk, TRUE)) /\ shift' = Open
  /\ Abort
  /\ UNCHANGED queue

-----------------------------------------------------------------------------
WriteSteps == SendCommand \/ SelectData \/ ShiftWord \/ ShiftLastWord
ReadSteps ==
  ReadWord \/ OpenRead \/ FetchWord \/ PollQueue \/ TakeReply \/ NextWord
Failures ==
  \/ ResetFails \/ SendCommandFails \/ SelectDataFails \/ ShiftWordFails
  \/ ReadCommandFails \/ FetchWordFails \/ PollFails \/ TakeFails \/ NextWordFails

Next ==
  \/ StartRead \/ StartWrite \/ Close
  \/ ResetJtag \/ WriteSteps \/ ReadSteps \/ Failures
  \/ Deliver

(* The host is a single thread that runs an access to its end; the chip    *)
(* delivers what it has read.  Nothing obliges the user to start or close. *)
Fairness == WF_vars(ResetJtag \/ WriteSteps \/ ReadSteps) /\ WF_vars(Deliver)

Spec == Init /\ [][Next]_vars
FairSpec == Spec /\ Fairness

-----------------------------------------------------------------------------
(* Properties *)

(* Every variable keeps its type. *)
TypeOK ==
  /\ pc \in {"idle", "closed", "reset", "command", "select", "data",
             "fetch", "poll", "take", "next"}
  /\ op.kind \in Reads \cup Writes \cup {"none"}
  /\ op.addr \in Addr /\ op.len \in Nat \ {0}
  /\ op.data \in [0..op.len - 1 -> Words]
  /\ i \in 0..op.len - 1
  /\ shift \in Shifts
  /\ cmd \in [addr : Addr \cup {Junk}, write : BOOLEAN]
  /\ mem \in [Addr -> Value] /\ rdata \in Value
  /\ wire \in Seq(Value) /\ rx \in Seq(Value)
  /\ polled \in Nat
  /\ loaded \in {<<>>} \cup (Int \X Value)
  /\ faults \in 0..MaxFaults

(* What a reader will find: the memory with the parked word handed over.   *)
(* Between the batches of a write the register is open and nothing is due. *)
View ==
  IF pc # "data" /\ shift.reg = "DATA" /\ cmd.write
    THEN [mem EXCEPT ![cmd.addr] = shift.data] ELSE mem

Todo ==
  IF op.kind \in Writes
    THEN [a \in {op.addr + j : j \in i..op.len - 1} |-> op.data[a - op.addr]]
    ELSE [a \in {} |-> Junk]

Synced ==
  IF pc \in {"poll", "take"} THEN Len(rx) + Len(wire) = 1
                             ELSE rx = <<>> /\ wire = <<>>

Promise == INSTANCE DebugMemory WITH memory <- View, todo <- Todo, synced <- Synced

(* ioread and iowrite are reads and writes of a memory: writes take effect *)
(* once, in order, on their own words only, reads see all earlier writes,  *)
(* and failures of the D2XX calls spoil nothing but what they interrupt.   *)
ActsAsMemory == Promise!Spec

(* The host's place in the access determines where the TAP is parked and   *)
(* what the address register holds: no batch runs from a place for which   *)
(* its clock pattern was not written.                                      *)
ParkedWhereExpected ==
  /\ pc = "command" => shift = None
  /\ pc = "select" => shift = Command(op.addr, TRUE)
  /\ pc \in {"data", "fetch", "poll", "take", "next"} =>
       /\ shift = Open
       /\ cmd.addr = op.addr + i
       /\ cmd.write <=> pc = "data"
  /\ shift.reg = "DATA" => cmd.addr \in Addr

(* What the callers of the raw functions have to respect: a transfer lies  *)
(* in the memory and inside one block of sequential addressing.            *)
InBlock(a, n) ==
  \A j \in 0..n - 1 : /\ a + j \in Addr
                      /\ j < n - 1 => SeqNext[a + j] = a + j + 1
TransfersInBlock == \A t \in Transfers : InBlock(t[1], t[2])

(* A stale reply never hides a fresh one when the queue is in step. *)
ReplyIsOurs ==
  pc \in {"poll", "take"} /\ Synced => rx = <<rdata>> \/ wire = <<rdata>>

(* The queue is never purged, and a read may find the replies of others    *)
(* before its own.  There are no more of these than calls have failed, so  *)
(* a read is late by that many words at most, and FT_Read is asked for     *)
(* what the 100 bytes of byInputBuffer hold until 25 calls have failed     *)
(* (ioread32 1298-1304, ioread32raw 1456-1466).                            *)
LateByFailures ==
  /\ Len(rx) + Len(wire) <= faults + (IF pc \in {"poll", "take"} THEN 1 ELSE 0)
  /\ pc = "take" => polled <= faults + 1

(* What the host knows of its own place, and what a read has sampled. *)
Busy == {"reset", "command", "select", "data", "fetch", "poll", "take", "next"}
OnCourse ==
  /\ pc \in Busy => InBlock(op.addr, op.len) /\ (op.kind \in {"read", "write"} => op.len = 1)
  /\ pc \in {"reset", "command", "select"} => i = 0
  /\ pc \in {"reset", "command"} => op.kind \in Reads \cup Writes
  /\ pc \in {"select", "data"} => op.kind \in Writes
  /\ pc \in {"poll", "take"} => op.kind \in Reads
  /\ pc \in {"fetch", "next"} => op.kind = "readraw"
  /\ pc \in {"idle", "closed"} => op.kind = "none"
  /\ pc \in {"fetch", "poll", "take", "next"} => rdata = mem[op.addr + i]
  /\ pc = "take" => polled \in 1..Len(rx)

(* The invariant the proofs use; a run checks that it holds. *)
LinkInv == TypeOK /\ ParkedWhereExpected /\ ReplyIsOurs /\ OnCourse

(* Every access comes back to its caller: the queue poll, which has no     *)
(* time limit, ends because every completed read batch has an answer.      *)
AccessReturns == pc # "idle" ~> pc \in {"idle", "closed"}

(* Help text of wmem: the word is written.  Leaving must not lose it. *)
WrittenAtExit == pc = "closed" => mem = View
=============================================================================
