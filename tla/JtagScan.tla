------------------------------ MODULE JtagScan ------------------------------
(***************************************************************************)
(* The scan functions of ftdi_device.c (get_JTAG_count, read_idcode,       *)
(* scan_IR_length, scan_DR_length, scan_instruction_codes), which measure  *)
(* the chain by clocking zeros and then ones through a register, and their *)
(* callers: main, once the cores are configured, and the console's scan    *)
(* command, between reads and writes of the user.                          *)
(*                                                                         *)
(* Measuring is not harmless: a scan ends with a reset, and the reset      *)
(* takes the ones in the register through Update-DR as it would a word.    *)
(* Nor is a failed call: the replies it does not read are found by the     *)
(* next one.  Nor a write cut short: get_JTAG_count lets it pass, and then *)
(* waits for a reply nothing asks for.  chain.out holds the replies the    *)
(* host has not read.                                                      *)
(***************************************************************************)
EXTENDS JtagTap

CONSTANTS
  MaxFailed,  \* bound: D2XX calls that fail, or are cut short, in one behaviour
  MaxLate     \* bound: replies still on their way when the host reads others

(* scan_instruction_codes' loop over a byte ends only below 8 bits.  The   *)
(* instruction register has 6, and a late reply adds one: with two replies *)
(* late the loop could run without end, which the bound leaves out.        *)
ASSUME BoundsAssumption == MaxFailed \in Nat /\ MaxLate \in 0..1

(* All ones are BYPASS, and the address register comes before the data.   *)
ASSUME OpcodesAssumption == CODE_ADDR_COMM < CODE_DATA /\ CODE_DATA < 63

VARIABLES
  phase,   \* open, startup (main's scans), console, exit
  todo,    \* scan functions still to call
  step,    \* where the first of them is
  found,   \* what the last one to return answered
  chain,   \* the JTAG chain, a single chip
  failed

scanVars == <<phase, todo, step, found, chain, failed>>

Count == [fn |-> "count"]
IdCode == [fn |-> "idcode"]
IrLength == [fn |-> "ir"]
DrLength(op) == [fn |-> "dr", opcode |-> op]
Startup == <<Count, IdCode, IrLength, DrLength(CODE_DATA), DrLength(CODE_ADDR_COMM)>>

(* The opcodes of a register of n bits, in the order of the loop. *)
OpcodesFromTop(n) == [k \in 1..Weight[n + 1] |-> DrLength(Weight[n + 1] - k)]
Opcodes(n) == [k \in 1..Weight[n + 1] |-> DrLength(k - 1)]

ScanInit ==
  /\ phase = "open" /\ todo = <<>> /\ step = "idle"
  /\ found = [of |-> IdCode, value |-> 0, ok |-> FALSE]
  /\ \E m \in [Addr -> Words] : chain = PowerOn(m)
  /\ failed = 0

-----------------------------------------------------------------------------
(* Accesses of a word, in one piece: JtagLink has their batches. *)

WriteBatches(a, w) ==
  ResetBatch \o SelectAddress \o AddressPhase(a, RW_DWORD, 1)
    \o SelectDataReg \o DataPhase(w, 0)

ReadBatches(a) ==
  ResetBatch \o SelectAddress \o FlushZeros
    \o AddressPhase(a, RW_DWORD, 0) \o SelectDataReg \o ReadData

Write == \E a \in Addr, w \in Words : chain' = Run(chain, WriteBatches(a, w))

(* The host takes all the replies that have come in, one at least. *)
Taken(c) ==
  {[c EXCEPT !.out = SubSeq(@, n + 1, Len(@))] : n \in 1..Len(c.out)}
Kept(c) == {d \in Taken(c) : Len(d.out) <= MaxLate}

(* ftdi_open_device: the last of its writes is still parked when it returns. *)
ConfigureCores ==
  /\ phase = "open"
  /\ Write
  /\ phase' = "startup" /\ todo' = Startup /\ step' = "reset"
  /\ UNCHANGED <<found, failed>>

UserWrite ==
  /\ phase = "console" /\ step = "idle"
  /\ Write
  /\ UNCHANGED <<phase, todo, step, found, failed>>

UserRead ==
  /\ phase = "console" /\ step = "idle"
  /\ \E a \in Addr : chain' \in Kept(Run(chain, ReadBatches(a)))
  /\ UNCHANGED <<phase, todo, step, found, failed>>

(* cli_scan *)
UserScan ==
  /\ phase = "console" /\ step = "idle"
  /\ todo' = <<IrLength>> /\ step' = "reset"
  /\ UNCHANGED <<phase, found, chain, failed>>

-----------------------------------------------------------------------------
(* One scan function *)

task == Head(todo)
Times(n, command) == [k \in 1..n |-> command]

(* What fills a data register with zeros.  Variants: the read alone; a     *)
(* fill without the read whose answer the host waits for.                  *)
FillShort == <<Tdo(Zeros(8))>>
FillUnread == <<Tdi(Zeros(80))>>
FillDR == <<Tdi(Zeros(80)), Tdo(Zeros(8))>>

(* The batch that selects a register and fills it with zeros; for the      *)
(* count, eight ones to the instruction register make every device bypass. *)
SetupBatch ==
  CASE task.fn = "count" ->
         <<ToShiftIR, Tdi(Bits(7, 127)), Tms(1, 131), ToShiftDR>>
           \o Times(10, Tdi(Zeros(8))) \o <<Tdo(Zeros(8))>>
    [] task.fn = "idcode" -> <<Tms(5, 5), Tdo(Zeros(32))>>
    [] task.fn = "ir" -> <<ToShiftIR, Tdi(Zeros(8)), Tdo(Zeros(8))>>
    [] task.fn = "dr" ->
         <<ToShiftIR>> \o Opcode(task.opcode) \o <<ToShiftDR>> \o FillDR

Ones(n) == Tdo(Times(n, Bit(1)))

(* The bits 100 ones push out of the register, and how many come before    *)
(* the first that is not a zero.                                           *)
Measured ==
  LET out == Run([chain EXCEPT !.out = <<>>], <<Ones(100)>>).out[1]
      hits == {k \in 1..100 : out[k] # Bit(0)}
  IN  IF hits = {} THEN 100 ELSE (CHOOSE k \in hits : \A j \in hits : k <= j) - 1

(* What main requires of the answers before it opens the console. *)
Acceptable(t, n) ==
  CASE t.fn = "count" -> n = 1
    [] t.fn = "idcode" -> TRUE
    [] t.fn = "ir" -> n = 6
    [] t.fn = "dr" -> n = IF t.opcode = CODE_DATA THEN 33 ELSE 35

(* The caller goes on with the answer, or gives up. *)
Answer(n, ok) ==
  /\ found' = [of |-> task, value |-> n, ok |-> ok]
  /\ \/ /\ phase = "startup" /\ ~Acceptable(task, n)
        /\ phase' = "exit" /\ todo' = <<>>
     \/ /\ phase = "startup" /\ Acceptable(task, n)
        /\ todo' = Tail(todo)
        /\ phase' = IF todo' = <<>> THEN "console" ELSE phase
     \/ /\ phase = "console"
        /\ todo' = IF task.fn = "ir" THEN Opcodes(n) ELSE Tail(todo)
        /\ phase' = phase
  /\ step' = IF todo' = <<>> THEN "idle" ELSE "reset"

Reset ==
  /\ step = "reset"
  /\ chain' = Run(chain, ResetBatch)
  /\ step' = "setup"
  /\ UNCHANGED <<phase, todo, found, failed>>

Setup ==
  /\ step = "setup"
  /\ chain' = Run(chain, SetupBatch)
  /\ step' = "flush"
  /\ UNCHANGED <<phase, todo, found, failed>>

(* Variant: the answer to the fill is left in the queue. *)
FlushNothing ==
  /\ step = "flush"
  /\ chain.out # <<>>
  /\ step' = "clock"
  /\ UNCHANGED <<phase, todo, found, chain, failed>>

(* FT_Write reports FT_OK but has sent less than all: get_JTAG_count gives *)
(* up only on an error that also has not sent 42 bytes, so it goes on, and *)
(* so it does after an error that has sent all but the read command.       *)
SetupCut ==
  /\ step = "setup" /\ task.fn = "count"
  /\ failed < MaxFailed
  /\ failed' = failed + 1
  /\ \E n \in 0..Len(SetupBatch) - 1 : chain' = Run(chain, SubSeq(SetupBatch, 1, n))
  /\ step' = "flush"
  /\ UNCHANGED <<phase, todo, found>>

(* The reply to the setup is read and, but for the code, thrown away. *)
Flush ==
  /\ step = "flush"
  /\ chain.out # <<>>
  /\ chain' \in Kept(chain)
  /\ \/ task.fn # "idcode" /\ step' = "clock" /\ UNCHANGED <<phase, todo, found>>
     \/ task.fn = "idcode" /\ Len(chain.out) = 1 /\ step' = "finish" /\ UNCHANGED <<phase, todo, found>>
     \/ task.fn = "idcode" /\ Len(chain.out) > 1 /\ Answer(0, FALSE)  \* not four bytes
  /\ UNCHANGED failed

(* Ones in, each with its own poll, until a one comes out.  With replies   *)
(* unread the host looks at older ones, and may go up to that many ones    *)
(* too far; each read takes what has come in and looks at the oldest.      *)
ClockOnes ==
  /\ step = "clock"
  /\ \E d \in 0..Len(chain.out) : \E late \in 0..d :
       LET n == Measured + d
           c == Run(chain, <<Ones(IF n < 100 THEN n + 1 ELSE 100)>>)
       IN  /\ chain' = [c EXCEPT !.out = [k \in 1..late |-> <<Bit(1)>>]]
           /\ found' = [of |-> task, value |-> IF n < 100 THEN n ELSE 0, ok |-> FALSE]
  /\ step' = "finish"
  /\ UNCHANGED <<phase, todo, failed>>

Finish ==
  /\ step = "finish"
  /\ chain' = Run(chain, ResetBatch)
  /\ Answer(IF task.fn = "idcode" THEN 0 ELSE found.value, TRUE)
  /\ UNCHANGED failed

(* A D2XX call fails, or but for the setup of the count is cut short: the  *)
(* function answers 0 and leaves the TAP as it is, and in the queue what   *)
(* it has not read.  Any number of the commands may have gone out before.  *)
(* When the wait for the setup's reply fails, one more one is clocked      *)
(* before the status is looked at.                                         *)
ScanFails ==
  /\ failed < MaxFailed
  /\ failed' = failed + 1
  /\ \/ step \in {"reset", "finish"} /\ chain' \in {chain, Run(chain, ResetBatch)}
     \/ step = "setup" /\ \E n \in 0..Len(SetupBatch) :
          /\ task.fn = "count" => n # Len(SetupBatch) - 1
          /\ chain' = Run(chain, SubSeq(SetupBatch, 1, n))
     \/ step = "flush" /\ chain' \in {chain, [chain EXCEPT !.out = <<>>]} /\ task.fn = "idcode"
     \/ step = "flush" /\ task.fn # "idcode"
          /\ \E c \in {chain, [chain EXCEPT !.out = <<>>]} : chain' \in {c, Run(c, <<Ones(1)>>)}
     \/ step = "clock" /\ \E n \in 0..Measured : LET c == Run(chain, <<Ones(n)>>) IN
          chain' \in {[c EXCEPT !.out = chain.out], Run([c EXCEPT !.out = chain.out], <<Ones(1)>>),
                     [Run(c, <<Ones(1)>>) EXCEPT !.out = <<>>]}
  /\ Answer(0, FALSE)

User == UserWrite \/ UserRead \/ UserScan
Scan == Reset \/ Setup \/ Flush \/ ClockOnes \/ Finish
ScanNext == ConfigureCores \/ User \/ Scan \/ SetupCut \/ ScanFails

(* The host is a single thread that runs a scan to its end, waiting only   *)
(* for a reply: WF_scanVars(Scan), with its ENABLED written out.           *)
Ready == step # "idle" /\ (step = "flush" => chain.out # <<>>)
Fairness == []<>(~Ready) \/ []<><<Scan>>_scanVars

ScanSpec == ScanInit /\ [][ScanNext]_scanVars /\ Fairness

-----------------------------------------------------------------------------
(* Properties *)

TypeOK ==
  /\ phase \in {"open", "startup", "console", "exit"}
  /\ step \in {"idle", "reset", "setup", "flush", "clock", "finish"}
  /\ step # "idle" <=> todo # <<>>
  /\ chain.tap \in TapStates
  /\ chain.mem \in [Addr -> Words \cup {Junk}]
  /\ step \in {"clock", "finish"} => Len(chain.out) <= MaxLate
  /\ failed \in 0..MaxFailed

Length(t) ==
  CASE t.fn = "count" -> 1
    [] t.fn = "idcode" -> 0
    [] t.fn = "ir" -> 6
    [] t.fn = "dr" /\ t.opcode % 64 = CODE_ADDR_COMM -> 35
    [] t.fn = "dr" /\ t.opcode % 64 = CODE_DATA -> 33
    [] OTHER -> 1

(* A scan answers the number of devices or the length of the register it   *)
(* was asked for, whatever was accessed before it.  Replies that an        *)
(* earlier, failed call has left unread can make the answer too long, by   *)
(* no more than are late.                                                  *)
LengthsRight ==
  found.ok /\ found.of.fn # "idcode" =>
    /\ found.value \in Length(found.of)..Length(found.of) + MaxLate
    /\ failed = 0 => found.value = Length(found.of)

(* What the next Update-DR would write, as in JtagLink. *)
Due ==
  IF chain.tap = "Exit1DR" /\ chain.ir = "DATA" /\ chain.cmd.write
    THEN [chain.mem EXCEPT ![chain.cmd.addr] = ReadField("word", chain.dreg)] ELSE chain.mem

(* The console's scan only hands over the word the user wrote last: by the *)
(* time it gets to the data register it has been through the address       *)
(* register, and its ones, with the low TDI of the reset, have left a read *)
(* command there.                                                          *)
ScanOnlyHandsOver ==
  [][phase = "console" /\ step # "idle" /\ failed' = 0 => chain'.mem \in {chain.mem, Due}]_scanVars

(* Waiting for a reply the cut setup of a count has not asked for. *)
Starved == step = "flush" /\ task.fn = "count" /\ chain.out = <<>> /\ failed > 0

(* Every scan comes to an end, but for a count whose setup was cut short:  *)
(* the comment at that wait, "or Timeout", promises more, but it has none. *)
ScanReturns == step # "idle" ~> step = "idle" \/ Starved
=============================================================================
