------------------------------- MODULE Session -------------------------------
(***************************************************************************)
(* One session of the program: the device is opened, the MPSSE of the FTDI *)
(* chip set up and synchronised, the chain looked at, lines are taken from *)
(* the user, the device is closed (uviemon.c, ftdi_device.c 51-446).  Each *)
(* call of the D2XX driver may fail, and a write may be cut short and      *)
(* reported as done (the timeouts are 10 ms).  The chip takes the commands *)
(* one after the other, in its own time.                                   *)
(***************************************************************************)
EXTENDS Integers, Sequences

CONSTANTS
  Commands,  \* commands of the console, exit among them
  MaxFaults, \* bound: calls that fail
  MaxCuts,   \* bound: writes that are cut
  MaxLines   \* bound: lines the user enters

ASSUME InputsAssumption == "exit" \in Commands /\ {"blank", "eof", "unset"} \cap Commands = {}

VARIABLES
  pc,      \* the place in the program
  handle,  \* none, open, closed
  call,    \* the D2XX call made last
  failed,  \* ft_status, accumulated
  toRead,  \* bytes_to_read
  echoed,  \* what FT_Read has put into in_buf
  chip,    \* mode, loop-back, configuration
  inbox,   \* commands on their way to the chip
  outbox,  \* bytes on their way to the host
  rx,      \* the receive queue of the driver
  line, command, \* what the user entered; the array command of parse_input
  ran,     \* the commands carried out
  faults, cuts, lines

hostVars == <<failed, toRead, echoed>>
wires == <<chip, inbox, outbox, rx>>
userVars == <<line, command, ran, lines>>
bounds == <<faults, cuts>>
vars == <<pc, handle, call, hostVars, wires, userVars, bounds>>

Settings == {"clock", "divisor", "low", "high"}
Fifo == [mode |-> "fifo", loop |-> FALSE, conf |-> {}]

Init ==
  /\ pc = "open" /\ handle = "none" /\ call = "none"
  /\ failed = FALSE /\ toRead = 0 /\ echoed = <<>>
  (* the chip as it was plugged in, or as a session left it that was ended *)
  /\ chip \in {Fifo, [mode |-> "mpsse", loop |-> FALSE, conf |-> Settings]}
  /\ inbox = <<>> /\ outbox \in {<<>>, <<"old">>} /\ rx = <<>>
  /\ line = "blank" /\ command = "unset" /\ ran = <<>>
  /\ faults = 0 /\ cuts = 0 /\ lines = 0

-----------------------------------------------------------------------------
(* The driver and the chip *)

Fault == faults < MaxFaults /\ faults' = faults + 1 /\ UNCHANGED cuts
NoFault == UNCHANGED bounds

(* What the chip makes of a command: without MPSSE mode it is data for a   *)
(* port nothing is connected to.                                           *)
Take(c) ==
  IF chip.mode # "mpsse" THEN UNCHANGED <<chip, outbox>>
  ELSE CASE c \in Settings -> chip' = [chip EXCEPT !.conf = @ \cup {c}] /\ UNCHANGED outbox
         [] c = "loop_on" -> chip' = [chip EXCEPT !.loop = TRUE] /\ UNCHANGED outbox
         [] c = "loop_off" -> chip' = [chip EXCEPT !.loop = FALSE] /\ UNCHANGED outbox
         [] c = "bad" -> outbox' = outbox \o <<"FA", "AB">> /\ UNCHANGED chip
         [] c = "jtag" -> UNCHANGED <<chip, outbox>>

ChipTakes ==
  /\ inbox # <<>>
  /\ Take(Head(inbox))
  /\ inbox' = Tail(inbox)
  /\ UNCHANGED <<pc, handle, call, hostVars, rx, userVars, bounds>>

(* The bytes may come in one packet or in several. *)
Deliver ==
  \E n \in 1..Len(outbox) :
    /\ rx' = rx \o SubSeq(outbox, 1, n)
    /\ outbox' = SubSeq(outbox, n + 1, Len(outbox))
    /\ UNCHANGED <<pc, handle, call, hostVars, chip, inbox, userVars, bounds>>

(* FT_Write: done, failed with or without effect, or cut and called done.  *)
Write(c) ==
  /\ call' = "write"
  /\ \/ inbox' = Append(inbox, c) /\ NoFault /\ UNCHANGED failed
     \/ inbox' \in {inbox, Append(inbox, c)} /\ Fault /\ failed' = TRUE
     \/ cuts < MaxCuts /\ cuts' = cuts + 1 /\ UNCHANGED <<inbox, failed, faults>>
  /\ UNCHANGED <<chip, outbox, rx>>

-----------------------------------------------------------------------------
(* ftdi_open_device and the first half of init_MPSSE_mode: a call after    *)
(* the other, each checked at once                                         *)

FirstCalls == <<"open", "version", "reset", "usb_parameters", "purge", "timeouts",
                "bitmode_reset", "bitmode_mpsse">>
After(c) ==
  IF c = "bitmode_mpsse" THEN "loop_on"
  ELSE FirstCalls[(CHOOSE i \in 1..7 : FirstCalls[i] = c) + 1]

Effect(c) ==
  /\ handle' = IF c = "open" THEN "open" ELSE handle
  /\ chip' = CASE c \in {"reset", "bitmode_reset"} -> Fifo
               [] c = "bitmode_mpsse" -> [Fifo EXCEPT !.mode = "mpsse"]
               [] OTHER -> chip
  (* a byte that is on its way may come in after the purge *)
  /\ IF c \in {"reset", "purge"} THEN inbox' = <<>> /\ outbox' \in {<<>>, outbox} /\ rx' = <<>>
     ELSE UNCHANGED <<inbox, outbox, rx>>

(* A failure of FT_Open or of the version leaves at once, the others close *)
(* the handle first.                                                       *)
SetUp ==
  /\ pc \in {FirstCalls[i] : i \in 1..8}
  /\ call' = pc
  /\ \/ Effect(pc) /\ pc' = After(pc) /\ NoFault
     \/ /\ Effect(pc) \/ UNCHANGED <<handle, wires>>
        /\ pc = "open" => UNCHANGED handle
        /\ pc' = IF pc \in {"open", "version"} THEN "left" ELSE "close_failed"
        /\ Fault
  /\ UNCHANGED <<hostVars, userVars>>

(* The second half: loop-back, the bad command and its echo.               *)
LoopOn ==
  /\ pc = "loop_on" /\ Write("loop_on") /\ pc' = "queue_empty"
  /\ UNCHANGED <<handle, toRead, echoed, userVars>>

WhenEmpty == [queue_empty |-> "bad_command", queue_empty_again |-> "clock"]

(* A look that fails leaves the count as it was: 0 the first time, that of *)
(* the echo the second time.                                               *)
QueueEmpty ==
  /\ pc \in {"queue_empty", "queue_empty_again"}
  /\ call' = "queue_status"
  /\ \/ /\ pc' = IF rx # <<>> THEN "bitmode_off" ELSE WhenEmpty[pc]
        /\ toRead' = IF pc = "queue_empty" THEN toRead ELSE Len(rx)
        /\ NoFault /\ UNCHANGED failed
     \/ /\ pc' = IF pc = "queue_empty_again" /\ toRead # 0 THEN "bitmode_off" ELSE WhenEmpty[pc]
        /\ failed' = TRUE /\ Fault /\ UNCHANGED toRead
  /\ UNCHANGED <<handle, echoed, wires, userVars>>

BitmodeOff ==
  /\ pc = "bitmode_off" /\ call' = "bitmode"
  /\ (chip' = Fifo /\ NoFault) \/ (UNCHANGED chip /\ Fault)
  /\ pc' = "close_failed"
  /\ UNCHANGED <<handle, hostVars, inbox, outbox, rx, userVars>>

BadCommand ==
  /\ pc = "bad_command" /\ Write("bad") /\ pc' = "poll"
  /\ UNCHANGED <<handle, toRead, echoed, userVars>>

(* Variants: without the test of the status; a single look. *)
PollAlways(n) == n = 0
PollOnce(n) == FALSE
PollAgain(n) == n = 0 /\ ~ failed'

Poll ==
  /\ pc = "poll" /\ call' = "queue_status"
  /\ \/ toRead' = Len(rx) /\ NoFault /\ UNCHANGED failed
     \/ UNCHANGED toRead /\ failed' = TRUE /\ Fault
  /\ pc' = IF PollAgain(toRead') THEN "poll" ELSE "read"
  /\ UNCHANGED <<handle, echoed, wires, userVars>>

ReadEcho ==
  /\ pc = "read" /\ call' = "read"
  /\ \/ /\ echoed' = SubSeq(rx, 1, toRead) /\ rx' = SubSeq(rx, toRead + 1, Len(rx))
        /\ NoFault /\ UNCHANGED failed
     \/ echoed' = <<>> /\ UNCHANGED rx /\ failed' = TRUE /\ Fault
  /\ pc' = IF \E i \in 1..(Len(echoed') - 1) : echoed'[i] = "FA" /\ echoed'[i + 1] = "AB"
             THEN "loop_off" ELSE "close_failed"
  /\ UNCHANGED <<handle, toRead, chip, inbox, outbox, userVars>>

LoopOff ==
  /\ pc = "loop_off" /\ Write("loop_off") /\ pc' = "queue_empty_again"
  /\ UNCHANGED <<handle, toRead, echoed, userVars>>

(* The configuration, four writes and one look at the status. *)
ConfigureNext == [clock |-> "divisor", divisor |-> "low", low |-> "high", high |-> "jtag_reset"]

(* Variant: the status of the last write alone. *)
FailedNow == faults' # faults
FailedBefore == failed'

Configure ==
  /\ pc \in Settings /\ Write(pc)
  /\ pc' = IF pc = "high" /\ FailedBefore THEN "close_failed" ELSE ConfigureNext[pc]
  /\ UNCHANGED <<handle, toRead, echoed, userVars>>

(* Variant: the caller does not hear of it. *)
CloseAndGoOn ==
  /\ pc = "close_failed" /\ call' = "close" /\ handle' = "closed"
  /\ pc' = "jtag_reset"
  /\ UNCHANGED <<hostVars, wires, userVars, bounds>>
CloseFailed ==
  /\ pc = "close_failed" /\ call' = "close" /\ handle' = "closed"
  /\ pc' = "left"
  /\ UNCHANGED <<hostVars, wires, userVars, bounds>>

-----------------------------------------------------------------------------
(* The chain: reset_JTAG_state_machine, the type of the processor, the     *)
(* start-up of the cores, the scans of main.  What they find is open here  *)
(* (JtagScan, RunCpu); where it is wrong, main returns as things are.      *)

JtagReset ==
  /\ pc = "jtag_reset" /\ Write("jtag")
  /\ pc' = IF faults' # faults THEN "left" ELSE "detect"
  /\ UNCHANGED <<handle, toRead, echoed, userVars>>

Detect ==
  /\ pc = "detect" /\ Write("jtag")
  /\ pc' \in {"left", "scans"}
  /\ UNCHANGED <<handle, toRead, echoed, userVars>>

Scans ==
  /\ pc = "scans" /\ Write("jtag")
  /\ pc' \in {"left", "console"}
  /\ UNCHANGED <<handle, toRead, echoed, userVars>>

-----------------------------------------------------------------------------
(* console, parse_input *)

ReadLine ==
  /\ pc = "console" /\ lines < MaxLines
  /\ lines' = lines + 1
  /\ line' \in Commands \cup {"blank", "nonsense"}
  /\ pc' = "parse"
  /\ UNCHANGED <<handle, call, hostVars, wires, command, ran, bounds>>

(* Variant: the end of the input ends the program. *)
EndOfFileLeaves ==
  /\ pc = "console"
  /\ line' = "eof" /\ pc' = "left"
  /\ UNCHANGED <<handle, call, hostVars, wires, command, ran, lines, bounds>>
EndOfFile ==
  /\ pc = "console"
  /\ line' = "eof" /\ pc' = "bitmode"
  /\ UNCHANGED <<handle, call, hostVars, wires, command, ran, lines, bounds>>

(* A blank line leaves command as it is on the stack: as the call before   *)
(* left it, unless readline has been there meanwhile; at the first line,   *)
(* anything.                                                               *)
Parsed ==
  IF line # "blank" THEN {line}
  ELSE {"nonsense"} \cup (IF command = "unset" THEN Commands ELSE {command})

Parse ==
  /\ pc = "parse"
  /\ command' \in Parsed
  /\ IF command' = "exit" THEN pc' = "bitmode" /\ UNCHANGED <<ran, call, inbox, bounds, failed>>
     ELSE IF command' \in Commands
       THEN /\ ran' = Append(ran, command') /\ Write("jtag") /\ pc' = "console"
       ELSE pc' = "console" /\ UNCHANGED <<ran, call, inbox, bounds, failed>>
  /\ UNCHANGED <<handle, toRead, echoed, chip, outbox, rx, line, lines>>

(* ftdi_close_device: three calls, none of them checked.  Variant: the    *)
(* chip is not reset before the handle is closed.                          *)
CloseNextNoReset == [bitmode |-> "close", close |-> "closed"]
CloseNext == [bitmode |-> "reset_last", reset_last |-> "close", close |-> "closed"]
Close ==
  /\ pc \in {"bitmode", "reset_last", "close"}
  /\ call' = pc /\ pc' = CloseNext[pc]
  /\ \/ NoFault /\ chip' = (IF pc = "close" THEN chip ELSE Fifo)
     \/ pc # "close" /\ Fault /\ UNCHANGED chip
  /\ handle' = IF pc = "close" THEN "closed" ELSE handle
  /\ inbox' = IF pc = "reset_last" /\ faults' = faults THEN <<>> ELSE inbox
  /\ UNCHANGED <<hostVars, outbox, rx, userVars>>

-----------------------------------------------------------------------------
Program ==
  \/ SetUp
  \/ LoopOn \/ QueueEmpty \/ BitmodeOff \/ BadCommand \/ Poll \/ ReadEcho \/ LoopOff
  \/ Configure \/ CloseFailed
  \/ JtagReset \/ Detect \/ Scans
  \/ Parse \/ Close

Next == Program \/ ReadLine \/ EndOfFile \/ ChipTakes \/ Deliver

(* The program runs on, the chip works, USB delivers; no call need fail,   *)
(* and the user need not enter anything.                                   *)
Spec == Init /\ [][Next]_vars /\ WF_vars(Program /\ NoFault) /\ WF_vars(ChipTakes) /\ WF_vars(Deliver)

-----------------------------------------------------------------------------
Places ==
  {FirstCalls[i] : i \in 1..8} \cup Settings
    \cup {"loop_on", "queue_empty", "bad_command", "poll", "read", "loop_off", "queue_empty_again",
          "bitmode_off", "close_failed", "jtag_reset", "detect", "scans", "console", "parse",
          "bitmode", "reset_last", "close", "closed", "left"}

TypeOK ==
  /\ pc \in Places /\ handle \in {"none", "open", "closed"}
  /\ toRead <= 3 /\ (pc = "read" /\ ~ failed => toRead \in 1..Len(rx))
  /\ chip.mode \in {"fifo", "mpsse"} /\ chip.conf \subseteq Settings
  /\ command \in Commands \cup {"nonsense", "unset"}

(* No command for the chain is taken by a chip that is not in MPSSE mode,  *)
(* still looped back or not configured, unless a write was cut without     *)
(* notice: a call that fails anywhere in the set-up keeps the program from *)
(* going on, though most of them are looked at together, at the end        *)
(* (ftdi_device.c 271-446).                                                *)
JtagOnlyWhenReady ==
  inbox # <<>> /\ Head(inbox) = "jtag" /\ cuts = 0 /\ pc \notin {"reset_last", "close", "closed"}
    => chip = [mode |-> "mpsse", loop |-> FALSE, conf |-> Settings]

(* From the opening on the program, which calls the driver in nearly every *)
(* step, acts on a handle that is open, and so closes it no more than      *)
(* once, on every way through the set-up and out of it.  Out of the scans  *)
(* of main it does not close it at all.                                    *)
HandleUsedOpen == [][Program => handle = "open" \/ pc = "open"]_vars

(* The set-up comes to an end, at the prompt or with a message: the wait   *)
(* for the echo, which has no limit, ends if no write was cut.             *)
SetUpEnds == <>(pc \in {"console", "left"} \/ cuts > 0)

(* However the console is left, the handle is closed, and the chip reset   *)
(* whatever it still takes from its inbox meanwhile; two failed calls of   *)
(* the driver, wherever in the session, excuse a chip that is not          *)
(* (ftdi_device.c 120-129).                                                *)
LeavesChipReset == pc = "closed" => handle = "closed" /\ (chip = Fifo \/ faults > 1)

(* Once the user has said exit, or the input has ended, the console is     *)
(* left and the device closed (uviemon.c 28-52).                           *)
LeftWhenAsked == (line = "exit" \/ line = "eof") ~> pc = "closed"
=============================================================================
