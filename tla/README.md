# A verification project for uviemon

uviemon is a monitor for LEON3 and LEON4 boards.  It talks to the processor's
JTAG debug link through an FTDI FT4232H in MPSSE mode, reads and writes target
memory and the debug support unit (DSU), loads and runs programs.  This
directory holds TLA+ modules of its logic, the TLC runs that check them and
proofs that TLAPS checks.  Every definition is translated from the C code;
`PROJECT.json` maps it to the lines it stands for.

## 1. Inventory

Everything runs in one thread.  Concurrency is between that thread, the FTDI
chip that executes the byte batches it is handed and answers on its own time,
and the target processor, which runs while the monitor looks at it.

| component | files | state it keeps | operations | what makes it correct |
|---|---|---|---|---|
| Word accesses | `ftdi_device.c` 1176-1505, 1798-2029 | none of its own: the TAP's place, the address register, the reply queue are all outside the program | `ioread32`, `ioread32raw`, `iowrite32`, `iowrite32raw` | reads and writes of a memory: once, in order, on their own words, whatever calls fail |
| JTAG command sequences | the byte arrays of the same functions, and 571-589 | - | one MPSSE batch per array | each batch starts from the TAP state it was written for and does what its caller expects |
| Chain and register scans | `ftdi_device.c` 723-1120, `uviemon.c` 158-203, `uviemon_cli.c` 250-263 | what a scan returned | `get_JTAG_count`, `read_idcode`, `scan_IR_length`, `scan_DR_length`, `scan_instruction_codes` | the lengths found are those of the chain; a scan disturbs nothing on the bus; it ends |
| Byte, half-word and buffer accesses | `ftdi_device.c` 1122-1174, 1507-1796, 2031-2066 | - | `ioread8/16`, `iowrite8/16`, the `_buffer` and `_progress` functions | only the addressed bytes change; chunks cover the buffer once |
| Opening the device | `ftdi_device.c` 51-129, 150-446, `uviemon.c` 96-215 | `device`: handle, index, CPU type, active CPU, first_run | open, MPSSE set-up and synchronisation, CPU detection, close | the synchronisation ends; nothing uses the chain before the chip is ready or the driver after `FT_Close`; `exit` and the end of the input leave the chip reset and the device closed (most error exits of `main` leave it open) |
| Running a program | `ftdi_device.c` 448-569, 592-721, `uviemon_cli.c` 265-305, 911-952 | `first_run`, `active_cpu`; the registers of the DSU, the UART and the cores | `init_core_1`, `set_other_cores_idle`, `runCPU`, `reset`, `ftdi_set_cpu_idle`; commands `run`, `reset`, `cpu` | the chosen core runs, its output is shown, its trap is reported, the other cores are left alone, nothing stays held |
| DSU driver | `leon3_dsu.c` | none: read-modify-write of target registers | control flags, masks, register windows, trace buffer | a change of one flag leaves the others; a register number finds its window |
| Console and commands | `uviemon_cli.c`, `uviemon.c` | line history (readline) | one function per command | arguments are checked before they act; a failed step is reported |
| Register names | `uviemon_reg.c` | - | name to register and window | a name finds its register, nothing else is accepted |
| Address map | `address_map.c` | a table | look-up by CPU type | an entry is the register its name says |
| D2XX driver | `lib/ftdi` (vendored) | the driver's queues | `FT_Write`, `FT_Read`, `FT_GetQueueStatus` | external |

How they interact: every command ends in word accesses.  An access clocks the
TAP through a fixed sequence of states, batch by batch, and **leaves it parked
in the middle of the data-register path**; the next access, whichever it is,
begins with the reset that hands over what was parked.  So no access can be
understood alone, and neither a unit test of one function nor a board that
answers quickly shows what happens between two of them.

The hard behaviours, each one a hazard in `PROJECT.json` at its line:

- a write takes effect in the *next* access, or never (`iowrite32` 1896);
- a batch may fail or be cut short after any of its commands, and the TAP stays
  where it was left; the caller goes on (585) or gives up (2023);
- a read that fails leaves its reply in the driver's queue, which nothing ever
  purges; the next read takes it for its own, succeeds, and leaves its own to the
  one after it, in later commands too (1298, 1463);
- a write that is cut short may pass for a good one (765), and its reply is waited
  for;
- the poll loops have no time limit (1301, 305);
- a burst steps its address inside a block only (1909), and buffers are cut into
  bursts by arithmetic written once for each direction (1517, 2041);
- the raw functions return nothing, so a caller goes on with an array that was
  not filled (1533);
- a scan shifts through registers that are also the registers of the bus (1001);
- `runCPU` looks at the UART and at the core in two accesses while the core runs
  (663-684), lets the core go before its last register is written (647-657), and
  writes that register in core 0's DSU whatever core it was asked for (657);
- DSU flags are changed by reading, changing and writing a word, while the cores
  run and trap, and a failed read answers 0 (`leon3_dsu.c` 187); the mask
  registers hold a bit for every core, so a change for one core rewrites the
  others';
- a register is found by the window read one access earlier (`uviemon_reg.c` 88),
  and the windows overlap and wrap (`leon3_dsu.c` 90);
- the trace buffer is a ring the core goes on writing, read backwards in pages
  that `inst` reads twice (`uviemon_cli.c` 733-788);
- a call that fails in the middle of the MPSSE set-up is noticed at its end (437),
  and there are a dozen ways out of `main`.

## 2. Modules

Four layers: the word accesses, the command sequences below them, what is built
on them (transfers, DSU, commands), and the session around it all.

**`DebugMemory`** is what `ftdi_device.h` promises: a memory that `iowrite*`
change and `ioread*` look up, where a call that fails may spoil the words it
still had to write and no other.  A read that fails may get the reply queue out of
step (`synced`); until it is in step again a read succeeds and answers anything.
It is the abstract specification, and what is built on the accesses takes it over,
`synced` included: `Transfers`, `DsuControl` and `Inspect` have an action for the
read that works, for the one that comes late, and for the one that fails.  A session
begins in step; no command or call resets `synced`, as none purges the queue.

**`DebugLink`** models the four word accesses, one action per `FT_Write` batch,
queue poll or `FT_Read`.  `pc` is the place in the function, `op` and `i` its
arguments and loop variable.  `shift` abstracts the TAP: which register is
selected and what the next pass through Update-DR will hand over.  `cmd`,
`rdata` and `mem` are the AHB side of the debug link, `wire` and `rx` the replies
on their way and in the driver's queue.  Each action has a failing sibling that
ends the access at any point of the batch.  *Refinement:* the abstract memory is
`View`, target memory **with the parked word already handed over**.

**`JtagTap`** is the TAP controller's sixteen states, its clocking and the MPSSE
commands (clock data out, clock data with read-back, clock TMS), as functions
on a record; `Clocked` (edges) and `Run` (commands) are recursive functions.  **`JtagLink`** gives each batch of `DebugLink` as the command
sequence the source writes, executed on that TAP, and shows it to implement
`DebugLink`: the refinement of the abstract `shift`.

**`JtagScan`** models the scans over the same TAP: how many cores, the lengths
of the instruction and data registers, the opcode scan and its loop, with the
fill-and-count protocol of `get_JTAG_count`, late answers and failing calls.  The
setup of the count may be cut and pass for a good write (`SetupCut`); then the host
polls for a reply nobody asked for (`Starved`).

**`Leon`** is the target as the DSU shows it: per core its mode (running, debug,
error), power-down, halt, the control flags, what it executes (boot software,
the loaded program, or "stray" after a trap) and the traps it stopped with; the
break and no-force masks, the timers, and the UART's queue.  It is external and
a module of operators on a record, without variables.  **`RunCpu`** is the host:
start-up, `runCPU`, `reset`, `ftdi_set_cpu_idle` and their commands.  The long
rows of register accesses are data (`todo`), executed by two actions,
`ReadRegister` and `WriteRegister`, so that every read-modify-write is two steps
with the cores running between them; the loop of `runCPU` has an action per
access.  What `DebugLink` shows of writes is taken over: a write is `parked` until
the next access hands it over.

**`ByteLanes`** is the arithmetic of `ioread8/16` and `iowrite8/16`: where a byte
of a word goes in the command and comes from in the answer, as pure operators.
**`Transfers`** is the commands on memory: `load` and `verify` with their loop
over blocks of a file, `wash`, `mem` and `bdump` with one buffer, `memh`, `memb`
and `wmem*` with single accesses, and below them the two `_progress` functions
that cut a buffer into raw calls.  An action is one raw call or one pass of
`fread` or of the comparison; a failing call leaves the caller's array or part
of the memory as it was (or spoils it, as `DebugMemory` allows) and control goes
on as after a good one, which is what the code does.  While replies are left over
the words of a raw read are those of earlier reads first (`Answers`), then its own.
Arrays remember which elements nobody has written.

**`DsuFlags`** is what the set and clear functions of `leon3_dsu.c` promise: the
registers of the DSU are sets of flags and a function turns one of them on or
off; a failed read turns the others of that register off, a late answer or a failed
write leaves anything in it, and no other register is reached.  **`DsuControl`** is
the code: every function is `ReadRegister` (or `ReadLate`) and then `WriteRegister`,
each with a failing sibling, and between the two a core may trap, enter debug mode and take others
along (`Trap`).  *Refinement:* the abstract flags are the bits a register keeps as
they were written; DM, PE and HL are the core's state and not among them.

**`RegisterFile`** is address arithmetic: the functions and macros that compute
where a register lies, in words, beside the register windows of a SPARC core and
the way the DSU shows them (`CoreReg`, `Word`).  **`RegisterNames`** is
`parse_register` and the function table, beside what a name means.
**`TraceBuffer`** is the ring of trace lines with the core's `Record` and the
arithmetic of `dsu_get_instr_trace_buffer`.  They are operators without
variables; **`Inspect`** uses them for the commands `reg` and `inst`, an action per
access, with a core that executes, moves its window and writes its trace in
between, accesses that fail (0 for a word, what the heap held for a buffer), and
answers that come late: any word for the window, the trace pointer or a register,
the first lines of a page or all of them.

**`Session`** is the program from `FT_Open` to `FT_Close`: the set-up calls, the
synchronisation by a bad command, the configuration whose status is looked at
once, the reset and the scans (open here, `JtagScan` has them), the console with
its lines, blank lines and end of input, and the close.  The chip takes commands
from `inbox` in its own time and its bytes come to `rx` in one packet or several.

**`DebugLinkProofs`**, **`JtagTapProofs`** (the clock patterns),
**`JtagLinkProofs`**, **`RunCpuProofs`**, **`DsuControlProofs`**,
**`InspectProofs`** (with the register file), **`SessionProofs`** and
**`TransfersProofs`** hold the proofs.  The modules
with an `MC` prefix instantiate a module for TLC and define nothing else.

| module | source | correspondence |
|---|---|---|
| `DebugLink.StartRead/StartWrite` | entry of the four functions | arguments; the constant `Transfers` holds those callers make |
| `ResetJtag` | `reset_JTAG_state_machine` 571-589 | Update-DR of what was parked, then Test-Logic-Reset |
| `SendCommand`, `SelectData` | the two batches before the data of a write | select the address register, then the data register |
| `ShiftWord`, `ShiftLastWord` | 1883-1905 and the loop of 1966-2028 | a word with its SEQ bit; the last one stays in Exit1-DR |
| `ReadWord` | the single batch of `ioread32` | command, register change and read |
| `OpenRead`, `FetchWord`, `NextWord` | `ioread32raw` | a batch per word with a poll and a read between |
| `PollQueue`, `TakeReply` | `FT_GetQueueStatus` / `FT_Read` | spin until the queue is not empty, take all |
| `...Fails` | the `return` after each unsuccessful call | the batch executed up to any of its commands |
| `JtagScan.Setup/Flush/ClockOnes/Finish` | `get_JTAG_count`, `read_idcode`, `scan_IR_length`, `scan_DR_length` | fill with zeros, clock ones until one comes out |
| `SetupCut`, `ScanFails` | 757-768; the `return 0` after each call | a cut setup of the count is accepted, every other failure ends the function |
| `RunCpu.SetIdle`, `Reset`, `Prepare`, `Resume`, `init_core_1` | the functions of these names; `Prepare` and `Resume` are `runCPU` up to 657 | rows of accesses; registers no property looks at are one access, `Others` |
| `Open`, `IdleNextCore` | `ftdi_open_device` 112-115, the loop of `set_other_cores_idle` | the writes of `init_core_1` and the first read, then a row of accesses per turn |
| `ReadRegister`, `WriteRegister` | `dsu_set_dsu_ctrl`, `dsu_clear_dsu_ctrl`, the mask functions, the setters | read, then write back with bits set or cleared |
| `PollUart`, `Drain`, `CheckDebugMode`, `ReadTrap`, `ReadTbr` | `runCPU` 663-720 | one access each |
| `cli_run`, `Direct`, `Activate`, `Probe` | `cli_run`, `cli_reset`, `cli_cpu` | a command fills `todo` |
| `CoreSends`, `CoreStops`, `CoreParks` | the cores | external |
| `ByteLanes.Out8`, `Out16`, `In8`, `In16` | `iowrite8`, `iowrite16`, `ioread8`, `ioread16` | which of the four bytes carry data |
| `Transfers.Size`, `Chunks`, `ChunkSize` | `*_progress` 1512-1541, 2036-2065 | the words of the buffer (through a WORD), number and length of its raw calls |
| `WriteChunk`, `ReadChunk`, `...Fails` | one turn of their loops | `tempData` is kept between turns of a read |
| `Answers`, `ItemAnswer` | `ioread32raw` 1463-1487, `ioread32` 1298-1321 | replies left over come first |
| `Fread`, `NextBlock` | `cli_load` 352-367, `cli_verify` 520-540 | one block of the file; comparison, places of the next one, the division in the progress line |
| `Finish`, `ReadItem`, `WriteItem` | `mem`, `bdump`, `wash`; `memh`, `memb`; `wmem*` | |
| `DsuControl.CtrlOps`, `MaskOps` | the 13 functions on a control register (`leon3_dsu.c` 397, 650-839), the six on a mask (252-373) | a bit, a register and a direction each |
| `ReadRegister`, `WriteRegister`, `Changed` | `tmp = ioread..`, `tmp \|= flags` or `tmp &= ~flags`, `iowrite..` | two accesses; the cores run between them; `ReadLate` where the reply is an earlier one |
| `RegisterFile.dsu_get_..._addr`, `DSU_REG_...` | functions and macros of these names | in words from the start of the register file |
| `RegisterNames.parse_register`, `Target` | `uviemon_reg.c` 83-258 | the name as characters; special names are one element |
| `TraceBuffer.FirstLine`, `ReadSize`, `Fetch` | `leon3_dsu.c` 1138-1189 | in lines |
| `Inspect.ReadPsr`, `SetWord`, `GetWord`, `register_print_summary` | `cli_reg` 796-908, `uviemon_reg.c` 261-284 | one access each; a double is two, the summary ten |
| `ReadPointer`, `ReadLines`, `ReadRest`, `CountPage`, `PrintPage` | `cli_inst` 705-794 and the function above | the pages are read to count and read again to print |
| `Session.SetUp` | `ftdi_open_device` 58-78, `init_MPSSE_mode` 205-250 | eight calls, each checked at once |
| `LoopOn` ... `LoopOff`, `Configure` | `init_MPSSE_mode` 267-441 | a call each, `failed` is the accumulated `ft_status` |
| `ReadLine`, `Parse`, `EndOfFile`, `Close` | `console`, `parse_input`, `ftdi_close_device` | `command` is the array on the stack |

External, modelled from how the code drives them: the AHB side of the debug
link, the USB delivery, the MPSSE engine.  Assumed of them: Update-DR of the
data register with RW = 1 writes one word and with SEQ = 1 steps the address
inside a block (`SeqNext`); Update-DR of the address register with RW = 0 reads;
Test-Logic-Reset selects IDCODE and leaves the address register as it was; the
bytes of one reply become visible together; a failing batch was executed up to
some whole command.  Assumed of the target: a core's registers can be written in
debug mode only; clearing its break bit lets a core in debug mode go on; writing
PE to its control register clears error mode and the halt (whether it also ends
debug mode is left open); a core entering debug mode takes the others along
unless its no-force bit is set; a trap no handler takes ends in debug mode with
BE set and in error mode without; the programs of a core end by such a trap.
Further, of the DSU: halting a core needs it in debug mode; a core with its break
bit and BW set enters debug mode; the lines of the trace buffer repeat in its
address space, which is 16 times as large (the code wraps by the space and the
pointer by the lines); the windows appear from word 8 on; an address the code
uses for a refused window is the bus address 0.  Of the chip: a reset or a purge
drops what is in the queues, but a byte already on its way may still come.

## 3. Runs

Two words of memory, both of them the callers' and in one block of sequential
addresses unless a row says otherwise.  Two are enough to tell "the addressed
word" from "another word", a burst's first word from its last, and a step inside
a block from a step over its end; the proofs show that nothing depends on two.

| run | module, bounds | shows |
|---|---|---|
| `link` | `MCDebugLink`, 2 words, 2 failures | types, parking places, that no more replies are left over than calls have failed (`LateByFailures`), the inductive invariant's last part (`OnCourse`), the refinement of `DebugMemory`, and that every access returns |
| `tap` | `MCJtagLink`, 1 failure | the clock patterns and bit counts of the source implement `DebugLink`, complete or cut after any command; between batches the TAP is in a place from which five clocks reset it |
| `lost_reset` | `MCJtagLink`, `LostSpec`, 2 lost resets | even when resets are cut short unnoticed, an AHB write carries the parked word or a word of the call in progress to its own address |
| `scan` | `MCJtagScan`, 1 failure or cut, 1 late reply | scans answer the lengths of the chain's registers, write nothing but the word that was parked, and end, but for a count whose setup was cut and passed (`ScanReturns`) |
| `exit` | violated: `WrittenAtExit` | the last word written before `exit` never reaches the bus |
| `run` | `MCRunCpu`, 2 cores, 3 commands, run on core 0 | every character the UART kept is shown once and in order (`ShownInOrder`); `runCPU` reports the trap of this run (`ReportsThisRun`); no core is stopped by another (`OthersUndisturbed`); nothing is held at the prompt (`NoneLeftHeld`); a run comes back (`RunReturns`) |
| `other_core` | violated: `RunReturns`, core 1 active | break on error is set in core 0's DSU only, and the loop waits for core 1 forever |
| `transfers` | `MCTransfers`, 6 words, 1 failure, 2 commands | a command without a failed call has written exactly what was asked (`WritesWhatWasAsked`); no failure touches a byte that was not to be written (`NothingElse`); a command that finds the reply queue in step and has no failed call shows what is there (`ReadsWhatIsThere`), and such a `verify` is right (`VerifyTruthful`); commands come back |
| `dsu` | `MCDsuControl`, 2 cores, 1 failure, 3 calls | the flag functions implement `DsuFlags` (`ImplementsFlags`): a call changes its flag, keeps the others unless its own read failed or came late, and never reaches another register; a core in debug mode or halted is let go only by a call about it, or by one on the shared break bits whose read failed or came late or whose write failed (`HeldStaysHeld`) |
| `inspect` | `MCInspect`, 8 windows, 8 trace lines, 1 failure, 1 instruction or move, late answers on 1 page back, 2 commands | `reg`, begun in step and undisturbed, shows and sets the register its name means (`RegShowsItsRegister`) and, whatever fails, is late or moves, no register of another kind or number (`OnlyItsRegister`); `inst`, begun in step and undisturbed, lists the end of the trace from the beginning of an instruction (`ListingIsTail`), and page after page in order (`ListingInOrder`); commands return unless answers are late for good (`CommandReturns`) |
| `session` | `MCSession`, 2 failures, 1 cut write, 3 lines | nothing is sent down the chain before the chip is in MPSSE mode, out of loop-back and configured (`JtagOnlyWhenReady`); every step of the program but `FT_Open` is made with an open handle, so that it is closed once and not used after (`HandleUsedOpen`); the set-up ends, if no write was cut (`SetUpEnds`); a session left by `exit` or the end of the input has closed the handle and, unless two calls failed somewhere in it, reset the chip (`LeavesChipReset`); and it is left then (`LeftWhenAsked`) |
| `verify` | violated: `VerifyOk` | after a read that failed, `verify` says OK of a file that is not in memory |

The violated runs are findings, quoted in `PROJECT.json` beside what the source
or its help text says.

Bounds.  `MaxFaults` is 1 or 2: after a failure the host gives up the access
and starts another from whatever place the failure left, so two failures are
one in an access and one in the access that recovers.  `MaxLate` is 1, in the
theorems too (`BoundsAssumption`): with two late replies the instruction-register
length can come out 8, for which the loop over a BYTE opcode in
`scan_instruction_codes` does not end: the bound leaves that loop out, and
`LengthsRight` states how far one reply goes, to 7.  The
variables of `JtagScan` have names of their own (`chain` is the `chip` of `JtagLink`,
`step` its `pc`) so that one module can prove about both.  In `MCJtagLink` and `MCJtagScan` the
registers have their real lengths (6, 33 and 35 bits) and the clock counts are
the source's.

In `MCRunCpu` two cores are the GR712RC's; a UART of two characters and programs
that print at most two let it be empty, filling and full, and let a run find
characters that an earlier one left; three commands are needed for a run after a
command that changed the other core, followed by another.

In `MCTransfers` sizes are scaled down: a raw call has 2 words (256 in the code),
the file buffer 4 words (1024), the skipped head of a file 4 bytes (64 KiB) and a
WORD counts to 8 (65536).  The code's relations are kept (a buffer is a whole
number of raw calls, a WORD holds more than a buffer), and the files and lengths
end in the middle of a word, of a chunk, at the end of a buffer and in the
second one, or have no body at all.  Addresses are aligned, odd, at the end of a
block and in its middle.  Two commands are a load and the verify after it.

`Straight` leaves out of the properties of `Transfers` what the code does not
handle: lengths a WORD cannot hold, and transfers that start inside a block and
leave it in one raw call - the code checks their length and not where they
start.  Both are in the model.  The commands access memory that exists, and the
words a failing raw call has touched are kept, stored or spoilt in any mixture.
`Late` has the one content an answer to an earlier read may have; memory starts full
of it or full of another, so that a late word may be right or wrong.

In `MCDsuControl` two cores share the masks, and three calls are a core being held,
a call about the other one, and the call that lets it go; `ControlFlags` has the
two flags the cores' behaviour depends on, the others differ in name only.  In
`MCInspect` the windows are the code's 8, the names have one of each kind, both
ends of a window's registers, and a number with two digits; the window starts at
the last one, where addresses wrap.  The trace has 8 lines (256 in the code) in a
space of 128, an instruction takes 3 lines or 1, and up to two instructions are
asked for, so that a page splits an instruction, wraps, and must be followed by
another; one instruction executed meanwhile overwrites three of the eight lines, or
moves the window between the read of it and the read of the register.  `Late` has a window the core has and one it has not; `MaxPages` bounds how
many pages back answers may go on being late, since `inst` would go back for ever on
words that are no lines, and where it leaves off the queue is in step again.  In
`MCSession` two failures are one in the set-up and one in the way out;
three lines are a command, a blank line that may repeat it, and an exit.

Some properties name what the code does not promise.  `ListingInOrder` is stated
for core 0, since older pages are printed from core 0 whichever core is active
(`uviemon_cli.c` 787); `RegShowsItsRegister` for floating-point names whose number
is read right, since `parse_register_number` skips the first digit
(`uviemon_reg.c` 305); `ListingIsTail` allows one instruction less, since the count
begins one line past the buffer (`uviemon_cli.c` 734); `SetUpEnds` for sessions in
which no write was cut and called done, since the wait for the echo would go on;
`ScanReturns` excuses a count whose setup was cut (`ftdi_device.c` 765) and
`CommandReturns` of `Transfers` the division by zero (`uviemon_cli.c` 366).
All of these are in the models, and the properties fail there if the condition is
left out.

The reply queue is the condition that runs through the project.  `DebugLink` shows
what a failed read leaves behind and that no more is left than calls have failed;
above it `ReadsWhatIsThere`, `VerifyTruthful`, `RegShowsItsRegister`,
`ListingIsTail` and `ListingInOrder` are stated for commands that find the queue in
step and in which nothing fails (`Undisturbed`, `calm`).  The commands that write
without reading (`WritesWhatWasAsked`, `NothingElse`) do not need it.  A
read-modify-write does: `ImplementsFlags` and `HeldStaysHeld` say what is left of
the promise when its read came late - its own register, in `reg` the kind and
number named (`OnlyItsRegister`).  Without the condition they fail in the models:
a `memh` whose read fails leaves its reply behind, and a `verify` none of whose reads
fails then compares that word and says OK.

Deadlock is not checked in the runs: the console may be left, and the user may
stop giving commands.

Fairness.  The host is one thread and nothing preempts it in the middle of an
access, so its next step is weakly fair; the chip answers what it was asked
(`Deliver`).  In `RunCpu` also the cores' programs end (`CoreStops`): a program
that does not is not one `run` is made for, it polls until then.  In `Transfers` a
command's next step is fair, each access returning by `AccessReturns` of the
`link` run.  In `Inspect` and `Session` too the program's next step is fair,
and in `Session` the chip takes its commands and USB delivers.
The user is under no obligation.  `JtagScan` writes the weak
fairness of the scan steps with its ENABLED spelt out (`Ready`).

## 4. Proofs

For every number of words, contents, transfers and failures, under the
assumptions named in `DebugLink` (`NumWordsAssumption` ... `MaxFaultsAssumption`):

- `TypeCorrect`: `Spec => []TypeOK`.
- `LinkCorrect`, `ParkedCorrect`, `ReplyCorrect`: under `TransfersInBlock` - the
  callers' transfers lie in memory and inside a block (`Transfers` says which
  callers respect that) - the invariant
  `LinkInv == TypeOK /\ ParkedWhereExpected /\ ReplyIsOurs /\ OnCourse`.
- `LinkIsMemory`: under the same assumption `DebugLink` implements `DebugMemory`.
- `OnCourseCorrect`: under the same assumption, the last part of the invariant.
- `LateCorrect`: `Spec => []LateByFailures`, whatever the transfers: no more replies
  are left over than calls have failed.
- `ResetHandsOver`, `WriteCommand`, `ReadCommand`, `ParksWord` (`JtagTapProofs`): what
  the reset, the batches that open an access and the data phase do to the TAP, its
  registers and the bus, for any contents of the chip, complete or cut after any
  MPSSE command, under the assumptions of `JtagTap`: there is a word of memory
  (`NumWordsAssumption`), `Junk` is no word and no address (`JunkAssumption`),
  `SeqNext` stays in memory, and the two opcodes are different numbers of six bits
  (`CodesAssumption`; which two, and the size code, does not matter).
- `TapIsParked`, `PatternsDoAsAsked` (`JtagLinkProofs`): `ParkingPlaces`, and that
  `JtagLink` implements `DebugLink`, for any memory, words, transfers (in memory or
  not, in a block or not) and number of failures, under the assumptions of
  `JtagTap` and the three of `JtagLink` on `Zero`, `Transfers`, `MaxFaults`.
- `TapIsMemory`: under `TransfersInBlock`, the same behaviours implement
  `DebugMemory`: `PatternsDoAsAsked` and `LinkIsMemory` composed, from the literal
  bytes of the source to the memory its header promises.
- `ScansStayOnCourse`, `ScansMeasure`, `ScansWriteNothing` (`JtagLinkProofs`):
  `TypeOK`, `LengthsRight` and the action property `ScanOnlyHandsOver` of `JtagScan`,
  for any memory, words, number of failures and, on top of the assumptions of
  `JtagTap`, opcodes of which neither is all ones and the address register's comes
  first (`OpcodesAssumption`; 2 and 3 in the source).
- `ShownCorrect` (`RunCpuProofs`): `Spec => []ShownInOrder`; none of the
  assumptions on the constants of `RunCpu` is used.
- `NoneLeftHeldCorrect`, `ReportsCorrect`, `OthersCorrect`, `TypeCorrect`
  (`RunCpuProofs`): `NoneLeftHeld`, the action properties `ReportsThisRun` and
  `OthersUndisturbed`, and `TypeOK`, for any number of cores, depth of the UART,
  length of a program and number of commands (`NumCoresAssumption`: there is a
  core; `BoundsAssumption`: two bounds are natural numbers; `ActivableAssumption`:
  the cores the user makes active exist).
- `DsuTypeCorrect`, `FlagsCorrect`, `HeldCorrect` (`DsuControlProofs`): `TypeOK`, the
  refinement `ImplementsFlags` and the action property `HeldStaysHeld`, for any
  cores, flags, calls and failures, with late answers (`BoundsAssumption`, `BitsAssumption`: the bits of
  the registers have different names).
- `AddressesRight`, `WindowsOverlap`, `BlocksRight` (`InspectProofs`): for any
  number of windows from 1 to 31, the address functions and the macros for eight
  registers lead to the registers of the window asked for; ins are the outs of
  the next window and nothing else is shared.
- `TypeCorrect`, `ShowsItsRegister`, `WritesOnlyItsRegister`, `ListsTail`,
  `ListsInOrder` (`InspectProofs`): all the safety properties of `Inspect`, for any
  number of windows up to 31 (`WindowsAssumption`), any size of the trace buffer
  (`LinesAssumption`), and any names, values, counts, failures and instructions
  (`InputsAssumption`: names are sequences of characters, values below 32, core 0
  may be active, at least one instruction is asked for, and an instruction takes a
  line and no more than the buffer has).
- `ReadyCorrect`, `HandleCorrect`, `ResetCorrect`, `TypeCorrect` (`SessionProofs`):
  `JtagOnlyWhenReady`, `HandleUsedOpen`, `LeavesChipReset` and `TypeOK`, for any
  commands, lines, failing calls and cut writes.
- `ByteReadBack`, `HalfReadBack` (`TransfersProofs`): at any address (even, for a
  half-word) what is written is read back and its neighbours are unchanged.
- `ChunksCoverBuffer`, `AlignedStays`, `ChunksStay`: for any number of words and
  any chunk size, each word of the buffer is in one chunk, none reaches beyond
  the buffer, and no chunk is wrapped round if the transfer starts a block or
  stays in its first one.
- `WritesCorrect`, `NothingElseCorrect`, `ReadsCorrect`, `VerifyCorrect`,
  `TransfersTypeCorrect`: the safety properties of `Transfers` for any memory,
  sizes, files, addresses, failures, late answers and number of commands; the last
  two of the properties, on what is read, for undisturbed commands.  `SizesAssumption`: the
  file buffer is a whole number of raw calls and a WORD can count it;
  `ContentsAssumption`, `FilesAssumption`: what is stored and what files hold are
  words of four bytes; `InputsAssumption`: addresses and lengths are not negative.

`ParkedWhereExpected` is not inductive by itself: that a batch starts from the
right place depends on the address register following the loop variable, which
holds only as long as the burst stays in its block, which depends on the
transfer the call was made with.  `OnCourse` carries these facts, and the word
the last AHB read has sampled; `ReplyIsOurs` carries what is on the wire while the
queue is in step.  The
proof of the invariant has one step per action; failing actions are one case
for each place a batch can stop at.  The refinement proof maps each action to a
`Call`, a `Store`, a `Load`, a failure or a stutter: the store of word *i*
happens where the word is *shifted in*, one batch before it reaches the bus -
that is why the abstract memory is `View`.

The TAP is proved in two steps.  *What a pattern does*: `Clocked` and `Run` are
recursive functions, and that they satisfy their equations for a sequence of any
length is an induction; the library's induction theorems cannot be instantiated
here, so `AllNumbers` makes it with the least number for which the claim fails,
which is an argument about a set.  A TMS pattern is then a walk of a few single
`Clock` steps (`Walk...`), each of which changes the state, one register or the bus
and nothing else (`Moved`, `Edge...`).  Shifting a field is the one place where the
number of clocks matters: `Carries` says where in a register the 32 bits of a value
lie, and a register that lacks one of them reads as `Junk` and not as another value.
`Does(c, batch, d, C)` puts it together: the batch takes the chip `c` to `d`, and cut
short to one of `C`; `DoesBoth` composes two of them, so that a batch is proved from
its commands.  `Passed` says what a pass through Update-DR does to the bus.

A scan works from any state a failed call has left: `ResetFromAnywhere` gets it into
Test-Logic-Reset, and `ScanInv` says what follows.  When the ones come, the register
being shifted is full of zeros and as long as the answer expected (`ScanRegister`;
`FillsInstruction`, `FillsRegister` and `FillsBypass` for the three kinds of setup),
so that the first one comes out behind `Length(task)` zeros (`OnesPush`, `FirstOne`).
Without a failure no reply is left over (`ScanReplies`).  That the ones do no harm is
a property of the order of the opcodes, which is why an induction over the loop is
part of the invariant (`ConsoleScan`): the scan begins where an access ended
(`Harmless`) and hands over what was parked; up to the address register nothing is
written, since the register selected is neither the address nor the data; the reset
out of the address register leaves a read command; and behind it the command is a
read (`MeasuresData`).
*Where the host finds the TAP*: `TapInv` is the invariant, checked by TLC before it
was proved: at each `pc` the place of the TAP, the selected register, and what its
register can still hold (`WordOpen`: nothing that reads as a word; `Fresh`: the word
just sampled; `Spent`: a word already shifted out).  With it each action of
`JtagLink` maps to one of `DebugLink`, and a cut batch to the failing sibling.  One
result is about the model itself: `Parked` had two alternatives of a `CASE` that
overlap in a place no behaviour reaches, where TLC takes the first and the provers
rightly take neither; it is written without the overlap now.

`ShownInOrder` needs that a fetch never finds the UART empty, though the cores
print and the host counts and fetches in separate accesses.  `UartInv` adds the
reason: while `runCPU` drains, the UART holds at least as many characters as are
still to be fetched, because only the host takes characters out and a full UART
drops the new one.  Most of the proof is that no register write, trap or
power-down touches the queue: one lemma for each kind of step of `Leon`.

`NoneLeftHeld` speaks of the prompt; what makes it true is the order of accesses
long before, each of which takes effect one access late, with the cores running in
between.  `RunInv` therefore says of the accesses a command still has to make
(`todo`) what makes up for those it has made:
- `PlanOK`: `todo` is the rest of a row in which a core that is forced is freed
  later, and not by the last access (`Planned`: the last write would still be
  parked at the prompt), one that is halted is let go, and nothing is forced or
  sent to a program before it is masked (`MaskedFirst`).  That the rows of the
  source - `SetIdle`, `Reset`, `Prepare`, `init_core_1` - are of this kind is a
  lemma each; that the rest of such a row is one again is `TailPlanned`.
- `HeldOK`, `HaltOK`: the break mask, once the parked write has taken effect, is
  the command's core exactly between the access that forces it and the one that
  frees it; a halted core is the command's and `todo` lets it go, or the parked
  write does.  Every core that can trap is masked, which is what keeps its trap
  from stopping the others (`OthersUndisturbed`), and no host access undoes it.
- `ReadOK`: what a read-modify-write has read is still what the register holds
  when it writes back, though cores have run: they change neither mask and halt
  nobody.
- `Watched`: from the access that frees its core on, a core of `run` found in debug
  mode has stopped since its program counter was set; `ReportsThisRun` follows with
  `StageOK`, which says that nothing is parked any more when it is looked at.

`Effect` says what a write of any register does to the cores, `Stepped` what a step
of a core does; `HandOver` puts the parked write's effect and the invariant
together (`Settled`) once, for every action that makes an access.

`ImplementsFlags` needs that what a call has read is still what the register holds
when it writes back, though cores have run in between.  `ReadInv` says so of the
kept bits (only a write of the host changes them), and that after a failed read the
word is empty; with it each write maps to `Change`, `Forget`, `Muddle` (after a late
answer) or `WriteFails`.
`HeldStaysHeld` needs the same fact of the break mask: a call about another core
writes the bit of a held core back as it read it.

The addresses are sums taken modulo 16 times the number of windows, which no
backend reasons about.  `ModOver` derives the remainder of a number below twice
the divisor from the definition of division; `InWindow` applies it to a register
at most 31 words behind the start of its window, so that only the last window
wraps.

`RegShowsItsRegister` joins four translations: the name to a descriptor, the
descriptor to an address (or two), the address to a register of the core, and, on
the other side, the name to what it means.  `Register` keeps the tie while the
command goes on: the descriptor is what the name gives for *some* window, the
present one if the command began in step and nothing has failed or moved (`FoundAt`); `TargetMeant` says that
its addresses are then those of the register meant, by the theorems on
`RegisterFile`.  `ShownInv` says what has been shown so far.  That the code reads
the window first and the register afterwards is why `OnlyItsRegister` can name the
kind and number only.

For `inst`, `TraceInv` says what the buffer holds at every point: the lines of the
page, of the active core for the page counted last and of core 0 for the others
(`Source`); the end of the ring splits a read in two, and `FetchConcat` puts it
together.  Where the listing begins an instruction begins, since the count would
have found a later place otherwise (`SeenNext`); how many instructions are listed
is the size of two sets with a bijection between them (`SeenListed`).  For the order,
`RingInv` says that from the pointer on the lines of a ring come in the order
they were executed, whatever was recorded - `RecordPlaces` is the arithmetic of
one instruction written over the oldest - and `OrderInv` that the listing ends one
line before the next page to print.  Places in the ring are equal if their
remainders are, which `ModSame` and `ModShift` derive from division; no backend
reasons about a symbolic divisor.

`JtagOnlyWhenReady` speaks of the command the chip takes next; what makes it true
was sent long before.  `SetUpInv` says of every place of the inbox what the chip
will be when it has taken the commands before it: `SetAt` for a setting (made, or
on its way), `LoopOffAt` for the loop-back (off, or a command to switch it off on
its way and none to switch it on behind it - `OffAfterOn`).  While the set-up goes
on this is claimed of the end of the inbox only as long as no call has failed
(`UnderWay`); the one look at the accumulated status turns it into an
unconditional claim (`ReadyForNext`).  Two lemmas carry the proof: a command that
is appended or lost leaves the places before it as they were, and one that is
taken is done.

The properties of `Transfers` speak of the end of a command, or of no place at all.
`IInv` says what holds in the middle of its loops: the words of the chunks and
blocks sent so far have arrived and every other byte of memory is what it was
before (`MemoryOK`); the part of the array read so far is what the memory holds
in an undisturbed command (`ArrayOK`); the places of the block loop add up to the file (`BlocksOK`), what was
found so far is a difference in one of the blocks compared (`FoundOK`); and so on
for the single accesses (`LanesOK`, `ShownOK`).  With a failure the first two say
that memory differs in words that were to be written only.  The arithmetic is
`ChunksCoverBuffer` and `ChunksStay`: they rest on quotient and remainder being
the only such pair (`OneQuotient`), which holds for a symbolic chunk size too.

`TypeOK` of `Session` holds because what is on its way to the program is counted:
the commands the chip has, its bytes, and those already in the driver's queue are
together no more than the echo of one bad command and one byte left over.

Model-checked only: liveness, which is out of the prover's reach; the writes after
lost resets (`OnlyAskedWrites`), where a batch starts in any of the sixteen states
and its bits are read as others were meant, so that an invariant would list what
each batch does from each of them.  The findings are TLC's.

## 5. What is left

The modules and theorems planned are written.  Every safety and action property of
the runs is proved but the one of lost resets.  What would come next is an invariant
for that one: for each batch and each of the sixteen states it can start in, what is
in the register when it passes through Update-DR.

Some disagreements between code and comments that a reader meets while comparing
have no run: the poll after the setup of the count is commented "or Timeout" (777)
and has none, and the test before it lets a cut write pass (765; `ScanReturns`
excuses that wait, `Starved`, and nothing else); a read returns, with no error, the
reply of an earlier one that failed, in every command until the queue is by chance in
step (1298, 1463); a reset that was cut is not an error to its caller (`ftdi_device.c`
585; `OnlyAskedWrites` bounds the damage); output sent between the last poll and the
look at debug mode stays in the UART (682; `ShownInOrder` says it is not lost);
`init_core_1` adds the timer offsets to the base of the UART (475); and the number
of a floating-point register (`uviemon_reg.c` 305).

## 6. Not modelled

The vendored D2XX header and libusb under `src/src/lib`: third-party code, more
than four fifths of the lines under `src`, of which the program uses a dozen calls; they are
modelled from their uses.  Formatting and printing, the decoding of opcodes in
`inst`, help, history and line editing (readline), `-list` and `-info`, which change no
state; argument errors of commands, which print and return; the parsing of
numbers; the look-up of names for AMBA identifiers.  In `RunCpu` accesses do not
fail and the reply queue is in step (failures and late answers are `DebugLink`'s,
`DsuControl`'s and `Inspect`'s), commands name cores that exist,
and the addresses are those of the LEON3.  In `Transfers` a file that was opened can
be read, and default arguments stand for the values they are.  In `Session` the
type of the processor is found or not, without its table.
