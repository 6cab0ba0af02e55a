------------------------------- MODULE RunCpu -------------------------------
(***************************************************************************)
(* Start-up of the cores (init_core_1, set_other_cores_idle), runCPU,      *)
(* reset, ftdi_set_cpu_idle and the console commands run, reset and cpu    *)
(* that call them, one action per access to the debug link, while the      *)
(* cores of Leon run.                                                      *)
(*                                                                         *)
(* The functions of leon3_dsu.c that set or clear a flag read a register   *)
(* and write it back, in two accesses; the cores run in between.  And a    *)
(* write takes effect with the reset that opens the NEXT access (see       *)
(* DebugLink): until then it is "parked".                                  *)
(*                                                                         *)
(* Accesses do not fail here, and commands name cores that exist.          *)
(***************************************************************************)
EXTENDS Integers, Sequences, Functions

CONSTANTS
  NumCores, FifoDepth, MaxOut,
  Activable,   \* cores the user makes active
  MaxCommands  \* bound: commands of a session

ASSUME NumCoresAssumption == NumCores \in Nat \ {0}
ASSUME BoundsAssumption == FifoDepth \in Nat /\ MaxOut \in Nat
ASSUME ActivableAssumption == Activable \subseteq 0..NumCores - 1

VARIABLES
  pc,      \* open, calls, poll, drain, check, trap, tbr, probe, idle
  task,    \* the command in progress and its core
  todo,    \* accesses it still has to make in a row
  read,    \* what the read of a read-modify-write answered
  parked,  \* the write the next access hands over
  base,    \* dsu_get_reg_tbr(0), for the cores to be idled
  count,   \* TCNT_bits: characters still to fetch
  tt,      \* trap type runCPU has read, and at the end what it returns
  first_run, active_cpu,
  hw,      \* the target: Leon
  made, shown, kept,
           \* history: characters programs printed, uviemon showed, the UART held
  stopped, \* history: cores that stopped after their program counter was set
  commands

host == <<pc, task, todo, read, base, count, tt, first_run, active_cpu>>
history == <<made, shown, kept, stopped, commands>>
vars == <<host, parked, hw, history>>

Target == INSTANCE Leon
Cores == 0..NumCores - 1

NoWrite == [reg |-> <<"none", 0>>, val |-> {}]
NotRead == <<>>
Idle == [fn |-> "none", cpu |-> 0]

Init ==
  /\ pc = "open" /\ task = Idle /\ todo = <<>> /\ read = NotRead
  /\ parked = NoWrite /\ base = "boot" /\ count = 0 /\ tt = "ok"
  /\ first_run = TRUE /\ active_cpu = 0
  /\ \E mode \in {"running", "debug"} : hw = Target!PowerOn(mode)
  /\ made = 0 /\ shown = <<>> /\ kept = <<>>
  /\ stopped = {} /\ commands = 0

-----------------------------------------------------------------------------
(* Accesses in a row, as the functions of leon3_dsu.c make them *)

Put(reg, val) == [do |-> "put", reg |-> reg, val |-> val]
PutBase(reg) == [do |-> "put base", reg |-> reg]
Set(reg, bits) == [do |-> "set", reg |-> reg, val |-> bits]
Clear(reg, bits) == [do |-> "clear", reg |-> reg, val |-> bits]
GetBase == [do |-> "get base"]

Ctrl(c) == <<"ctrl", c>>
Break == <<"break", 0>>      \* DSU_BREAK_STEP and DSU_MODE_MASK are mapped
NoForce == <<"noforce", 0>>  \* in the DSU of core 0 only, a bit per core
(* Registers no property looks at: y, psr, wim, npc, fsr, cpsr, the stack  *)
(* and frame pointer, the register file; one access stands for the group.  *)
Others(c) == Put(<<"other", c>>, {})

(* The APB registers at an offset from 0x80000000 (LEON3). *)
APB(offset) ==
  CASE offset = 264 -> <<"uart", 0>>                                   \* 0x108
    [] offset \in {792, 808, 824, 840} -> <<"timer", (offset - 776) \div 16>>
    [] offset = 528 -> <<"wake", 0>>                                    \* 0x210
    [] OTHER -> <<"other", 0>>
UART0_START_ADDRESS == 256  \* 0x80000100
WAKE_STATE == 528
UART0_CTRL_REG == 8

(* The memory configuration, then the timer control registers, as offsets  *)
(* from the base of the UART.                                              *)
init_core_1 ==
  [k \in 1..4 |-> Put(APB(UART0_START_ADDRESS + 4 * (k - 1)), {})]
    \o [k \in 1..4 |-> Put(APB(UART0_START_ADDRESS + 776 + 16 * k), {})]  \* 0x318...

(* ftdi_set_cpu_idle but for its first read; a turn of the loop in          *)
(* set_other_cores_idle.  Variant: the break bit is left set.              *)
SetIdleHeld(c) ==
  <<Set(NoForce, {c}), Set(Ctrl(c), {"BW"}), Set(Break, {c}),
    PutBase(<<"tbr", c>>), PutBase(<<"pc", c>>), Others(c),
    Clear(Ctrl(c), {"BW"}), Clear(NoForce, {c}), Set(Ctrl(c), {"PE"})>>
SetIdle(c) ==
  <<Set(NoForce, {c}), Set(Ctrl(c), {"BW"}), Set(Break, {c}),
    PutBase(<<"tbr", c>>), PutBase(<<"pc", c>>), Others(c),
    Clear(Ctrl(c), {"BW"}), Clear(Break, {c}), Set(Ctrl(c), {"PE"})>>

Reset(c) ==
  <<Others(c), Put(<<"tbr", c>>, "boot"), Put(<<"pc", c>>, "boot"), Others(c),
    Set(Ctrl(c), {"PE"})>>

(* The end of runCPU's set-up.  Variant: without BE, break on error. *)
ResumeNoBreak ==
  <<Put(APB(UART0_START_ADDRESS + UART0_CTRL_REG), {"debug"}),
    Put(Ctrl(0), {"TE", "BW", "BS", "BZ", "PE"})>>
Resume ==
  <<Put(APB(UART0_START_ADDRESS + UART0_CTRL_REG), {"debug"}),              \* 0x883
    Put(Ctrl(0), {"TE", "BE", "BW", "BS", "BZ", "PE"})>>               \* 0x22f

(* Variant: the mask that keeps the core from forcing the others is set    *)
(* when it is already in debug mode.                                       *)
TakeLate(c) ==
  <<Set(Ctrl(c), {"BW"}), Set(Ctrl(c), {"HL"}), Set(Break, {c}), Set(NoForce, {c})>>
Take(c) ==
  <<Set(NoForce, {c}), Set(Ctrl(c), {"BW"}), Set(Ctrl(c), {"HL"}), Set(Break, {c})>>

Prepare(c) ==
  Reset(c) \o Take(c)
    \o <<Put(<<"tbr", c>>, "ram"), Put(<<"pc", c>>, "ram"), Others(c),
         Put(APB(WAKE_STATE), {c}), Clear(Ctrl(c), {"BW"}), Clear(Break, {c}),
         Set(Ctrl(c), {"PE"})>>
    \o Resume

(* The target after the reset that opens an access. *)
HandedOver == Target!Written(hw, parked)

(* The first half of a read-modify-write, or a read into a variable. *)
ReadRegister ==
  /\ pc = "calls" /\ todo # <<>> /\ read = NotRead
  /\ hw' \in HandedOver /\ parked' = NoWrite
  /\ LET call == Head(todo) IN
       \/ /\ call.do \in {"set", "clear"}
          /\ read' = <<Target!Read(hw', call.reg)>>
          /\ UNCHANGED <<todo, base>>
       \/ /\ call.do = "get base"
          /\ base' = hw'.core[0].tbr
          /\ todo' = Tail(todo)
          /\ UNCHANGED read
  /\ UNCHANGED <<pc, task, count, tt, first_run, active_cpu, history>>

(* Setting a program counter starts an execution on its core. *)
WriteRegister ==
  /\ pc = "calls" /\ todo # <<>>
  /\ LET call == Head(todo)
         val == CASE call.do = "put" -> {call.val}
                  [] call.do = "put base" -> {base}
                  [] call.do = "set" -> {r \cup call.val : r \in Range(read)}
                  [] call.do = "clear" -> {r \ call.val : r \in Range(read)}
                  [] OTHER -> {}
     IN  /\ \E v \in val : parked' = [reg |-> call.reg, val |-> v]
         /\ stopped' = IF call.reg[1] = "pc" THEN stopped \ {call.reg[2]} ELSE stopped
  /\ hw' \in HandedOver
  /\ todo' = Tail(todo) /\ read' = NotRead
  /\ UNCHANGED <<pc, task, base, count, tt, first_run, active_cpu,
                 made, shown, kept, commands>>

MoreToIdle == task.fn = "open" /\ task.cpu < NumCores - 1

(* The next turn of the loop in set_other_cores_idle. *)
IdleNextCore ==
  /\ pc = "calls" /\ todo = <<>> /\ MoreToIdle
  /\ task' = [task EXCEPT !.cpu = @ + 1]
  /\ todo' = SetIdle(task'.cpu)
  /\ UNCHANGED <<pc, read, parked, base, count, tt, first_run, active_cpu, hw, history>>

(* All of them made: runCPU goes on to its loop, the others are done. *)
CallsDone ==
  /\ pc = "calls" /\ todo = <<>> /\ ~MoreToIdle
  /\ IF task.fn = "run" THEN pc' = "poll" /\ UNCHANGED task ELSE pc' = "idle" /\ task' = Idle
  /\ UNCHANGED <<todo, read, parked, base, count, tt, first_run, active_cpu, hw, history>>

-----------------------------------------------------------------------------
(* The loop of runCPU and what follows it *)

(* Variant: the number is not shifted down to bit 0. *)
PollUnshifted ==
  /\ pc = "poll"
  /\ hw' \in HandedOver /\ parked' = NoWrite
  /\ count' = 16 * Len(hw'.uart.fifo)
  /\ pc' = IF count' > 0 THEN "drain" ELSE "check"
  /\ UNCHANGED <<task, todo, read, base, tt, first_run, active_cpu, history>>

(* How many characters does the UART hold? *)
PollUart ==
  /\ pc = "poll"
  /\ hw' \in HandedOver /\ parked' = NoWrite
  /\ count' = Len(hw'.uart.fifo)
  /\ pc' = IF count' > 0 THEN "drain" ELSE "check"
  /\ UNCHANGED <<task, todo, read, base, tt, first_run, active_cpu, history>>

(* Variant: one character more than were counted. *)
DrainOneMore ==
  /\ pc = "drain"
  /\ shown' = Append(shown, IF hw.uart.fifo = <<>> THEN 0 ELSE Head(hw.uart.fifo))
  /\ hw' = [hw EXCEPT !.uart.fifo = IF @ = <<>> THEN @ ELSE Tail(@)]
  /\ count' = IF count = 0 THEN 0 ELSE count - 1
  /\ pc' = IF count = 0 THEN "poll" ELSE "drain"
  /\ UNCHANGED <<task, todo, read, parked, base, tt, first_run, active_cpu,
                 made, kept, stopped, commands>>

(* Fetch and print one; an empty UART would answer some character, 0. *)
Drain ==
  /\ pc = "drain"
  /\ shown' = Append(shown, IF hw.uart.fifo = <<>> THEN 0 ELSE Head(hw.uart.fifo))
  /\ hw' = [hw EXCEPT !.uart.fifo = IF @ = <<>> THEN @ ELSE Tail(@)]
  /\ count' = count - 1
  /\ pc' = IF count = 1 THEN "poll" ELSE "drain"
  /\ UNCHANGED <<task, todo, read, parked, base, tt, first_run, active_cpu,
                 made, kept, stopped, commands>>

(* "UART is empty, don't know if it's done or it crashed, check debug mode" *)
CheckDebugMode ==
  /\ pc = "check"
  /\ pc' = IF "DM" \in Target!Read(hw, Ctrl(task.cpu)) THEN "trap" ELSE "poll"
  /\ UNCHANGED <<task, todo, read, parked, base, count, tt, first_run, active_cpu, hw, history>>

ReadTrap ==
  /\ pc = "trap"
  /\ tt' = hw.core[task.cpu].tt
  /\ pc' = "tbr"
  /\ UNCHANGED <<task, todo, read, parked, base, count, first_run, active_cpu, hw, history>>

(* Variant: the trap type in TBR is looked at for the retry only. *)
ReadTbrRetry ==
  /\ pc = "tbr"
  /\ LET tbr_tt == hw.core[task.cpu].tbrtt IN
       IF first_run /\ (tt # "ok" \/ tbr_tt # "ok")
         THEN /\ first_run' = FALSE
              /\ todo' = Prepare(task.cpu) /\ pc' = "calls"
              /\ UNCHANGED task
         ELSE pc' = "idle" /\ task' = Idle /\ UNCHANGED <<first_run, todo>>
  /\ UNCHANGED <<tt, read, parked, base, count, active_cpu, hw, history>>

(* The trap type in TBR decides: once in a session a failure is run again, *)
(* the second one counts; a proper end needs both to be 0x80.              *)
ReadTbr ==
  /\ pc = "tbr"
  /\ LET tbr_tt == hw.core[task.cpu].tbrtt IN
       IF first_run /\ (tt # "ok" \/ tbr_tt # "ok")
         THEN /\ first_run' = FALSE
              /\ todo' = Prepare(task.cpu) /\ pc' = "calls"
              /\ UNCHANGED <<tt, task>>
         ELSE /\ tt' = IF tt = "ok" THEN tbr_tt ELSE tt
              /\ pc' = "idle" /\ task' = Idle
              /\ UNCHANGED <<first_run, todo>>
  /\ UNCHANGED <<read, parked, base, count, active_cpu, hw, history>>

-----------------------------------------------------------------------------
(* Start-up and console *)

(* The end of ftdi_open_device, up to the loop over the other cores. *)
Open ==
  /\ pc = "open"
  /\ task' = [fn |-> "open", cpu |-> 0]
  /\ todo' = init_core_1 \o <<GetBase>>
  /\ pc' = "calls"
  /\ UNCHANGED <<read, parked, base, count, tt, first_run, active_cpu, hw, history>>

Command(fn, c, calls, next) ==
  /\ pc = "idle" /\ commands < MaxCommands
  /\ task' = [fn |-> fn, cpu |-> c] /\ todo' = calls /\ pc' = next
  /\ commands' = commands + 1
  /\ UNCHANGED <<read, parked, base, count, tt, first_run, active_cpu, hw,
                 made, shown, kept, stopped>>

cli_run == Command("run", active_cpu, Prepare(active_cpu), "calls")

(* reset, cpu enable, cpu disable *)
Direct ==
  \/ Command("reset", 0, Reset(0), "calls")
  \/ \E c \in Cores : \/ Command("enable", c, <<Put(APB(WAKE_STATE), {c})>>, "calls")
                      \/ Command("disable", c, <<GetBase>> \o SetIdle(c), "calls")

(* cpu active; cpu alone reads the same register and changes nothing *)
Activate == \E c \in Activable : Command("active", c, <<>>, "probe")

(* A core that is powered down is woken before it is made active. *)
Probe ==
  /\ pc = "probe"
  /\ hw' \in HandedOver /\ parked' = NoWrite
  /\ todo' = IF hw'.core[task.cpu].down THEN <<Put(APB(WAKE_STATE), {task.cpu})>> ELSE <<>>
  /\ active_cpu' = task.cpu
  /\ pc' = "calls"
  /\ UNCHANGED <<task, read, base, count, tt, first_run, history>>

-----------------------------------------------------------------------------
(* The cores run while the host does what it does. *)

CoreSends ==
  /\ \E c \in Cores : Target!CanSend(hw, c) /\ hw' \in Target!SendChar(hw, c, made + 1)
  /\ made' = made + 1
  /\ kept' = IF hw'.uart.fifo = hw.uart.fifo THEN kept ELSE Append(kept, made')
  /\ UNCHANGED <<host, parked, shown, stopped, commands>>

CoreStops(c) ==
  /\ Target!CanStop(hw, c)
  /\ \E t \in Target!Traps, tb \in Target!Traps : hw' = Target!Stop(hw, c, t, tb)
  /\ stopped' = stopped \cup {c}
  /\ UNCHANGED <<host, parked, made, shown, kept, commands>>

CoreParks ==
  /\ \E c \in Cores : Target!CanPark(hw, c) /\ hw' = Target!Park(hw, c)
  /\ UNCHANGED <<host, parked, history>>

HostStep ==
  \/ ReadRegister \/ WriteRegister \/ IdleNextCore \/ CallsDone
  \/ PollUart \/ Drain \/ CheckDebugMode \/ ReadTrap \/ ReadTbr \/ Probe
User == cli_run \/ Direct \/ Activate
CoreStep == CoreSends \/ CoreParks \/ \E c \in Cores : CoreStops(c)

Next == Open \/ User \/ HostStep \/ CoreStep

(* The host does not pause; programs end, if not by themselves by a trap. *)
Fairness == WF_vars(HostStep) /\ \A c \in Cores : WF_vars(CoreStops(c))

Spec == Init /\ [][Next]_vars /\ Fairness

-----------------------------------------------------------------------------
(* Properties *)

TypeOK ==
  /\ pc \in {"open", "calls", "poll", "drain", "check", "trap", "tbr", "probe", "idle"}
  /\ task.cpu \in Cores /\ active_cpu \in Activable \cup {0}
  /\ read # NotRead => pc = "calls" /\ todo # <<>>
  /\ count \in 0..FifoDepth /\ (pc = "drain" <=> count > 0)
  /\ tt \in Target!Traps /\ base \in Target!Entries
  /\ hw.break \subseteq Cores /\ hw.noforce \subseteq Cores
  /\ \A c \in Cores : hw.core[c].mode \in {"running", "debug", "error"}

(* What the UART held for the debugger is shown once and in order, however *)
(* the program's prints fall between the accesses that count and fetch.    *)
ShownInOrder == kept = shown \o hw.uart.fifo

(* The trap runCPU reports is one its core stopped with after it was       *)
(* started, not one that was there before.                                 *)
ReportsThisRun ==
  [][pc = "tbr" /\ pc' = "idle" =>
       /\ task.cpu \in stopped
       /\ tt' = "ok" <=> hw.core[task.cpu].tt = "ok" /\ hw.core[task.cpu].tbrtt = "ok"]_vars

(* A running core enters debug mode by a trap of its own or because the    *)
(* command in progress is about it, never because another one did.         *)
OthersUndisturbed ==
  [][\A c \in Cores : Target!Runs(hw, c) /\ hw'.core[c].mode = "debug" =>
       task.cpu = c \/ hw'.core[c].pc = "stray"]_vars

(* Between commands no core is forced into debug mode or halted, unless    *)
(* the write that lets it go is still parked.                              *)
NoneLeftHeld ==
  pc = "idle" =>
    /\ hw.break = {}
    /\ \A c \in Cores : hw.core[c].halt => parked.reg = Ctrl(c) /\ "PE" \in parked.val

(* Every run comes back to the console. *)
RunReturns == task.fn = "run" ~> pc = "idle"
=============================================================================
