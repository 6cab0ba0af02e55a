----------------------------- MODULE DsuControl -----------------------------
(***************************************************************************)
(* The functions of leon3_dsu.c that set or clear a flag of a debug        *)
(* support unit: one access reads the register, another writes it back     *)
(* with a bit changed.  Either may fail.  A failed ioread32 answers 0, and *)
(* that is what is changed and written; a failed iowrite32 leaves the old  *)
(* word, the new one or another (DebugMemory).  A read that failed may     *)
(* leave its reply behind ("synced" is FALSE); then reads of later calls   *)
(* answer something else, successfully, and that is changed and written.   *)
(* The cores run meanwhile.                                                *)
(*                                                                         *)
(* A control register belongs to a core.  The masks are in the DSU of the  *)
(* first core and have a bit for each core: break_now, debug_mode (no      *)
(* forcing of others) and enter_debug.                                     *)
(***************************************************************************)
EXTENDS Integers, FiniteSets

CONSTANTS
  Cores,
  ControlFlags,  \* BE, BW, BS, BX, BZ: the flags that stay as written
  MaxFaults,     \* bound: accesses that fail
  MaxCalls       \* bound: calls

ASSUME BoundsAssumption == MaxFaults \in Nat /\ MaxCalls \in Nat
ASSUME BitsAssumption ==
  /\ {"BE", "BW"} \subseteq ControlFlags
  /\ ControlFlags \cap {"DM", "PE", "HL"} = {}
  /\ Cores \cap (ControlFlags \cup {"DM", "PE", "HL"}) = {}

VARIABLES
  pc,      \* idle, read, write: the place in the function
  op,      \* register, bit and direction of the call in progress
  tmp,     \* what was read
  bits,    \* the flags set in each register
  mode,    \* running, debug, error: the state of each core
  halted,  \* cores in halt mode
  synced,  \* DebugMemory: the reply queue is in step
  lost,    \* what went wrong in this call: nothing, its read failed, its
           \* read took a late answer, its write failed
  faults, calls

vars == <<pc, op, tmp, bits, mode, halted, synced, lost, faults, calls>>
target == <<bits, mode, halted>>

-----------------------------------------------------------------------------
(* The registers *)

Ctrl(c) == <<"ctrl", c>>
Break == <<"break_now", 0>>
NoForce == <<"debug_mode", 0>>
Enter == <<"enter_debug", 0>>
Masks == {Break, NoForce, Enter}
Registers == {Ctrl(c) : c \in Cores} \cup Masks

(* DM can only be read; PE reads as error mode and is cleared by writing   *)
(* it, together with the halt.                                             *)
Status(c) ==
  {s \in {"DM", "PE", "HL"} : \/ s = "DM" /\ mode[c] = "debug"
                              \/ s = "PE" /\ mode[c] = "error"
                              \/ s = "HL" /\ c \in halted}

(* The bits a register keeps as they were written, and those a write can   *)
(* say something with.                                                     *)
Kept(r) == IF r \in Masks THEN Cores ELSE ControlFlags
Writable(r) == IF r \in Masks THEN Cores ELSE ControlFlags \cup {"PE", "HL"}
AllBits == ControlFlags \cup {"DM", "PE", "HL"} \cup Cores

Value(r) == IF r \in Masks THEN bits[r] ELSE bits[r] \cup Status(r[2])

(* A core that enters debug mode may take others along, the more so those  *)
(* whose enter_debug bit is set, unless its own debug_mode bit is set.     *)
Together(c, b, m) ==
  IF c \in b[NoForce] THEN {{c}}
  ELSE {{c} \cup s : s \in {t \in SUBSET {d \in Cores : m[d] = "running"} :
                              \A d \in b[Enter] : m[d] = "running" => d \in t}}
Stopped(m, cs) == [d \in Cores |-> IF d \in cs THEN "debug" ELSE m[d]]

(* "force a processors into debug mode if Break on Watchpoint (BW) bit in  *)
(* DSU control register is set"                                            *)
Forced(b, m) ==
  LET cs == {c \in Cores : c \in b[Break] /\ "BW" \in b[Ctrl(c)] /\ m[c] = "running"}
  IN  IF cs = {} THEN {m}
      ELSE {Stopped(m, cs \cup s) : s \in UNION {Together(c, b, m) : c \in cs}}

(* What a write to the control register makes of its core: "clear debug    *)
(* and halt flag of processor"; whether PE ends debug mode is left open.   *)
Released(c, val) ==
  IF "PE" \notin val THEN {mode}
  ELSE CASE mode[c] = "error" -> {[mode EXCEPT ![c] = "running"]}
         [] mode[c] = "debug" -> {mode, [mode EXCEPT ![c] = "running"]}
         [] OTHER -> {mode}

(* "resumes processor execution if in debug mode" *)
Resumed(val) ==
  [c \in Cores |-> IF c \in bits[Break] \ val /\ mode[c] = "debug" THEN "running" ELSE mode[c]]

(* The register holds val afterwards, as far as it keeps it. *)
Put(r, val) ==
  LET b == [bits EXCEPT ![r] = val \cap Kept(r)]
      next == IF r = Break THEN {Resumed(val)}
              ELSE IF r \in Masks THEN {mode}
              ELSE Released(r[2], val)
  IN  /\ bits' = b
      /\ \E m \in next : mode' \in Forced(b, m)
      /\ halted' = IF r \in Masks THEN halted
                   ELSE IF "HL" \in val /\ "PE" \notin val /\ (r[2] \in halted \/ mode[r[2]] = "debug")
                          THEN halted \cup {r[2]}
                   ELSE halted \ {r[2]}

-----------------------------------------------------------------------------
(* The functions: which bit of which register, on or off *)

Op(r, f, up) == [reg |-> r, bit |-> f, up |-> up]

(* dsu_set_cpu_..., dsu_clear_cpu_...: halt mode, debug on error, break on *)
(* watchpoint, breakpoint, trap, error trap; dsu_clear_cpu_error_mode      *)
CtrlOps ==
  {Op(Ctrl(c), f, up) : c \in Cores, f \in ControlFlags \cup {"HL"}, up \in BOOLEAN}
    \cup {Op(Ctrl(c), "PE", TRUE) : c \in Cores}

(* dsu_set_..., dsu_clear_...: force_enter_debug_mode, noforce_debug_mode, *)
(* force_debug_on_watchpoint                                               *)
MaskOps == {Op(r, c, up) : r \in Masks, c \in Cores, up \in BOOLEAN}

NoOp == [reg |-> Break]

Init ==
  /\ pc = "idle" /\ op = NoOp /\ tmp = {}
  /\ bits = [r \in Registers |-> {}]
  /\ mode \in [Cores -> {"running", "debug"}]
  /\ halted = {} /\ synced = TRUE /\ lost = "nothing" /\ faults = 0 /\ calls = 0

Call ==
  /\ pc = "idle" /\ calls < MaxCalls
  /\ calls' = calls + 1
  /\ op' \in CtrlOps \cup MaskOps
  /\ pc' = "read" /\ lost' = "nothing" /\ tmp' = {}
  /\ UNCHANGED <<target, synced, faults>>

ReadRegister ==
  /\ pc = "read" /\ synced
  /\ tmp' = Value(op.reg)
  /\ pc' = "write"
  /\ UNCHANGED <<op, target, synced, lost, faults, calls>>

(* The answer to an earlier read is taken; the one to this read may stay   *)
(* behind in its turn, or be taken with it.                                *)
ReadLate ==
  /\ pc = "read" /\ ~synced
  /\ tmp' \in SUBSET Writable(op.reg)
  /\ lost' = "late" /\ synced' \in BOOLEAN
  /\ pc' = "write"
  /\ UNCHANGED <<op, target, faults, calls>>

(* ioread32 and ioread16 answer 0 when a call of theirs fails. *)
ReadFails ==
  /\ pc = "read" /\ faults < MaxFaults
  /\ tmp' = {} /\ lost' = "read" /\ faults' = faults + 1
  /\ synced' \in BOOLEAN
  /\ pc' = "write"
  /\ UNCHANGED <<op, target, calls>>

(* Variant: clearing a flag clears the register. *)
ChangedAll(val) == IF op.up THEN val \cup {op.bit} ELSE {}
Changed(val) == IF op.up THEN val \cup {op.bit} ELSE val \ {op.bit}

(* Variant: the call in progress is not forgotten. *)
ReturnOpen == pc' = "idle" /\ UNCHANGED <<op, tmp, calls>>
Return == pc' = "idle" /\ op' = NoOp /\ tmp' = {} /\ UNCHANGED calls

(* Variant: the mask functions write their own bit alone. *)
WriteOwnBit ==
  /\ pc = "write"
  /\ Put(op.reg, IF op.reg \in Masks THEN Changed({}) ELSE Changed(tmp))
  /\ Return
  /\ UNCHANGED <<synced, lost, faults>>

WriteRegister ==
  /\ pc = "write"
  /\ Put(op.reg, Changed(tmp))
  /\ Return
  /\ UNCHANGED <<synced, lost, faults>>

WriteFails ==
  /\ pc = "write" /\ faults < MaxFaults
  /\ \/ UNCHANGED target
     \/ \E val \in SUBSET Writable(op.reg) : Put(op.reg, val)
  /\ lost' = "write" /\ faults' = faults + 1
  /\ Return /\ UNCHANGED synced

(* A running core meets a trap: debug mode with BE set, else error mode. *)
Trap ==
  \E c \in Cores :
    /\ mode[c] = "running" /\ c \notin halted
    /\ IF "BE" \in bits[Ctrl(c)]
         THEN \E cs \in Together(c, bits, mode) : mode' = Stopped(mode, cs)
         ELSE mode' = [mode EXCEPT ![c] = "error"]
    /\ UNCHANGED <<pc, op, tmp, bits, halted, synced, lost, faults, calls>>

Next ==
  \/ Call
  \/ ReadRegister \/ ReadLate \/ ReadFails
  \/ WriteRegister \/ WriteFails
  \/ Trap

Spec == Init /\ [][Next]_vars

-----------------------------------------------------------------------------
TypeOK ==
  /\ pc \in {"idle", "read", "write"}
  /\ op \in CtrlOps \cup MaskOps \cup {NoOp} /\ (op = NoOp <=> pc = "idle")
  /\ tmp \subseteq AllBits
  /\ bits \in [Registers -> SUBSET AllBits]
  /\ \A r \in Registers : bits[r] \subseteq Kept(r)
  /\ mode \in [Cores -> {"running", "debug", "error"}]
  /\ halted \subseteq Cores
  /\ synced \in BOOLEAN
  /\ lost \in {"nothing", "read", "late", "write"}
  /\ faults \in 0..MaxFaults /\ calls \in 0..MaxCalls

(* A call whose read was answered in time and whose accesses succeed turns *)
(* its own flag and leaves the others of its register and all of the other *)
(* registers as they were; one whose read failed turns the others off, and *)
(* none on; one whose read took a late answer, or whose write failed,      *)
(* reaches its own register only (the read-modify-write of leon3_dsu.c     *)
(* 182-222, 252-373).                                                      *)
Abstract == INSTANCE DsuFlags WITH
  Registers <- Registers,
  Flags <- ControlFlags \cup Cores,
  on <- {p \in Registers \X (ControlFlags \cup Cores) : p[2] \in bits[p[1]]},
  lost <- lost
ImplementsFlags == Abstract!Spec

(* A core that is held, in debug mode or halted, is let go by a call about *)
(* this core, or by a call on the break bits, which all cores share, whose *)
(* read failed or came late or whose write failed; by no other, whatever   *)
(* fails.                                                                  *)
About(c) == op.reg = Ctrl(c) \/ (op.reg = Break /\ op.bit = c)
HeldStaysHeld ==
  [][\A c \in Cores :
       (mode[c] = "debug" /\ mode'[c] # "debug") \/ (c \in halted /\ c \notin halted')
         => About(c) \/ (op.reg = Break /\ lost' # "nothing")]_vars
=============================================================================
