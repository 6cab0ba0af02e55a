-------------------------- MODULE DsuControlProofs --------------------------
(***************************************************************************)
(* For any number of cores, any flags and any number of failing accesses:  *)
(* the calls of DsuControl change the flags as DsuFlags says, and a core   *)
(* that is held is let go as HeldStaysHeld says.                           *)
(*                                                                         *)
(* Both rest on one fact (ReadInv): as long as nothing has gone wrong in   *)
(* the call, what was read is what the register still holds, though the    *)
(* cores have run since.                                                   *)
(***************************************************************************)
EXTENDS DsuControl, TLAPS

Modes == [Cores -> {"running", "debug", "error"}]

(* A register is the control register of a core or one of the masks. *)
LEMMA CtrlNotMask ==
  ASSUME NEW c
  PROVE  Ctrl(c) \notin Masks
  BY DEF Ctrl, Masks, Break, NoForce, Enter

LEMMA RegisterKinds ==
  ASSUME NEW r \in Registers
  PROVE  r \in Masks \/ (r \notin Masks /\ r[2] \in Cores /\ r = Ctrl(r[2]))
  BY CtrlNotMask DEF Registers, Ctrl

(* A call has a register, and a bit of it. *)
LEMMA OpShape ==
  ASSUME op \in CtrlOps \cup MaskOps
  PROVE  /\ op.reg \in Registers
         /\ op.bit \in Writable(op.reg)
         /\ op.up \in BOOLEAN
         /\ op.reg \in Masks => op.bit \in Cores
<1>1. CASE op \in CtrlOps
  <2>1. \/ \E c \in Cores, f \in ControlFlags \cup {"HL"}, up \in BOOLEAN :
             op = Op(Ctrl(c), f, up)
        \/ \E c \in Cores : op = Op(Ctrl(c), "PE", TRUE)
    BY <1>1 DEF CtrlOps, Op
  <2>2. PICK c \in Cores, f \in ControlFlags \cup {"HL", "PE"}, up \in BOOLEAN :
          op = Op(Ctrl(c), f, up)
    BY <2>1
  <2>3. op.reg = Ctrl(c) /\ op.bit = f /\ op.up = up
    BY <2>2 DEF Op
  <2> QED BY <2>3, CtrlNotMask DEF Registers, Writable
<1>2. CASE op \in MaskOps
  <2>1. PICK r \in Masks, c \in Cores, up \in BOOLEAN : op = Op(r, c, up)
    BY <1>2 DEF MaskOps
  <2>2. op.reg = r /\ op.bit = c /\ op.up = up
    BY <2>1 DEF Op
  <2> QED BY <2>2 DEF Registers, Writable
<1> QED BY <1>1, <1>2

-----------------------------------------------------------------------------
(* What the cores do leaves the states of the cores what they were, or     *)
(* debug mode.                                                             *)
LEMMA StoppedModes ==
  ASSUME NEW m \in Modes, NEW cs
  PROVE  /\ Stopped(m, cs) \in Modes
         /\ \A c \in Cores : Stopped(m, cs)[c] \in {m[c], "debug"}
  BY DEF Stopped, Modes

LEMMA ForcedModes ==
  ASSUME NEW b, NEW m \in Modes, NEW n \in Forced(b, m)
  PROVE  /\ n \in Modes
         /\ \A c \in Cores : n[c] \in {m[c], "debug"}
<1>1. CASE n = m
  BY <1>1
<1>2. CASE n # m
  <2>1. PICK cs : n = Stopped(m, cs)
    BY <1>2 DEF Forced
  <2> QED BY <2>1, StoppedModes
<1> QED BY <1>1, <1>2

(* A write to a register: its bits become what was written, the others     *)
(* stay; a core goes on by its own control register, or when its break bit *)
(* is taken away.                                                          *)
LEMMA PutEffect ==
  ASSUME NEW r \in Registers, NEW val, Put(r, val),
         bits \in [Registers -> SUBSET AllBits], mode \in Modes, halted \subseteq Cores
  PROVE  /\ bits' = [bits EXCEPT ![r] = val \cap Kept(r)]
         /\ mode' \in Modes
         /\ halted' \subseteq Cores
         /\ \A c \in Cores :
              mode'[c] \in {mode[c], "debug"} \/ r = Ctrl(c)
                \/ (r = Break /\ c \in bits[Break] \ val)
         /\ \A c \in halted \ halted' : r = Ctrl(c)
<1>1. bits' = [bits EXCEPT ![r] = val \cap Kept(r)]
  BY DEF Put
<1>2. CASE r = Break
  <2>1. Resumed(val) \in Modes
    BY DEF Resumed, Modes
  <2>2. mode' \in Forced(bits', Resumed(val)) /\ halted' = halted
    BY <1>1, <1>2 DEF Put, Masks
  <2>3. \A c \in Cores : Resumed(val)[c] = mode[c] \/ c \in bits[Break] \ val
    BY DEF Resumed
  <2> QED BY <1>1, <1>2, <2>1, <2>2, <2>3, ForcedModes
<1>3. CASE r \in Masks /\ r # Break
  <2>1. mode' \in Forced(bits', mode) /\ halted' = halted
    BY <1>1, <1>3 DEF Put, Masks
  <2> QED BY <1>1, <2>1, ForcedModes
<1>4. CASE r \notin Masks
  <2>1. r[2] \in Cores /\ r = Ctrl(r[2])
    BY <1>4, RegisterKinds
  <2>2. PICK m \in Released(r[2], val) : mode' \in Forced(bits', m)
    BY <1>1, <1>4 DEF Put, Masks
  <2>3. m \in Modes /\ \A c \in Cores : m[c] = mode[c] \/ c = r[2]
    BY <2>1, <2>2 DEF Released, Modes
  <2>4. mode' \in Modes /\ \A c \in Cores : mode'[c] \in {m[c], "debug"}
    BY <2>2, <2>3, ForcedModes
  <2>5. halted' \in {halted \cup {r[2]}, halted \ {r[2]}}
    BY <1>4 DEF Put
  <2> QED BY <1>1, <2>1, <2>3, <2>4, <2>5
<1> QED BY <1>2, <1>3, <1>4

-----------------------------------------------------------------------------
(* The steps of a core change no register. *)
LEMMA TrapModes ==
  ASSUME TypeOK, Trap
  PROVE  /\ mode' \in Modes
         /\ \A c \in Cores : mode[c] = "debug" => mode'[c] = "debug"
         /\ UNCHANGED <<pc, op, tmp, bits, halted, synced, lost, faults, calls>>
<1>1. PICK c \in Cores :
        /\ mode[c] = "running"
        /\ \/ \E cs : mode' = Stopped(mode, cs)
           \/ mode' = [mode EXCEPT ![c] = "error"]
  BY DEF Trap
<1>2. mode \in Modes
  BY DEF TypeOK, Modes
<1>3. CASE \E cs : mode' = Stopped(mode, cs)
  BY <1>2, <1>3, StoppedModes DEF Trap
<1>4. CASE mode' = [mode EXCEPT ![c] = "error"]
  BY <1>1, <1>2, <1>4 DEF Trap, Modes
<1> QED BY <1>1, <1>3, <1>4

(* While nothing has gone wrong in a call, it has read what the register   *)
(* holds.                                                                  *)
ReadInv ==
  /\ pc # "idle" => lost # "write"
  /\ pc = "read" => lost = "nothing"
  /\ pc = "write" /\ lost = "nothing" => tmp \cap Kept(op.reg) = bits[op.reg]
  /\ pc = "write" /\ lost = "read" => tmp = {}

Inv == TypeOK /\ ReadInv

LEMMA InitInv == Init => Inv
<1> SUFFICES ASSUME Init PROVE Inv
  OBVIOUS
<1>1. bits \in [Registers -> SUBSET AllBits] /\ \A r \in Registers : bits[r] \subseteq Kept(r)
  BY DEF Init
<1>2. faults \in 0..MaxFaults /\ calls \in 0..MaxCalls
  BY BoundsAssumption DEF Init
<1> QED BY <1>1, <1>2 DEF Init, Inv, TypeOK, ReadInv

(* What is read says something of the bits the register keeps. *)
LEMMA ReadsKept ==
  ASSUME TypeOK, NEW r \in Registers
  PROVE  Value(r) \cap Kept(r) = bits[r] /\ Value(r) \subseteq AllBits
<1>1. bits[r] \subseteq Kept(r) /\ bits[r] \subseteq AllBits
  BY DEF TypeOK
<1>2. CASE r \in Masks
  BY <1>1, <1>2 DEF Value
<1>3. CASE r \notin Masks
  <2>1. Kept(r) = ControlFlags /\ Value(r) = bits[r] \cup Status(r[2])
    BY <1>3 DEF Kept, Value
  <2>2. Status(r[2]) \subseteq {"DM", "PE", "HL"}
    BY DEF Status
  <2> QED BY <1>1, <2>1, <2>2, BitsAssumption DEF AllBits
<1> QED BY <1>2, <1>3

(* Put, in terms of the invariant. *)
LEMMA PutType ==
  ASSUME TypeOK, NEW r \in Registers, NEW val, Put(r, val)
  PROVE  /\ bits' \in [Registers -> SUBSET AllBits]
         /\ \A q \in Registers : bits'[q] \subseteq Kept(q)
         /\ mode' \in Modes
         /\ halted' \subseteq Cores
<1>1. bits \in [Registers -> SUBSET AllBits] /\ mode \in Modes /\ halted \subseteq Cores
  BY DEF TypeOK, Modes
<1>2. bits' = [bits EXCEPT ![r] = val \cap Kept(r)] /\ mode' \in Modes /\ halted' \subseteq Cores
  BY <1>1, PutEffect
<1>3. Kept(r) \subseteq AllBits
  BY DEF Kept, AllBits
<1>4. \A q \in Registers : bits[q] \subseteq Kept(q)
  BY DEF TypeOK
<1> QED BY <1>1, <1>2, <1>3, <1>4

LEMMA NextInv == Inv /\ [Next]_vars => Inv'
<1> SUFFICES ASSUME Inv, [Next]_vars PROVE Inv'
  OBVIOUS
<1> USE BoundsAssumption
<1>0. TypeOK /\ ReadInv
  BY DEF Inv
<1>1. CASE Call
  <2>1. op' # NoOp
    BY <1>1 DEF Call, CtrlOps, MaskOps, Op, NoOp
  <2>2. TypeOK'
    BY <1>0, <1>1, <2>1 DEF Call, target, TypeOK
  <2> QED BY <1>0, <1>1, <2>2 DEF Call, target, Inv, ReadInv
<1>2. CASE ReadRegister
  <2>1. op \in CtrlOps \cup MaskOps
    BY <1>0, <1>2 DEF ReadRegister, TypeOK
  <2>2. tmp' \cap Kept(op.reg) = bits[op.reg] /\ tmp' \subseteq AllBits
    BY <1>0, <1>2, <2>1, OpShape, ReadsKept DEF ReadRegister
  <2>3. TypeOK'
    BY <1>0, <1>2, <2>2 DEF ReadRegister, target, TypeOK
  <2> QED BY <1>0, <1>2, <2>2, <2>3 DEF ReadRegister, target, Inv, ReadInv
<1>8. CASE ReadLate
  <2>1. tmp' \subseteq AllBits
    <3>1. op \in CtrlOps \cup MaskOps
      BY <1>0, <1>8 DEF ReadLate, TypeOK
    <3> QED BY <1>8, <3>1 DEF ReadLate, Writable, AllBits
  <2>2. TypeOK'
    BY <1>0, <1>8, <2>1 DEF ReadLate, target, TypeOK
  <2> QED BY <1>0, <1>8, <2>2 DEF ReadLate, target, Inv, ReadInv
<1>3. CASE ReadFails
  <2>1. TypeOK'
    BY <1>0, <1>3 DEF ReadFails, target, TypeOK
  <2> QED BY <1>0, <1>3, <2>1 DEF ReadFails, target, Inv, ReadInv
<1>4. CASE WriteRegister
  <2>1. op \in CtrlOps \cup MaskOps
    BY <1>0, <1>4 DEF WriteRegister, TypeOK
  <2>2. Put(op.reg, Changed(tmp)) /\ op.reg \in Registers
    BY <1>4, <2>1, OpShape DEF WriteRegister
  <2>3. TypeOK'
    BY <1>0, <1>4, <2>2, PutType DEF WriteRegister, Return, TypeOK, Modes
  <2> QED BY <1>0, <1>4, <2>3 DEF WriteRegister, Return, Inv, ReadInv
<1>5. CASE WriteFails
  <2>1. op \in CtrlOps \cup MaskOps
    BY <1>0, <1>5 DEF WriteFails, TypeOK
  <2>2. /\ bits' \in [Registers -> SUBSET AllBits]
        /\ \A q \in Registers : bits'[q] \subseteq Kept(q)
        /\ mode' \in Modes
        /\ halted' \subseteq Cores
    <3>1. CASE UNCHANGED target
      BY <1>0, <3>1 DEF target, TypeOK, Modes
    <3>2. CASE \E val \in SUBSET Writable(op.reg) : Put(op.reg, val)
      BY <1>0, <2>1, <3>2, OpShape, PutType
    <3> QED BY <1>5, <3>1, <3>2 DEF WriteFails
  <2>3. TypeOK'
    BY <1>0, <1>5, <2>2 DEF WriteFails, Return, TypeOK, Modes
  <2> QED BY <1>0, <1>5, <2>3 DEF WriteFails, Return, Inv, ReadInv
<1>6. CASE Trap
  <2>1. /\ mode' \in Modes
        /\ UNCHANGED <<pc, op, tmp, bits, halted, synced, lost, faults, calls>>
    BY <1>0, <1>6, TrapModes
  <2>2. TypeOK'
    BY <1>0, <2>1 DEF TypeOK, Modes
  <2> QED BY <1>0, <2>1, <2>2 DEF Inv, ReadInv
<1>7. CASE UNCHANGED vars
  BY <1>0, <1>7 DEF vars, Inv, TypeOK, ReadInv
<1> QED BY <1>1, <1>2, <1>3, <1>4, <1>5, <1>6, <1>7, <1>8 DEF Next

LEMMA InvCorrect == Spec => []Inv
  BY InitInv, NextInv, PTL DEF Spec

(* The variables keep their types. *)
THEOREM DsuTypeCorrect == Spec => []TypeOK
<1>1. Inv => TypeOK
  BY DEF Inv
<1> QED BY <1>1, InvCorrect, PTL

-----------------------------------------------------------------------------
(* The refinement of DsuFlags. *)

Flags == ControlFlags \cup Cores
View(b) == {p \in Registers \X Flags : p[2] \in b[p[1]]}

(* Replacing a register's bits, seen as pairs. *)
LEMMA ViewOfPut ==
  ASSUME bits \in [Registers -> SUBSET AllBits], NEW r \in Registers, NEW v,
         bits' = [bits EXCEPT ![r] = v]
  PROVE  View(bits') = (View(bits) \ ({r} \X Flags)) \cup {p \in {r} \X Flags : p[2] \in v}
<1>1. \A q \in Registers : bits'[q] = IF q = r THEN v ELSE bits[q]
  OBVIOUS
<1>2. ASSUME NEW p
      PROVE  p \in View(bits') <=>
               p \in (View(bits) \ ({r} \X Flags)) \cup {t \in {r} \X Flags : t[2] \in v}
  <2>1. CASE p \in Registers \X Flags
    <3>1. p[1] \in Registers /\ p = <<p[1], p[2]>> /\ p[2] \in Flags
      BY <2>1
    <3>2. p \in {r} \X Flags <=> p[1] = r
      BY <3>1
    <3>3. bits'[p[1]] = IF p[1] = r THEN v ELSE bits[p[1]]
      BY <1>1, <3>1
    <3> QED BY <2>1, <3>2, <3>3 DEF View
  <2>2. CASE p \notin Registers \X Flags
    <3>1. p \notin {r} \X Flags
      BY <2>2
    <3> QED BY <2>2, <3>1 DEF View
  <2> QED BY <2>1, <2>2
<1> QED BY <1>2

(* The pairs of one register. *)
LEMMA ViewOfRegister ==
  ASSUME NEW r \in Registers
  PROVE  {p \in {r} \X Flags : p[2] \in bits[r]} = View(bits) \cap ({r} \X Flags)
<1>1. ASSUME NEW p \in {r} \X Flags
      PROVE  p[2] \in bits[r] <=> p \in View(bits)
  <2>1. p[1] = r /\ p \in Registers \X Flags
    OBVIOUS
  <2> QED BY <2>1 DEF View
<1> QED BY <1>1

(* A write after a read that succeeded turns the flag of the call, if the  *)
(* register keeps it; after one that failed the others go as well; after a *)
(* late one only the other registers are sure to be as they were.          *)
LEMMA WriteRefines ==
  ASSUME Inv, WriteRegister
  PROVE  \E r \in Registers, f \in Flags, up \in BOOLEAN :
           \/ lost = "nothing" /\ View(bits') \in {View(bits), Abstract!Turn(View(bits), r, f, up)}
           \/ lost = "read" /\ View(bits') = Abstract!Turn(View(bits) \ ({r} \X Flags), r, f, up)
           \/ lost = "late" /\ View(bits') \ ({r} \X Flags) = View(bits) \ ({r} \X Flags)
<1> DEFINE on == View(bits)
           onNext == View(bits')
           r == op.reg
           v == Changed(tmp) \cap Kept(r)
           R == {r} \X Flags
<1>1. /\ op \in CtrlOps \cup MaskOps
      /\ bits \in [Registers -> SUBSET AllBits] /\ mode \in Modes /\ halted \subseteq Cores
      /\ lost = "nothing" => tmp \cap Kept(r) = bits[r]
      /\ lost = "read" => tmp = {}
      /\ lost \in {"nothing", "read", "late"}
  BY DEF Inv, TypeOK, ReadInv, WriteRegister, Modes
<1>2. /\ r \in Registers /\ op.bit \in Writable(r) /\ op.up \in BOOLEAN
  BY <1>1, OpShape
<1>3. bits' = [bits EXCEPT ![r] = v]
  BY <1>1, <1>2, PutEffect DEF WriteRegister
<1>4. onNext = (on \ R) \cup {p \in R : p[2] \in v}
  BY <1>1, <1>2, <1>3, ViewOfPut
<1>5. {p \in R : p[2] \in bits[r]} = on \cap R
  BY <1>2, ViewOfRegister
<1>6. Kept(r) \subseteq Flags /\ "BE" \in Flags
  BY BitsAssumption DEF Kept, Flags
<1>7. op.bit \in Kept(r) \/ op.bit \notin Flags
  BY <1>2, BitsAssumption DEF Writable, Kept, Flags
<1>8. v = IF op.up THEN (tmp \cup {op.bit}) \cap Kept(r) ELSE (tmp \ {op.bit}) \cap Kept(r)
  BY DEF Changed
<1> HIDE DEF v, on, onNext
<1>9. CASE lost = "nothing" /\ op.bit \in Kept(r)
  <2>1. v = IF op.up THEN bits[r] \cup {op.bit} ELSE bits[r] \ {op.bit}
    BY <1>1, <1>8, <1>9
  <2>2. op.bit \in Flags
    BY <1>6, <1>9
  <2>3. ASSUME NEW p
        PROVE  p \in (on \ R) \cup {t \in R : t[2] \in v} <=>
                 p \in Abstract!Turn(on, r, op.bit, op.up)
    <3>0. Abstract!Turn(on, r, op.bit, op.up) =
            IF op.up THEN on \cup {<<r, op.bit>>} ELSE on \ {<<r, op.bit>>}
      BY DEF Abstract!Turn
    <3>1. CASE p \in R
      <4>1. p = <<r, p[2]>> /\ p[2] \in Flags
        BY <3>1
      <4>2. p \in on <=> p[2] \in bits[r]
        BY <1>5, <3>1
      <4>3. p = <<r, op.bit>> <=> p[2] = op.bit
        BY <4>1
      <4> HIDE DEF R, r
      <4> QED BY <2>1, <3>0, <3>1, <4>2, <4>3
    <3>2. CASE p \notin R
      <4>1. p # <<r, op.bit>>
        BY <2>2, <3>2
      <4> HIDE DEF R, r
      <4> QED BY <3>0, <3>2, <4>1
    <3> QED BY <3>1, <3>2
  <2>4. onNext = Abstract!Turn(on, r, op.bit, op.up)
    BY <1>4, <2>3
  <2> QED BY <1>2, <1>9, <2>2, <2>4 DEF on, onNext
<1>10. CASE lost = "nothing" /\ op.bit \notin Kept(r)
  <2>1. v = bits[r]
    BY <1>1, <1>8, <1>10
  <2>2. onNext = on
    BY <1>4, <1>5, <2>1
  <2> QED BY <1>2, <1>6, <1>10, <2>2 DEF on, onNext
<1>11. CASE lost = "read" /\ op.bit \in Kept(r)
  <2>1. v = IF op.up THEN {op.bit} ELSE {}
    BY <1>1, <1>8, <1>11
  <2>2. op.bit \in Flags
    BY <1>6, <1>11
  <2>3. {p \in R : p[2] \in v} = IF op.up THEN {<<r, op.bit>>} ELSE {}
    <3>1. ASSUME NEW p \in R
          PROVE  p[2] = op.bit <=> p = <<r, op.bit>>
      OBVIOUS
    <3> QED BY <2>1, <2>2, <3>1
  <2>4. onNext = Abstract!Turn(on \ R, r, op.bit, op.up)
    <3>1. <<r, op.bit>> \in R
      BY <2>2
    <3> HIDE DEF R
    <3> QED BY <1>4, <2>3, <3>1 DEF Abstract!Turn
  <2> QED BY <1>2, <1>11, <2>2, <2>4 DEF on, onNext
<1>12. CASE lost = "read" /\ op.bit \notin Kept(r)
  <2>1. v = {}
    BY <1>1, <1>8, <1>12
  <2>2. onNext = on \ R
    BY <1>4, <2>1
  <2>3. <<r, "BE">> \in R
    BY <1>6
  <2>4. onNext = Abstract!Turn(on \ R, r, "BE", FALSE)
    BY <2>2, <2>3 DEF Abstract!Turn
  <2> QED BY <1>2, <1>6, <1>12, <2>4 DEF on, onNext
<1>13. CASE lost = "late"
  <2>1. onNext \ R = on \ R
    BY <1>4
  <2> QED BY <1>2, <1>6, <1>13, <2>1 DEF on, onNext
<1> QED BY <1>1, <1>9, <1>10, <1>11, <1>12, <1>13

(* A call whose write failed reaches the flags of its own register only. *)
LEMMA SpoilRefines ==
  ASSUME Inv, WriteFails
  PROVE  \E r \in Registers : View(bits') \ ({r} \X Flags) = View(bits) \ ({r} \X Flags)
<1> DEFINE r == op.reg
<1>1. /\ op \in CtrlOps \cup MaskOps
      /\ bits \in [Registers -> SUBSET AllBits] /\ mode \in Modes /\ halted \subseteq Cores
  BY DEF Inv, TypeOK, WriteFails, Modes
<1>2. r \in Registers
  BY <1>1, OpShape
<1>3. CASE UNCHANGED target
  BY <1>2, <1>3 DEF target
<1>4. CASE \E val \in SUBSET Writable(op.reg) : Put(op.reg, val)
  <2>1. PICK val : Put(r, val)
    BY <1>4
  <2>2. bits' = [bits EXCEPT ![r] = val \cap Kept(r)]
    BY <1>1, <1>2, <2>1, PutEffect
  <2>3. View(bits') = (View(bits) \ ({r} \X Flags))
                        \cup {p \in {r} \X Flags : p[2] \in val \cap Kept(r)}
    BY <1>1, <1>2, <2>2, ViewOfPut
  <2> QED BY <1>2, <2>3
<1> QED BY <1>3, <1>4 DEF WriteFails

LEMMA InitRefines == Init => Abstract!Init
  BY DEF Init, Abstract!Init, Abstract!Pairs

LEMMA NextRefines == Inv /\ [Next]_vars => [Abstract!Next]_(Abstract!vars)
<1> SUFFICES ASSUME Inv, [Next]_vars PROVE [Abstract!Next]_(Abstract!vars)
  OBVIOUS
<1> DEFINE on == {p \in Registers \X (ControlFlags \cup Cores) : p[2] \in bits[p[1]]}
<1>0. on = View(bits) /\ on' = View(bits')
  BY DEF View, Flags
<1>1. CASE Call
  <2>1. Abstract!Call
    BY <1>1 DEF Call, target, Abstract!Call
  <2> QED BY <2>1 DEF Abstract!Next
<1>2. CASE ReadFails
  <2>1. Abstract!ReadFails
    BY <1>2 DEF ReadFails, target, Abstract!ReadFails
  <2> QED BY <2>1 DEF Abstract!Next
<1>7. CASE ReadLate
  <2>1. Abstract!LateRead
    BY <1>7 DEF ReadLate, target, Abstract!LateRead
  <2> QED BY <2>1 DEF Abstract!Next
<1>3. CASE UNCHANGED <<bits, lost>>
  BY <1>3 DEF Abstract!vars
<1>4. CASE WriteRegister
  <2>1. PICK r \in Registers, f \in Flags, up \in BOOLEAN :
          \/ lost = "nothing" /\ View(bits') \in {View(bits), Abstract!Turn(View(bits), r, f, up)}
          \/ lost = "read" /\ View(bits') = Abstract!Turn(View(bits) \ ({r} \X Flags), r, f, up)
          \/ lost = "late" /\ View(bits') \ ({r} \X Flags) = View(bits) \ ({r} \X Flags)
    BY <1>4, WriteRefines
  <2>2. UNCHANGED lost
    BY <1>4 DEF WriteRegister
  <2>3. CASE View(bits') = View(bits)
    BY <1>0, <2>2, <2>3 DEF Abstract!vars
  <2>4. CASE lost = "nothing" /\ View(bits') = Abstract!Turn(View(bits), r, f, up)
    <3>1. Abstract!Change(r, f, up)
      BY <1>0, <2>2, <2>4 DEF Abstract!Change
    <3> QED BY <3>1 DEF Abstract!Next, Flags
  <2>5. CASE lost = "read" /\ View(bits') = Abstract!Turn(View(bits) \ ({r} \X Flags), r, f, up)
    <3>1. Abstract!Forget(r, f, up)
      BY <1>0, <2>2, <2>5 DEF Abstract!Forget, Abstract!Of, Flags
    <3> QED BY <3>1 DEF Abstract!Next, Flags
  <2>6. CASE lost = "late" /\ View(bits') \ ({r} \X Flags) = View(bits) \ ({r} \X Flags)
    <3>1. View(bits') \in SUBSET (Registers \X Flags)
      BY DEF View
    <3>2. Abstract!Muddle(r)
      BY <1>0, <2>2, <2>6, <3>1
         DEF Abstract!Muddle, Abstract!Within, Abstract!Pairs, Abstract!Of, Flags
    <3> QED BY <3>2 DEF Abstract!Next
  <2> QED BY <2>1, <2>3, <2>4, <2>5, <2>6
<1>5. CASE WriteFails
  <2>1. PICK r \in Registers : View(bits') \ ({r} \X Flags) = View(bits) \ ({r} \X Flags)
    BY <1>5, SpoilRefines
  <2>2. lost' = "write" /\ View(bits') \in SUBSET (Registers \X Flags)
    BY <1>5 DEF WriteFails, View
  <2>3. Abstract!WriteFails(r)
    BY <1>0, <2>1, <2>2 DEF Abstract!WriteFails, Abstract!Within, Abstract!Pairs, Abstract!Of, Flags
  <2> QED BY <2>3 DEF Abstract!Next
<1>6. Inv => TypeOK
  BY DEF Inv
<1> QED BY <1>1, <1>2, <1>3, <1>4, <1>5, <1>6, <1>7, TrapModes
        DEF Next, vars, ReadRegister, target

(* Every call turns its own flag and no other, unless an access of it      *)
(* fails or its read takes the answer to an earlier one; no call ever      *)
(* reaches another register (leon3_dsu.c 182-222, 252-373).                *)
THEOREM FlagsCorrect == Spec => ImplementsFlags
<1>1. Inv /\ Inv' /\ [Next]_vars => [Abstract!Next]_(Abstract!vars)
  BY NextRefines
<1> QED BY <1>1, InitRefines, InvCorrect, PTL DEF Spec, ImplementsFlags, Abstract!Spec

-----------------------------------------------------------------------------
(* Held cores stay held. *)

Held ==
  \A c \in Cores :
    (mode[c] = "debug" /\ mode'[c] # "debug") \/ (c \in halted /\ c \notin halted')
      => About(c) \/ (op.reg = Break /\ lost' # "nothing")

(* A bit that was read as set is taken away by its own call only. *)
LEMMA OwnBit ==
  ASSUME NEW c \in Cores, op.reg = Break, c \in bits[Break] \ Changed(tmp),
         tmp \cap Kept(Break) = bits[Break]
  PROVE  op.bit = c
<1>1. c \in tmp
  BY DEF Kept
<1> QED BY <1>1 DEF Changed

LEMMA NextHeld == Inv /\ [Next]_vars => [Held]_vars
<1> SUFFICES ASSUME Inv, [Next]_vars PROVE Held
  OBVIOUS
<1>0. TypeOK /\ ReadInv
  BY DEF Inv
<1>1. CASE UNCHANGED target
  BY <1>1 DEF target, Held
(* Whatever is written: only the control register of a core and the break  *)
(* bits let a core go.                                                     *)
<1>2. ASSUME NEW val, Put(op.reg, val), op \in CtrlOps \cup MaskOps,
             NEW c \in Cores,
             \/ mode[c] = "debug" /\ mode'[c] # "debug"
             \/ c \in halted /\ c \notin halted'
      PROVE  op.reg = Ctrl(c) \/ (op.reg = Break /\ c \in bits[Break] \ val)
  <2>1. bits \in [Registers -> SUBSET AllBits] /\ mode \in Modes /\ halted \subseteq Cores
    BY <1>0 DEF TypeOK, Modes
  <2>2. op.reg \in Registers
    BY <1>2, OpShape
  <2>3. /\ mode'[c] \in {mode[c], "debug"} \/ op.reg = Ctrl(c)
              \/ (op.reg = Break /\ c \in bits[Break] \ val)
        /\ c \in halted \ halted' => op.reg = Ctrl(c)
    BY <1>2, <2>1, <2>2, PutEffect
  <2> QED BY <1>2, <2>3
<1>3. CASE WriteRegister
  <2>1. op \in CtrlOps \cup MaskOps /\ Put(op.reg, Changed(tmp))
    BY <1>0, <1>3 DEF TypeOK, WriteRegister
  <2>2. lost' = "nothing" => tmp \cap Kept(op.reg) = bits[op.reg]
    BY <1>0, <1>3 DEF ReadInv, WriteRegister
  <2>3. ASSUME NEW c \in Cores,
               \/ mode[c] = "debug" /\ mode'[c] # "debug"
               \/ c \in halted /\ c \notin halted'
        PROVE  About(c) \/ (op.reg = Break /\ lost' # "nothing")
    <3>1. op.reg = Ctrl(c) \/ (op.reg = Break /\ c \in bits[Break] \ Changed(tmp))
      BY <1>2, <2>1, <2>3
    <3> QED BY <2>2, <3>1, OwnBit DEF About
  <2> QED BY <2>3 DEF Held
<1>4. CASE WriteFails
  <2>1. op \in CtrlOps \cup MaskOps /\ lost' = "write"
    BY <1>0, <1>4 DEF TypeOK, WriteFails
  <2>2. CASE UNCHANGED target
    BY <1>1, <2>2
  <2>3. CASE \E val \in SUBSET Writable(op.reg) : Put(op.reg, val)
    <3>1. PICK val : Put(op.reg, val)
      BY <2>3
    <3>2. ASSUME NEW c \in Cores,
                 \/ mode[c] = "debug" /\ mode'[c] # "debug"
                 \/ c \in halted /\ c \notin halted'
          PROVE  About(c) \/ (op.reg = Break /\ lost' # "nothing")
      <4>1. op.reg = Ctrl(c) \/ op.reg = Break
        BY <1>2, <2>1, <3>1, <3>2
      <4> QED BY <2>1, <4>1 DEF About
    <3> QED BY <3>2 DEF Held
  <2> QED BY <1>4, <2>2, <2>3 DEF WriteFails
<1>5. CASE Trap
  BY <1>0, <1>5, TrapModes DEF Held
<1> QED BY <1>1, <1>3, <1>4, <1>5 DEF Next, Call, ReadRegister, ReadLate, ReadFails, vars, target

(* A call releases or resumes no core but its own, unless it is one on the *)
(* break bits and an access of it failed or came late (leon3_dsu.c         *)
(* 182-222, 252-373).                                                      *)
THEOREM HeldCorrect == Spec => HeldStaysHeld
<1>1. Inv /\ Inv' /\ [Next]_vars => [Held]_vars
  BY NextHeld
<1> QED BY <1>1, InvCorrect, PTL DEF Spec, HeldStaysHeld, Held
=============================================================================
